--------------------- MODULE AppManagerServices_proofs ----------------------
(* The invariants of an AppManager's applications, their settings and what prevents a reboot,
   for every value of the constants: they hold in the first states and no step breaks them. *)
EXTENDS AppManagerServices, FiniteSetTheorems, TLAPS

-----------------------------------------------------------------------------
(* Reboots *)

(* What the sensors and the callers have. *)
RBWatches == [there : BOOLEAN, info : SUBSET RB!Flag, reading : RB!Reading, subscribed : BOOLEAN]
RBTypes ==
  /\ health \in [rbSensor -> {"good", "bad"}] /\ asked \in [rbSensor -> SUBSET RB!Flag]
  /\ opening \in [rbSensor -> {"none", "closing", "opening", "subscribing"}]
  /\ watch \in [rbSensor -> RBWatches] /\ rbSent \in [rbSensor -> Seq({"good", "bad"})]
  /\ caller \in [RB!Caller -> {"none", "asking", "waiting", "cleared", "script", "rebooting",
                            "over"}]
  /\ rebooting \in BOOLEAN

(* A sensor of an application that is there and that was opened with flags is watched with
   them and its readings come, and the last one on its way, or the one that has come, is
   the last there is. *)
RBOpened(s) == opening[s] = "subscribing" \/ (opening[s] = "none" /\ asked[s] # {})
RBOpenedIsWatched ==
  \A s \in rbSensor : AppOf[s] \in rbApps /\ RBOpened(s) =>
    watch[s].there /\ watch[s].info = asked[s]
RBOpenedIsSubscribed ==
  \A s \in rbSensor : AppOf[s] \in rbApps /\ RBOpened(s) /\ opening[s] = "none" => watch[s].subscribed
RBSubscribedIsThere ==
  \A s \in rbSensor : watch[s].subscribed => watch[s].there /\ opening[s] = "none"
RBIsLast(r, q, x) == IF q = <<>> THEN r = x ELSE q[Len(q)] = x
RBReadingsCome ==
  \A s \in rbSensor : AppOf[s] \in rbApps /\ RB!Listening(s) =>
    RBIsLast(watch[s].reading, rbSent[s], health[s])

(* The flags of an application are set when a reading that has come asks for it, unless
   another sensor has masked it. *)
RBBad(s) == watch[s].there /\ "problem" \in watch[s].info /\ watch[s].reading = "bad"
RBFlagged(s) == AppOf[s] \in rbFlags \/ AppOf[s] \in masked
RBFlagsAreSet ==
  \A s \in rbSensor : AppOf[s] \in rbApps /\ RB!Listening(s) /\ rbSent[s] = <<>> /\ RBBad(s) => RBFlagged(s)

(* Only who has seen that no script runs makes one run. *)
RBScriptRuns == \A c \in RB!Caller : caller[c] \in {"script", "rebooting"} => rebooting
RBScriptIsOne ==
  \A c, d \in RB!Caller :
    caller[c] \in {"script", "rebooting"} /\ caller[d] \in {"script", "rebooting"} => c = d

RBSensorInv ==
  RBOpenedIsWatched /\ RBOpenedIsSubscribed /\ RBSubscribedIsThere /\ RBReadingsCome /\ RBFlagsAreSet
RBCallerInv == RBScriptRuns /\ RBScriptIsOne /\ unsound = {}
RBInv == RBTypes /\ RBSensorInv /\ RBCallerInv

LEMMA RBInitHolds ==
  ASSUME RBConstants, RB!Init
  PROVE  RBInv
<1>1. RB!NoWatch \in RBWatches /\ ~RB!NoWatch.there /\ ~RB!NoWatch.subscribed /\ <<>> \in Seq({"good", "bad"})
  BY DEF RB!NoWatch, RBWatches, RB!Reading
<1>2. RBTypes
  BY <1>1 DEF RB!Init, RBTypes, RB!Caller
<1>3. \A s \in rbSensor : watch[s] = RB!NoWatch /\ opening[s] = "none" /\ asked[s] = {}
  BY DEF RB!Init
<1>4. RBSensorInv
  BY <1>1, <1>3 DEF RBSensorInv, RBOpenedIsWatched, RBOpenedIsSubscribed, RBSubscribedIsThere,
     RBReadingsCome, RBFlagsAreSet, RBOpened, RB!Listening
<1>5. RBCallerInv
  BY DEF RB!Init, RBCallerInv, RBScriptRuns, RBScriptIsOne
<1> QED
  BY <1>2, <1>4, <1>5 DEF RBInv

(* Steps of the sensors leave the callers alone, and the other way round. *)
LEMMA RBCallersStay ==
  ASSUME RBCallerInv, UNCHANGED <<caller, rebooting, unsound>>
  PROVE  RBCallerInv'
BY DEF RBCallerInv, RBScriptRuns, RBScriptIsOne

LEMMA RBSensorsStay ==
  ASSUME RBSensorInv, UNCHANGED <<rbApps, rbFlags, health, opening, asked, watch, rbSent, masked>>
  PROVE  RBSensorInv'
BY DEF RBSensorInv, RBOpenedIsWatched, RBOpenedIsSubscribed, RBSubscribedIsThere,
   RBReadingsCome, RBFlagsAreSet, RBOpened, RB!Listening, RBBad, RBFlagged

LEMMA RBTypesStay ==
  ASSUME RBTypes, UNCHANGED <<health, asked, opening, watch, rbSent, caller, rebooting>>
  PROVE  RBTypes'
BY DEF RBTypes

LEMMA RBOtherSteps ==
  ASSUME RBInv, UNCHANGED <<rbApps, rbFlags, health, opening, asked, watch, rbSent, masked>>,
         UNCHANGED <<caller, rebooting, unsound>>
  PROVE  RBInv'
BY RBTypesStay, RBCallersStay, RBSensorsStay DEF RBInv

(* The steps of one sensor: for the others nothing changes but the flags. *)
LEMMA RBWatchSensorStep ==
  ASSUME RBConstants, RBInv, NEW s \in rbSensor, RB!WatchSensor(s)
  PROVE  RBInv'
<1> USE DEF RBInv, RBTypes
<1>1. PICK info \in rbInfo : asked' = [asked EXCEPT ![s] = info]
  BY DEF RB!WatchSensor
<1>2. /\ opening' = [opening EXCEPT ![s] = IF watch[s].subscribed THEN "closing" ELSE "opening"]
      /\ watch' = [watch EXCEPT ![s].subscribed = FALSE]
      /\ UNCHANGED <<rbApps, rbFlags, health, rbSent, masked, caller, rebooting, unsound>>
  BY DEF RB!WatchSensor, RB!KeepReboot
<1>3. info \in SUBSET RB!Flag
  BY DEF RBConstants
<1> DEFINE new == [watch[s] EXCEPT !.subscribed = FALSE]
<1>4. new \in RBWatches /\ ~new.subscribed
  BY DEF RBWatches
<1>5. /\ watch' \in [rbSensor -> RBWatches] /\ ~watch'[s].subscribed
      /\ \A z \in rbSensor : z # s => watch'[z] = watch[z]
  <2>1. watch' = [watch EXCEPT ![s] = new]
    BY <1>2
  <2> HIDE DEF new
  <2> QED
    BY <1>4, <2>1
<1>6. /\ opening'[s] \in {"closing", "opening"} /\ asked' \in [rbSensor -> SUBSET RB!Flag]
      /\ opening' \in [rbSensor -> {"none", "closing", "opening", "subscribing"}]
      /\ \A z \in rbSensor : z # s => opening'[z] = opening[z] /\ asked'[z] = asked[z]
  BY <1>1, <1>2, <1>3
<1>7. RBTypes'
  BY <1>2, <1>5, <1>6
<1>8. RBSensorInv'
  BY <1>2, <1>5, <1>6 DEF RBSensorInv, RBOpenedIsWatched, RBOpenedIsSubscribed,
     RBSubscribedIsThere, RBReadingsCome, RBFlagsAreSet, RBOpened, RB!Listening, RBBad,
     RBFlagged
<1> QED
  BY <1>2, <1>7, <1>8, RBCallersStay

LEMMA RBClosedStep ==
  ASSUME RBInv, NEW s \in rbSensor, RB!Closed(s)
  PROVE  RBInv'
<1> USE DEF RBInv, RBTypes
<1>1. /\ opening[s] = "closing" /\ opening' = [opening EXCEPT ![s] = "opening"]
      /\ rbSent' = [rbSent EXCEPT ![s] = <<>>]
      /\ UNCHANGED <<rbApps, rbFlags, health, asked, watch, masked, caller, rebooting, unsound>>
  BY DEF RB!Closed, RB!KeepReboot
<1>2. <<>> \in Seq({"good", "bad"})
  OBVIOUS
<1>3. RBTypes'
  BY <1>1, <1>2
<1>4. RBSensorInv'
  BY <1>1 DEF RBSensorInv, RBOpenedIsWatched, RBOpenedIsSubscribed, RBSubscribedIsThere,
     RBReadingsCome, RBFlagsAreSet, RBOpened, RB!Listening, RBBad, RBFlagged
<1> QED
  BY <1>1, <1>3, <1>4, RBCallersStay

LEMMA RBReadings ==
  ASSUME NEW q \in Seq({"good", "bad"}), NEW x \in {"good", "bad"}
  PROVE  /\ Append(q, x) \in Seq({"good", "bad"}) /\ Append(q, x) # <<>>
         /\ \A r : RBIsLast(r, Append(q, x), x)
BY DEF RBIsLast

LEMMA RBLastOfTail ==
  ASSUME NEW q \in Seq({"good", "bad"}), q # <<>>
  PROVE  /\ Head(q) \in {"good", "bad"} /\ Tail(q) \in Seq({"good", "bad"})
         /\ \A r, x : RBIsLast(r, q, x) => RBIsLast(Head(q), Tail(q), x)
<1>1. PICK n \in Nat : Len(q) = n + 1
  BY Len(q) \in Nat /\ Len(q) # 0
<1> DEFINE t == Tail(q)
<1>2. /\ t \in Seq({"good", "bad"}) /\ Len(t) = n /\ Head(q) = q[1]
      /\ \A i \in 1 .. n : t[i] = q[i + 1]
  BY <1>1
<1> HIDE DEF t
<1>3. CASE n = 0
  <2>1. t = <<>> /\ Len(q) = 1
    BY <1>1, <1>2, <1>3
  <2> QED
    BY <1>2, <2>1 DEF RBIsLast, t
<1>4. CASE n # 0
  <2>1. t # <<>> /\ t[Len(t)] = q[Len(q)]
    BY <1>1, <1>2, <1>4
  <2> QED
    BY <1>2, <2>1 DEF RBIsLast, t
<1> QED
  BY <1>3, <1>4

LEMMA RBSubscribeStep ==
  ASSUME RBConstants, RBInv, NEW s \in rbSensor, RB!Subscribe(s)
  PROVE  RBInv'
<1> USE DEF RBInv, RBTypes
<1>1. /\ opening[s] = "opening"
      /\ UNCHANGED <<rbApps, rbFlags, health, asked, masked, caller, rebooting, unsound>>
  BY DEF RB!Subscribe, RB!KeepReboot
<1>2. ~watch[s].subscribed
  BY <1>1 DEF RBSensorInv, RBSubscribedIsThere
<1>3. CASE asked[s] = {}
  <2>1. opening' = [opening EXCEPT ![s] = "none"] /\ UNCHANGED <<watch, rbSent>>
    BY <1>3 DEF RB!Subscribe
  <2>2. RBTypes'
    BY <1>1, <2>1
  <2>3. RBSensorInv'
    BY <1>1, <1>2, <1>3, <2>1 DEF RBSensorInv, RBOpenedIsWatched, RBOpenedIsSubscribed,
       RBSubscribedIsThere, RBReadingsCome, RBFlagsAreSet, RBOpened, RB!Listening, RBBad,
       RBFlagged
  <2> QED
    BY <1>1, <2>2, <2>3, RBCallersStay
<1>4. CASE asked[s] # {}
  <2> DEFINE new == [watch[s] EXCEPT !.there = TRUE, !.info = asked[s]]
             q == Append(rbSent[s], health[s])
  <2>1. /\ opening' = [opening EXCEPT ![s] = "subscribing"]
        /\ watch' = [watch EXCEPT ![s] = new] /\ rbSent' = [rbSent EXCEPT ![s] = q]
    BY <1>4 DEF RB!Subscribe, RB!Watched
  <2>2. new \in RBWatches /\ new.there /\ new.info = asked[s] /\ ~new.subscribed
    BY <1>2 DEF RBWatches
  <2>3. q \in Seq({"good", "bad"}) /\ q # <<>> /\ \A r : RBIsLast(r, q, health[s])
    BY RBReadings
  <2> HIDE DEF new, q
  <2>4. RBTypes'
    BY <1>1, <2>1, <2>2, <2>3
  <2>5. /\ watch'[s] = new /\ rbSent'[s] = q /\ opening'[s] = "subscribing"
        /\ \A z \in rbSensor : z # s =>
             watch'[z] = watch[z] /\ rbSent'[z] = rbSent[z] /\ opening'[z] = opening[z]
    BY <2>1
  <2>a. UNCHANGED <<rbApps, asked>>
    BY <1>1
  <2>b. RBOpenedIsWatched'
    <3> SUFFICES ASSUME NEW z \in rbSensor, AppOf[z] \in rbApps, RBOpened(z)'
                 PROVE  watch'[z].there /\ watch'[z].info = asked[z]
      BY <2>a DEF RBOpenedIsWatched
    <3>1. CASE z = s
      BY <2>2, <2>5, <3>1
    <3>2. CASE z # s
      <4>1. RBOpened(z)
        BY <2>a, <2>5, <3>2 DEF RBOpened
      <4> QED
        BY <2>5, <3>2, <4>1 DEF RBSensorInv, RBOpenedIsWatched
    <3> QED
      BY <3>1, <3>2
  <2>c. RBOpenedIsSubscribed'
    BY <2>a, <2>5 DEF RBSensorInv, RBOpenedIsSubscribed, RBOpened
  <2>d. RBSubscribedIsThere'
    BY <2>2, <2>5 DEF RBSensorInv, RBSubscribedIsThere
  <2>6. RBOpenedIsWatched' /\ RBOpenedIsSubscribed' /\ RBSubscribedIsThere'
    BY <2>b, <2>c, <2>d
  <2>7. RBReadingsCome'
    BY <1>1, <2>3, <2>5 DEF RBSensorInv, RBReadingsCome, RB!Listening
  <2>8. RBFlagsAreSet'
    BY <1>1, <2>3, <2>5 DEF RBSensorInv, RBFlagsAreSet, RB!Listening, RBBad, RBFlagged
  <2> QED
    BY <1>1, <2>4, <2>6, <2>7, <2>8, RBCallersStay DEF RBSensorInv
<1> QED
  BY <1>3, <1>4

LEMMA RBSubscribedStep ==
  ASSUME RBInv, NEW s \in rbSensor, RB!Subscribed(s)
  PROVE  RBInv'
<1> USE DEF RBInv, RBTypes
<1> DEFINE new == [watch[s] EXCEPT !.subscribed = watch[s].there]
<1>1. /\ opening[s] = "subscribing" /\ opening' = [opening EXCEPT ![s] = "none"]
      /\ watch' = [watch EXCEPT ![s] = new]
      /\ rbSent' = IF watch[s].there THEN rbSent ELSE [rbSent EXCEPT ![s] = <<>>]
      /\ UNCHANGED <<rbApps, rbFlags, health, asked, masked, caller, rebooting, unsound>>
  BY DEF RB!Subscribed, RB!KeepReboot
<1>2. /\ new \in RBWatches /\ new.there = watch[s].there /\ new.info = watch[s].info
      /\ new.reading = watch[s].reading /\ new.subscribed = watch[s].there
  BY DEF RBWatches
<1> HIDE DEF new
<1>3. <<>> \in Seq({"good", "bad"})
  OBVIOUS
<1>4. RBTypes'
  BY <1>1, <1>2, <1>3
<1>5. /\ watch'[s] = new /\ opening'[s] = "none" /\ (watch[s].there => rbSent'[s] = rbSent[s])
      /\ \A z \in rbSensor : z # s =>
           watch'[z] = watch[z] /\ rbSent'[z] = rbSent[z] /\ opening'[z] = opening[z]
  BY <1>1
<1>6. AppOf[s] \in rbApps => watch[s].there
  BY <1>1 DEF RBSensorInv, RBOpenedIsWatched, RBOpened
<1>7. RBSensorInv'
  BY <1>1, <1>2, <1>5, <1>6 DEF RBSensorInv, RBOpenedIsWatched, RBOpenedIsSubscribed,
     RBSubscribedIsThere, RBReadingsCome, RBFlagsAreSet, RBOpened, RB!Listening, RBBad,
     RBFlagged
<1> QED
  BY <1>1, <1>4, <1>7, RBCallersStay

LEMMA RBNewReadingStep ==
  ASSUME RBInv, NEW s \in rbSensor, RB!NewReading(s)
  PROVE  RBInv'
<1> USE DEF RBInv, RBTypes
<1>1. PICK r \in {"good", "bad"} :
        /\ health' = [health EXCEPT ![s] = r]
        /\ rbSent' = IF RB!Listening(s) THEN [rbSent EXCEPT ![s] = Append(@, r)] ELSE rbSent
  BY DEF RB!NewReading
<1>2. UNCHANGED <<rbApps, rbFlags, opening, asked, watch, masked, caller, rebooting, unsound>>
  BY DEF RB!NewReading, RB!KeepReboot
<1> DEFINE q == Append(rbSent[s], r)
<1>3. q \in Seq({"good", "bad"}) /\ q # <<>> /\ \A v : RBIsLast(v, q, r)
  BY RBReadings
<1>4. rbSent' = IF RB!Listening(s) THEN [rbSent EXCEPT ![s] = q] ELSE rbSent
  BY <1>1
<1> HIDE DEF q
<1>5. RBTypes'
  BY <1>1, <1>2, <1>3, <1>4
<1>6. /\ health'[s] = r /\ (RB!Listening(s) => rbSent'[s] = q)
      /\ \A z \in rbSensor : z # s => health'[z] = health[z] /\ rbSent'[z] = rbSent[z]
  BY <1>1, <1>4
<1>7. RBOpenedIsWatched' /\ RBOpenedIsSubscribed' /\ RBSubscribedIsThere'
  BY <1>2 DEF RBSensorInv, RBOpenedIsWatched, RBOpenedIsSubscribed, RBSubscribedIsThere,
     RBOpened
<1>8. RBReadingsCome'
  <2> SUFFICES ASSUME NEW z \in rbSensor, AppOf[z] \in rbApps, RB!Listening(z)
               PROVE  RBIsLast(watch[z].reading, rbSent'[z], health'[z])
    BY <1>2 DEF RBReadingsCome, RB!Listening
  <2>1. CASE z = s
    BY <1>3, <1>6, <2>1
  <2>2. CASE z # s
    BY <1>6, <2>2 DEF RBSensorInv, RBReadingsCome
  <2> QED
    BY <2>1, <2>2
<1>9. RBFlagsAreSet'
  BY <1>2, <1>3, <1>6 DEF RBSensorInv, RBFlagsAreSet, RB!Listening, RBBad, RBFlagged
<1> QED
  BY <1>2, <1>5, <1>7, <1>8, <1>9, RBCallersStay DEF RBSensorInv

(* A reading comes: the flags of the application become those of its sensor, and when that
   hides what another sensor of it asks for, it is masked. *)
LEMMA RBReceiveStep ==
  ASSUME RBInv, NEW s \in rbSensor, RB!Receive(s)
  PROVE  RBInv'
<1> USE DEF RBInv, RBTypes
<1> DEFINE new == [watch[s] EXCEPT !.reading = Head(rbSent[s])]
           q == Tail(rbSent[s])
<1>1. /\ rbSent[s] # <<>> /\ rbSent' = [rbSent EXCEPT ![s] = q]
      /\ UNCHANGED <<rbApps, health, opening, asked, caller, rebooting, unsound>>
  BY DEF RB!Receive, RB!KeepReboot
<1>2. /\ Head(rbSent[s]) \in {"good", "bad"} /\ q \in Seq({"good", "bad"})
      /\ \A r, x : RBIsLast(r, rbSent[s], x) => RBIsLast(Head(rbSent[s]), q, x)
  <2>1. rbSent[s] \in Seq({"good", "bad"}) /\ rbSent[s] # <<>>
    BY <1>1
  <2> QED
    BY <2>1, RBLastOfTail
<1>3. /\ new \in RBWatches /\ new.there = watch[s].there /\ new.info = watch[s].info
      /\ new.reading = Head(rbSent[s]) /\ new.subscribed = watch[s].subscribed
  BY <1>2 DEF RBWatches, RB!Reading
<1>4. /\ watch[s].there => /\ watch' = [watch EXCEPT ![s] = new]
                           /\ RB!UpdateApplicationFlags(s, new)
      /\ ~watch[s].there => UNCHANGED <<watch, rbFlags, masked>>
  BY DEF RB!Receive
<1> HIDE DEF new, q
<1>5. /\ rbSent' \in [rbSensor -> Seq({"good", "bad"})] /\ rbSent'[s] = q
      /\ \A z \in rbSensor : z # s => rbSent'[z] = rbSent[z]
  BY <1>1, <1>2
<1>6. CASE ~watch[s].there
  <2>1. RBTypes'
    BY <1>1, <1>4, <1>5, <1>6
  <2>2. ~(AppOf[s] \in rbApps /\ RB!Listening(s))
    BY <1>6 DEF RBSensorInv, RBOpenedIsWatched, RBSubscribedIsThere, RB!Listening, RBOpened
  <2>3. RBSensorInv'
    BY <1>1, <1>4, <1>5, <1>6, <2>2 DEF RBSensorInv, RBOpenedIsWatched, RBOpenedIsSubscribed,
       RBSubscribedIsThere, RBReadingsCome, RBFlagsAreSet, RBOpened, RB!Listening, RBBad,
       RBFlagged
  <2> QED
    BY <1>1, <2>1, <2>3, RBCallersStay
<1>7. CASE watch[s].there
  <2>1. /\ watch' \in [rbSensor -> RBWatches] /\ watch'[s] = new
        /\ \A z \in rbSensor : z # s => watch'[z] = watch[z]
    BY <1>3, <1>4, <1>7
  <2>2. RBTypes'
    BY <1>1, <1>5, <2>1
  <2>3. RBOpenedIsWatched' /\ RBOpenedIsSubscribed' /\ RBSubscribedIsThere'
    <3>1. ASSUME NEW z \in rbSensor
          PROVE  /\ watch'[z].there = watch[z].there /\ watch'[z].info = watch[z].info
                 /\ watch'[z].subscribed = watch[z].subscribed
      BY <1>3, <2>1
    <3>2. RBOpenedIsWatched'
      BY <1>1, <3>1 DEF RBSensorInv, RBOpenedIsWatched, RBOpened
    <3>3. RBOpenedIsSubscribed'
      BY <1>1, <3>1 DEF RBSensorInv, RBOpenedIsSubscribed, RBOpened
    <3>4. RBSubscribedIsThere'
      BY <1>1, <3>1 DEF RBSensorInv, RBSubscribedIsThere
    <3> QED
      BY <3>2, <3>3, <3>4
  <2>4. RBReadingsCome'
    BY <1>1, <1>2, <1>3, <1>5, <2>1 DEF RBSensorInv, RBReadingsCome, RB!Listening
  <2>5. ASSUME NEW z \in rbSensor, AppOf[z] \in rbApps, RB!Listening(z)', rbSent'[z] = <<>>, RBBad(z)'
        PROVE  RBFlagged(z)'
    <3> DEFINE a == AppOf[s]
               prevented == RB!Prevented(s, new)
               hides == ~prevented /\ \E y \in RB!Others(s) :
                          watch[y].there /\ RB!Prevented(y, watch[y])
    <3>1. CASE a \notin rbApps
      <4>1. UNCHANGED <<rbFlags, masked>> /\ z # s
        BY <1>4, <1>7, <2>5, <3>1 DEF RB!UpdateApplicationFlags
      <4> QED
        BY <1>1, <1>5, <2>1, <2>5, <4>1 DEF RBSensorInv, RBFlagsAreSet, RB!Listening, RBBad,
           RBFlagged
    <3>2. CASE a \in rbApps
      <4>1. /\ rbFlags' = IF prevented THEN rbFlags \union {a} ELSE rbFlags \ {a}
            /\ masked' = IF hides THEN masked \union {a} ELSE masked \ {a}
        BY <1>2, <1>3, <1>4, <1>7, <3>2 DEF RB!UpdateApplicationFlags
      <4>2. CASE z = s
        <5>1. prevented
          BY <2>1, <2>5, <4>2 DEF RBBad, RB!Prevented
        <5> QED
          BY <4>1, <4>2, <5>1 DEF RBFlagged
      <4>3. CASE z # s /\ AppOf[z] = a
        <5>1. z \in RB!Others(s) /\ watch[z].there /\ RB!Prevented(z, watch[z])
          BY <2>1, <2>5, <4>3 DEF RB!Others, RBBad, RB!Prevented
        <5>2. prevented \/ hides
          BY <5>1
        <5> HIDE DEF prevented, hides
        <5> QED
          BY <4>1, <4>3, <5>2 DEF RBFlagged
      <4>4. CASE AppOf[z] # a
        <5>1. z # s
          BY <4>4
        <5>2. RBFlagged(z)
          BY <1>1, <1>5, <2>1, <2>5, <5>1 DEF RBSensorInv, RBFlagsAreSet, RB!Listening, RBBad
        <5> HIDE DEF prevented, hides
        <5> QED
          BY <4>1, <4>4, <5>2 DEF RBFlagged
      <4> QED
        BY <4>2, <4>3, <4>4
    <3> QED
      BY <3>1, <3>2
  <2>6. RBFlagsAreSet'
    BY <1>1, <2>5 DEF RBFlagsAreSet
  <2> QED
    BY <1>1, <2>2, <2>3, <2>4, <2>6, RBCallersStay DEF RBSensorInv
<1> QED
  BY <1>6, <1>7

LEMMA RBUpdateApplicationsStep ==
  ASSUME RBInv, RB!UpdateApplications
  PROVE  RBInv'
<1> USE DEF RBInv
<1> DEFINE decided == {a \in rbApps : RB!Deciding(a) # {}}
           set == {a \in decided : \A s \in RB!Deciding(a) : RB!Prevented(s, watch[s])}
           hides == {a \in decided \ set : \E z \in rbSensor :
                       AppOf[z] = a /\ watch[z].there /\ watch[z].reading # "none"
                         /\ RB!Prevented(z, watch[z])}
<1>1. /\ rbFlags' = (rbFlags \ decided) \union set /\ masked' = (masked \ decided) \union hides
      /\ UNCHANGED <<rbApps, health, opening, asked, watch, rbSent, caller, rebooting, unsound>>
  BY DEF RB!UpdateApplications, RB!KeepReboot
<1>2. RBTypes'
  BY <1>1 DEF RBTypes
<1>3. ASSUME NEW z \in rbSensor, AppOf[z] \in rbApps, RBBad(z), RBFlagged(z)
      PROVE  RBFlagged(z)'
  <2> DEFINE a == AppOf[z]
  <2>1. CASE a \notin decided
    <3> HIDE DEF decided, set, hides
    <3> QED
      BY <1>1, <1>3, <2>1 DEF RBFlagged
  <2>2. CASE a \in set
    <3> HIDE DEF decided, set, hides
    <3> QED
      BY <1>1, <2>2 DEF RBFlagged
  <2>3. CASE a \in decided \ set
    <3>1. a \in hides
      BY <1>3, <2>3 DEF RBBad, RB!Prevented
    <3> HIDE DEF decided, set, hides
    <3> QED
      BY <1>1, <3>1 DEF RBFlagged
  <2> QED
    BY <2>1, <2>2, <2>3
<1> HIDE DEF decided, set, hides
<1>4. RBFlagsAreSet'
  BY <1>1, <1>3 DEF RBSensorInv, RBFlagsAreSet, RB!Listening, RBBad
<1>5. RBSensorInv'
  BY <1>1, <1>4 DEF RBSensorInv, RBOpenedIsWatched, RBOpenedIsSubscribed, RBSubscribedIsThere,
     RBReadingsCome, RBOpened, RB!Listening
<1> QED
  BY <1>1, <1>2, <1>5, RBCallersStay

LEMMA RBRemoveApplicationStep ==
  ASSUME RBInv, NEW a \in rbApp, RB!RemoveApplication(a)
  PROVE  RBInv'
<1> USE DEF RBInv
<1>1. /\ rbApps' = rbApps \ {a} /\ rbFlags' = rbFlags \ {a} /\ masked' = masked \ {a}
      /\ watch' = [s \in rbSensor |-> IF AppOf[s] = a THEN RB!NoWatch ELSE watch[s]]
      /\ rbSent' = [s \in rbSensor |-> IF AppOf[s] = a /\ watch[s].subscribed THEN <<>> ELSE rbSent[s]]
      /\ UNCHANGED <<health, opening, asked, caller, rebooting, unsound>>
  BY DEF RB!RemoveApplication, RB!KeepReboot
<1>2. RB!NoWatch \in RBWatches /\ ~RB!NoWatch.there /\ ~RB!NoWatch.subscribed /\ <<>> \in Seq({"good", "bad"})
  BY DEF RB!NoWatch, RBWatches, RB!Reading
<1>3. RBTypes'
  BY <1>1, <1>2 DEF RBTypes
<1>4. \A s \in rbSensor : /\ AppOf[s] = a => watch'[s] = RB!NoWatch
                        /\ AppOf[s] # a => watch'[s] = watch[s] /\ rbSent'[s] = rbSent[s]
  BY <1>1
<1>5. RBSensorInv'
  BY <1>1, <1>2, <1>4 DEF RBSensorInv, RBOpenedIsWatched, RBOpenedIsSubscribed,
     RBSubscribedIsThere, RBReadingsCome, RBFlagsAreSet, RBOpened, RB!Listening, RBBad,
     RBFlagged
<1> QED
  BY <1>1, <1>3, <1>5, RBCallersStay

(* A reboot that is let through: nothing that a reader of the sensors expects to prevent it
   does. *)
LEMMA RBNothingPrevents ==
  ASSUME RBInv, ~RB!PreventReboot
  PROVE  ~RB!ShouldPrevent
<1>1. ASSUME NEW s \in rbSensor, RB!Problem(s), AppOf[s] \notin masked PROVE FALSE
  <2>1. /\ AppOf[s] \in rbApps /\ RBOpened(s) /\ opening[s] = "none" /\ rbSent[s] = <<>>
        /\ "problem" \in asked[s] /\ health[s] = "bad"
    BY <1>1 DEF RB!Problem, RBOpened
  <2>2. watch[s].there /\ watch[s].info = asked[s] /\ watch[s].subscribed
    BY <2>1 DEF RBInv, RBSensorInv, RBOpenedIsWatched, RBOpenedIsSubscribed
  <2>3. watch[s].reading = "bad"
    BY <2>1, <2>2 DEF RBInv, RBSensorInv, RBReadingsCome, RBIsLast, RB!Listening
  <2>4. AppOf[s] \in rbFlags
    BY <1>1, <2>1, <2>2, <2>3 DEF RBInv, RBSensorInv, RBFlagsAreSet, RBBad, RBFlagged,
       RB!Listening
  <2> QED
    BY <2>1, <2>4 DEF RB!PreventReboot
<1> QED
  BY <1>1 DEF RB!ShouldPrevent, RB!PreventReboot

LEMMA RBCallerStep ==
  ASSUME RBInv, NEW c \in RB!Caller,
         \/ RB!Reboot(c) \/ RB!AlreadyRebooting(c) \/ RB!GiveUp(c) \/ RB!Check(c)
         \/ RB!TenSeconds(c) \/ RB!RunScript(c) \/ RB!ScriptRan(c) \/ RB!ScriptFailed(c)
  PROVE  RBInv'
<1>1. /\ UNCHANGED <<rbApps, rbFlags, health, opening, asked, watch, rbSent, masked>>
  BY DEF RB!Reboot, RB!AlreadyRebooting, RB!GiveUp, RB!Check, RB!TenSeconds, RB!RunScript,
     RB!ScriptRan, RB!ScriptFailed, RB!KeepSensors
<1>2. RBSensorInv'
  BY <1>1, RBSensorsStay DEF RBInv
<1>3. \E to \in {"asking", "waiting", "cleared", "script", "rebooting", "over"} :
        /\ caller' = [caller EXCEPT ![c] = to]
        /\ \/ to \notin {"script", "rebooting"} /\ UNCHANGED rebooting
           \/ to = "script" /\ ~rebooting /\ rebooting' = TRUE
           \/ to = "rebooting" /\ caller[c] = "script" /\ UNCHANGED rebooting
           \/ to = "over" /\ caller[c] = "script" /\ rebooting' = FALSE
  <2>1. CASE RB!Check(c)
    BY <2>1 DEF RB!Check
  <2>2. CASE RB!RunScript(c)
    BY <2>2 DEF RB!RunScript, RB!MayRunScript, RBInv, RBTypes
  <2>3. CASE ~RB!Check(c) /\ ~RB!RunScript(c)
    BY <2>3 DEF RB!Reboot, RB!AlreadyRebooting, RB!GiveUp, RB!TenSeconds, RB!ScriptRan,
       RB!ScriptFailed
  <2> QED
    BY <2>1, <2>2, <2>3
<1>4. RBTypes' /\ RBScriptRuns' /\ RBScriptIsOne'
  <2>1. PICK to \in {"asking", "waiting", "cleared", "script", "rebooting", "over"} :
          /\ caller' = [caller EXCEPT ![c] = to]
          /\ \/ to \notin {"script", "rebooting"} /\ UNCHANGED rebooting
             \/ to = "script" /\ ~rebooting /\ rebooting' = TRUE
             \/ to = "rebooting" /\ caller[c] = "script" /\ UNCHANGED rebooting
             \/ to = "over" /\ caller[c] = "script" /\ rebooting' = FALSE
    BY <1>3
  <2>2. caller'[c] = to /\ \A d \in RB!Caller : d # c => caller'[d] = caller[d]
    BY <2>1 DEF RBInv, RBTypes
  <2>3. RBTypes'
    BY <1>1, <2>1 DEF RBInv, RBTypes
  <2>4. RBScriptRuns' /\ RBScriptIsOne'
    BY <2>1, <2>2 DEF RBInv, RBCallerInv, RBScriptRuns, RBScriptIsOne
  <2> QED
    BY <2>3, <2>4
<1>5. unsound' = {}
  <2>1. CASE RB!Check(c)
    BY <2>1, RBNothingPrevents DEF RB!Check, RBInv, RBCallerInv
  <2>2. CASE ~RB!Check(c)
    BY <2>2 DEF RBInv, RBCallerInv, RB!Reboot, RB!AlreadyRebooting, RB!GiveUp, RB!TenSeconds,
       RB!RunScript, RB!ScriptRan, RB!ScriptFailed
  <2> QED
    BY <2>1, <2>2
<1> QED
  BY <1>2, <1>4, <1>5 DEF RBInv, RBCallerInv

LEMMA RBNextHolds ==
  ASSUME RBConstants, RBInv, RB!Next
  PROVE  RBInv'
<1>1. ASSUME NEW s \in rbSensor,
             \/ RB!WatchSensor(s) \/ RB!Closed(s) \/ RB!Subscribe(s) \/ RB!Subscribed(s)
             \/ RB!NewReading(s) \/ RB!Receive(s)
      PROVE  RBInv'
  BY <1>1, RBWatchSensorStep, RBClosedStep, RBSubscribeStep, RBSubscribedStep, RBNewReadingStep,
     RBReceiveStep
<1>2. ASSUME NEW s \in rbSensor, RB!NoReading(s) PROVE RBInv'
  BY <1>2, RBOtherSteps DEF RB!NoReading, RB!KeepReboot
<1>3. ASSUME NEW a \in rbApp, RB!RemoveApplication(a) \/ RB!BeginOperation(a) \/ RB!EndOperation(a)
      PROVE  RBInv'
  <2>1. CASE RB!RemoveApplication(a)
    BY <2>1, RBRemoveApplicationStep
  <2>2. CASE RB!BeginOperation(a)
    BY <2>2, RBOtherSteps DEF RB!BeginOperation, RB!KeepReboot
  <2>3. CASE RB!EndOperation(a)
    BY <2>3, RBOtherSteps DEF RB!EndOperation, RB!KeepReboot
  <2> QED
    BY <1>3, <2>1, <2>2, <2>3
<1> QED
  BY <1>1, <1>2, <1>3, RBUpdateApplicationsStep, RBCallerStep DEF RB!Next

LEMMA RBStays ==
  ASSUME RBInv, UNCHANGED rbVars
  PROVE  RBInv'
BY RBOtherSteps DEF rbVars

(* Cardinality in Reboots is that of the library. *)
LEMMA RBSameCount == \A S : RB!Cardinality(S) = Cardinality(S)
BY DEF RB!Cardinality, Cardinality

LEMMA RBHolds ==
  ASSUME RBInv
  PROVE  RB!RebootsAreAllowed /\ RB!OneScript
<1> DEFINE S == {c \in RB!Caller : caller[c] \in {"script", "rebooting"}}
<1>1. \A c, d \in S : c = d
  BY DEF RBInv, RBCallerInv, RBScriptIsOne
<1>2. CASE S = {}
  BY <1>2, RBSameCount, FS_EmptySet DEF RB!OneScript, RBInv, RBCallerInv, RB!RebootsAreAllowed
<1>3. CASE S # {}
  <2>1. PICK c \in S : TRUE
    BY <1>3
  <2>2. S = {c}
    BY <1>1, <2>1
  <2>3. Cardinality(S) = 1
    BY <2>2, FS_Singleton
  <2> QED
    BY <2>3, RBSameCount DEF RB!OneScript, RBInv, RBCallerInv, RB!RebootsAreAllowed
<1> QED
  BY <1>2, <1>3

-----------------------------------------------------------------------------
(* ApplicationSettings *)

(* What the objects, the operations and the saves are. *)
ASSaved == AS!Settings \union {asNone}
ASObject ==
  [name : Name, settings : AS!Settings, deleted : BOOLEAN, busy : Nat, parent : Nat]
ASOperation ==
  [kind : {"add", "change", "remove", "update"}, name : Name, object : Nat,
   keys : SUBSET Setting, new : AS!Settings \union {<<>>}, waited : BOOLEAN,
   step : {"fetch", "unpack", "insert", "wait", "download", "stop", "save", "finish"}]
ASSave == [operation : Nat, data : [Name -> ASSaved]]
ASValues == Nat \union {asNone}

ASTypes ==
  /\ objects \in Seq(ASObject) /\ applications \in [Name -> Nat]
  /\ asOperations \in [DOMAIN asOperations -> ASOperation] /\ DOMAIN asOperations \subseteq 1 .. asSpent
  /\ data \in [Name -> ASSaved] /\ asDisk \in [Name -> ASSaved] /\ asSaves \in Seq(ASSave)
  /\ asSpent \in Nat /\ asSpent <= asMaxEvents /\ allowed \in [Name -> [Setting -> SUBSET ASValues]]

(* An operation that adds an object nobody can find yet. *)
ASUnborn(op) == op.kind = "add" /\ op.step \in {"fetch", "unpack", "insert"}

(* An operation has an object with its name, and one that is being added is as it was
   made, and no other operation has it. *)
ASOperationsAreOn ==
  \A n \in DOMAIN asOperations :
    /\ asOperations[n].object \in DOMAIN objects
    /\ objects[asOperations[n].object].name = asOperations[n].name
ASUnbornIsNew ==
  \A n \in DOMAIN asOperations : ASUnborn(asOperations[n]) =>
    /\ ~objects[asOperations[n].object].deleted /\ objects[asOperations[n].object].busy = 0
    /\ objects[asOperations[n].object].settings = [k \in Setting |-> n]
    /\ \A m \in DOMAIN asOperations : m # n => asOperations[m].object # asOperations[n].object

(* The applications that are there, and the objects that are none. *)
ASInstalls(name, o) ==
  o \in DOMAIN objects /\ objects[o].name = name /\ ~objects[o].deleted
ASInstalledIsThere ==
  \A name \in Name : applications[name] # 0 =>
    /\ ASInstalls(name, applications[name])
    /\ \A n \in DOMAIN asOperations :
         ASUnborn(asOperations[n]) => asOperations[n].object # applications[name]
ASOneObjectPerName ==
  \A o \in DOMAIN objects : ~objects[o].deleted /\ objects[o].name \notin doubled =>
    \/ applications[objects[o].name] = o
    \/ \E n \in DOMAIN asOperations : ASUnborn(asOperations[n]) /\ asOperations[n].object = o

(* Who works on an object holds it, and its parent is another one. *)
ASHolding == {"download", "stop", "save", "finish"}
ASHolderIsBusy ==
  \A n \in DOMAIN asOperations :
    asOperations[n].step \in ASHolding => objects[asOperations[n].object].busy = n
ASParentIsOther ==
  \A o \in DOMAIN objects : objects[o].parent # 0 =>
    objects[o].parent \in DOMAIN objects /\ objects[o].parent # o
ASFamilyTakesTurns ==
  \A o \in DOMAIN objects : objects[o].busy # 0 /\ objects[o].parent # 0 =>
    \/ o \in joined \/ objects[o].parent \in joined
    \/ objects[objects[o].parent].busy = 0

(* What an operation will write: its number for its keys, and for the others what the
   object has, unless it waited. *)
ASStepsOfKind(op) ==
  /\ op.kind = "add" => op.step \notin {"wait", "download", "stop"} /\ op.keys = Setting
  /\ op.kind # "add" => ~ASUnborn(op) /\ op.step \notin {"fetch", "unpack", "insert"}
  /\ op.kind = "remove" => op.keys = {}
  /\ op.step = "wait" => op.waited
ASReady(op) ==
  \/ op.kind # "remove" /\ op.step = "stop"
  \/ op.kind = "change" /\ op.step = "wait"
ASNewIsReady ==
  \A n \in DOMAIN asOperations : LET op == asOperations[n] IN
    /\ ASStepsOfKind(op)
    /\ ASReady(op) => op.new \in AS!Settings /\ \A k \in op.keys : op.new[k] = n
    /\ op.kind # "remove" /\ op.step = "stop" /\ (op.kind = "change" => ~op.waited) =>
         \A k \in Setting \ op.keys : op.new[k] = objects[op.object].settings[k]

ASObjectInv ==
  /\ ASOperationsAreOn /\ ASUnbornIsNew /\ ASInstalledIsThere /\ ASOneObjectPerName
  /\ ASHolderIsBusy /\ ASParentIsOther /\ ASFamilyTakesTurns /\ ASNewIsReady

(* The database has what runs, the last save has the database, every save has what its
   operation wrote, and all of them what is allowed. *)
ASLastSaveIsData == asSaves # <<>> => asSaves[Len(asSaves)].data = data
ASWrote(op, n, d) ==
  /\ op.step \in {"save", "finish"}
  /\ op.kind = "remove" => d[op.name] = asNone
  /\ op.kind # "remove" => d[op.name] # asNone /\ \A k \in op.keys : d[op.name][k] = n
ASSavesAreOf ==
  \A i \in DOMAIN asSaves :
    /\ asSaves[i].operation <= asSpent
    /\ asSaves[i].operation \in DOMAIN asOperations =>
         ASWrote(asOperations[asSaves[i].operation], asSaves[i].operation, asSaves[i].data)
ASAllows(d) ==
  \A name \in Name \ doubled : \A k \in Setting :
    <<name, k>> \notin stale => AS!SavedValue(d[name], k) \in allowed[name][k]
ASAllAreAllowed == ASAllows(asDisk) /\ ASAllows(data) /\ \A i \in DOMAIN asSaves : ASAllows(asSaves[i].data)

ASSaveInv == AS!SavedIsWhatRuns /\ ASLastSaveIsData /\ ASSavesAreOf /\ ASAllAreAllowed
ASInv == ASTypes /\ ASObjectInv /\ ASSaveInv

-----------------------------------------------------------------------------
(* What is done to the objects. *)
LEMMA ASFunctionIsSeq ==
  ASSUME NEW S, NEW len \in Nat, NEW f \in [1 .. len -> S]
  PROVE  f \in Seq(S) /\ Len(f) = len /\ DOMAIN f = 1 .. len
OBVIOUS

LEMMA ASDomainOf ==
  ASSUME NEW S, NEW s \in Seq(S)
  PROVE  /\ DOMAIN s = 1 .. Len(s) /\ Len(s) \in Nat /\ s \in [DOMAIN s -> S]
         /\ \A o \in DOMAIN s : o \in Nat /\ o # 0 /\ s[o] \in S
<1>1. DOMAIN s = 1 .. Len(s) /\ Len(s) \in Nat
  OBVIOUS
<1>2. \A o \in DOMAIN s : s[o] \in S
  OBVIOUS
<1>3. s \in [1 .. Len(s) -> S]
  OBVIOUS
<1> QED
  BY SMTT(30), <1>1, <1>2, <1>3

LEMMA ASMapped ==
  ASSUME NEW S, NEW s \in Seq(S), NEW g \in [DOMAIN s -> S]
  PROVE  g \in Seq(S) /\ Len(g) = Len(s) /\ DOMAIN g = DOMAIN s
<1>1. DOMAIN s = 1 .. Len(s) /\ Len(s) \in Nat
  BY ASDomainOf
<1>2. ASSUME NEW len \in Nat, DOMAIN s = 1 .. len
      PROVE  g \in Seq(S) /\ Len(g) = len
  <2>1. g \in [1 .. len -> S]
    BY <1>2
  <2> QED
    BY <2>1
<1> QED
  BY <1>1, <1>2

LEMMA ASAppended ==
  ASSUME NEW S, NEW s \in Seq(S), NEW x \in S
  PROVE  LET t == Append(s, x) IN
         /\ t \in Seq(S) /\ DOMAIN t = DOMAIN s \union {Len(s) + 1} /\ Len(t) = Len(s) + 1
         /\ t # <<>> /\ t[Len(s) + 1] = x /\ \A i \in DOMAIN s : t[i] = s[i]
<1>1. DOMAIN s = 1 .. Len(s) /\ Len(s) \in Nat
  BY ASDomainOf
<1>2. Append(s, x) \in Seq(S) /\ Len(Append(s, x)) = Len(s) + 1
  OBVIOUS
<1>3. DOMAIN Append(s, x) = 1 .. Len(s) + 1
  BY <1>1, <1>2, ASDomainOf
<1>4. Append(s, x) # <<>>
  <2>1. Len(Append(s, x)) # 0 /\ Len(<<>>) = 0
    BY <1>1, <1>2
  <2> QED
    BY <2>1
<1>5. Append(s, x)[Len(s) + 1] = x /\ \A i \in 1 .. Len(s) : Append(s, x)[i] = s[i]
  OBVIOUS
<1> QED
  BY <1>1, <1>2, <1>3, <1>5, <1>4

LEMMA ASShortened ==
  ASSUME NEW S, NEW s \in Seq(S), s # <<>>
  PROVE  LET t == Tail(s) IN
         /\ t \in Seq(S) /\ Head(s) = s[1] /\ s[1] \in S /\ 1 \in DOMAIN s
         /\ \A i \in DOMAIN t : i + 1 \in DOMAIN s /\ t[i] = s[i + 1]
         /\ (t # <<>> => Len(t) \in DOMAIN t /\ Len(t) + 1 = Len(s))
         /\ (t = <<>> => Len(s) = 1)
<1>1. Tail(s) \in Seq(S) /\ Len(Tail(s)) = Len(s) - 1 /\ Len(s) \in Nat /\ Len(s) # 0
  OBVIOUS
<1>2. \A i \in 1 .. Len(s) - 1 : Tail(s)[i] = s[i + 1]
  OBVIOUS
<1>3. DOMAIN Tail(s) = 1 .. Len(s) - 1 /\ DOMAIN s = 1 .. Len(s)
  BY <1>1, ASDomainOf
<1>4. Head(s) = s[1] /\ s[1] \in S
  OBVIOUS
<1>5. Tail(s) # <<>> => Len(Tail(s)) # 0
  BY <1>1
<1>6. Tail(s) = <<>> => Len(s) = 1
  <2>1. Len(<<>>) = 0
    OBVIOUS
  <2>2. Tail(s) = <<>> => Len(Tail(s)) = 0
    BY <2>1
  <2> QED
    BY <1>1, <2>2
<1> QED
  BY <1>1, <1>2, <1>3, <1>4, <1>5, <1>6

LEMMA ASDeletedFacts ==
  ASSUME NEW objs \in Seq(ASObject), NEW o
  PROVE  /\ AS!DeletedIn(objs, o) \in Seq(ASObject) /\ DOMAIN AS!DeletedIn(objs, o) = DOMAIN objs
         /\ \A p \in DOMAIN objs :
              LET after == AS!DeletedIn(objs, o)[p] IN
              /\ after.name = objs[p].name /\ after.settings = objs[p].settings
              /\ after.busy = objs[p].busy /\ (after.deleted <=> objs[p].deleted \/ p = o)
              /\ after.parent \in {0, objs[p].parent}
<1> DEFINE g == AS!DeletedIn(objs, o)
<1>1. \A p \in DOMAIN objs : objs[p] \in ASObject
  BY ASDomainOf
<1>2. DOMAIN g = DOMAIN objs
  BY DEF AS!DeletedIn
<1>3. ASSUME NEW p \in DOMAIN objs
      PROVE  /\ g[p] \in ASObject /\ g[p].name = objs[p].name /\ g[p].settings = objs[p].settings
             /\ g[p].busy = objs[p].busy /\ (g[p].deleted <=> objs[p].deleted \/ p = o)
             /\ g[p].parent \in {0, objs[p].parent}
  <2>1. g[p] = IF p = o THEN [objs[p] EXCEPT !.deleted = TRUE, !.parent = 0]
               ELSE IF objs[p].parent = o THEN [objs[p] EXCEPT !.parent = 0] ELSE objs[p]
    BY DEF AS!DeletedIn
  <2>2. objs[p] \in ASObject
    BY <1>1
  <2> HIDE DEF g
  <2>3. CASE p = o
    <3> DEFINE new == [objs[p] EXCEPT !.deleted = TRUE, !.parent = 0]
    <3>1. /\ new \in ASObject /\ new.name = objs[p].name /\ new.settings = objs[p].settings
          /\ new.busy = objs[p].busy /\ new.deleted = TRUE /\ new.parent = 0
      BY <2>2 DEF ASObject
    <3>2. g[p] = new
      BY <2>1, <2>3
    <3> HIDE DEF new
    <3> QED
      BY <2>3, <3>1, <3>2
  <2>4. CASE p # o
    BY <2>1, <2>2, <2>4 DEF ASObject
  <2> QED
    BY <2>3, <2>4
<1>4. g \in [DOMAIN objs -> ASObject]
  <2>1. g = [p \in DOMAIN objs |-> g[p]]
    BY DEF AS!DeletedIn
  <2> QED
    BY <1>3, <2>1
<1>5. g \in Seq(ASObject)
  BY <1>4, ASMapped
<1> QED
  BY <1>2, <1>3, <1>5

LEMMA ASReleasedFacts ==
  ASSUME NEW objs \in Seq(ASObject), NEW n
  PROVE  /\ AS!ReleasedIn(objs, n) \in Seq(ASObject) /\ DOMAIN AS!ReleasedIn(objs, n) = DOMAIN objs
         /\ \A p \in DOMAIN objs :
              LET after == AS!ReleasedIn(objs, n)[p] IN
              /\ after.name = objs[p].name /\ after.settings = objs[p].settings
              /\ after.busy = IF objs[p].busy = n THEN 0 ELSE objs[p].busy
              /\ after.deleted = objs[p].deleted /\ after.parent = objs[p].parent
<1> DEFINE g == AS!ReleasedIn(objs, n)
<1>1. \A p \in DOMAIN objs : objs[p] \in ASObject
  BY ASDomainOf
<1>2. DOMAIN g = DOMAIN objs
  BY DEF AS!ReleasedIn
<1>3. ASSUME NEW p \in DOMAIN objs
      PROVE  /\ g[p] \in ASObject /\ g[p].name = objs[p].name /\ g[p].settings = objs[p].settings
             /\ g[p].busy = IF objs[p].busy = n THEN 0 ELSE objs[p].busy
             /\ g[p].deleted = objs[p].deleted /\ g[p].parent = objs[p].parent
  <2>1. g[p] = IF objs[p].busy = n THEN [objs[p] EXCEPT !.busy = 0] ELSE objs[p]
    BY DEF AS!ReleasedIn
  <2>2. objs[p] \in ASObject
    BY <1>1
  <2> HIDE DEF g
  <2> QED
    BY <2>1, <2>2 DEF ASObject
<1>4. g \in [DOMAIN objs -> ASObject]
  <2>1. g = [p \in DOMAIN objs |-> g[p]]
    BY DEF AS!ReleasedIn
  <2> QED
    BY <1>3, <2>1
<1>5. g \in Seq(ASObject)
  BY <1>4, ASMapped
<1> QED
  BY <1>2, <1>3, <1>5

LEMMA ASBusyFacts ==
  ASSUME NEW objs \in Seq(ASObject), NEW o \in DOMAIN objs, NEW n \in Nat
  PROVE  LET g == [objs EXCEPT ![o].busy = n] IN
         /\ g \in Seq(ASObject) /\ DOMAIN g = DOMAIN objs
         /\ g[o].name = objs[o].name /\ g[o].settings = objs[o].settings /\ g[o].busy = n
         /\ g[o].deleted = objs[o].deleted /\ g[o].parent = objs[o].parent
         /\ \A p \in DOMAIN objs : p # o => g[p] = objs[p]
<1> DEFINE new == [objs[o] EXCEPT !.busy = n]
           g == [objs EXCEPT ![o] = new]
<1>1. objs[o] \in ASObject
  BY ASDomainOf
<1>2. /\ new \in ASObject /\ new.name = objs[o].name /\ new.settings = objs[o].settings
      /\ new.busy = n /\ new.deleted = objs[o].deleted /\ new.parent = objs[o].parent
  BY <1>1 DEF ASObject
<1>3. [objs EXCEPT ![o].busy = n] = g
  OBVIOUS
<1> HIDE DEF new
<1>4. objs \in [DOMAIN objs -> ASObject]
  BY ASDomainOf
<1>5. /\ g \in [DOMAIN objs -> ASObject] /\ g[o] = new
      /\ \A p \in DOMAIN objs : p # o => g[p] = objs[p]
  BY <1>2, <1>4
<1>6. g \in Seq(ASObject)
  BY <1>5, ASMapped
<1> QED
  BY <1>2, <1>3, <1>5, <1>6

LEMMA ASSettingsFacts ==
  ASSUME NEW objs \in Seq(ASObject), NEW o \in DOMAIN objs, NEW v \in AS!Settings
  PROVE  LET g == [objs EXCEPT ![o].settings = v] IN
         /\ g \in Seq(ASObject) /\ DOMAIN g = DOMAIN objs
         /\ g[o].name = objs[o].name /\ g[o].settings = v /\ g[o].busy = objs[o].busy
         /\ g[o].deleted = objs[o].deleted /\ g[o].parent = objs[o].parent
         /\ \A p \in DOMAIN objs : p # o => g[p] = objs[p]
<1> DEFINE new == [objs[o] EXCEPT !.settings = v]
           g == [objs EXCEPT ![o] = new]
<1>1. objs[o] \in ASObject
  BY ASDomainOf
<1>2. /\ new \in ASObject /\ new.name = objs[o].name /\ new.settings = v
      /\ new.busy = objs[o].busy /\ new.deleted = objs[o].deleted
      /\ new.parent = objs[o].parent
  BY <1>1 DEF ASObject
<1>3. [objs EXCEPT ![o].settings = v] = g
  OBVIOUS
<1> HIDE DEF new
<1>4. objs \in [DOMAIN objs -> ASObject]
  BY ASDomainOf
<1>5. /\ g \in [DOMAIN objs -> ASObject] /\ g[o] = new
      /\ \A p \in DOMAIN objs : p # o => g[p] = objs[p]
  BY <1>2, <1>4
<1>6. g \in Seq(ASObject)
  BY <1>5, ASMapped
<1> QED
  BY <1>2, <1>3, <1>5, <1>6

(* What is done to the operations. *)
ASSame(p, q) ==
  /\ q.kind = p.kind /\ q.name = p.name /\ q.object = p.object /\ q.keys = p.keys
  /\ q.waited = p.waited

LEMMA ASAtStepFacts ==
  ASSUME ASTypes, NEW n \in DOMAIN asOperations,
         NEW step \in {"fetch", "unpack", "insert", "wait", "download", "stop", "save", "finish"},
         asOperations' = AS!AtStep(n, step), asSpent' \in Nat, asSpent <= asSpent'
  PROVE  /\ asOperations' \in [DOMAIN asOperations' -> ASOperation]
         /\ DOMAIN asOperations' = DOMAIN asOperations /\ DOMAIN asOperations' \subseteq 1 .. asSpent'
         /\ ASSame(asOperations[n], asOperations'[n]) /\ asOperations'[n].step = step
         /\ asOperations'[n].new = asOperations[n].new
         /\ \A m \in DOMAIN asOperations : m # n => asOperations'[m] = asOperations[m]
<1> DEFINE new == [asOperations[n] EXCEPT !.step = step]
<1>1. asOperations[n] \in ASOperation /\ asOperations \in [DOMAIN asOperations -> ASOperation]
  BY DEF ASTypes
<1>2. /\ new \in ASOperation /\ ASSame(asOperations[n], new) /\ new.step = step
      /\ new.new = asOperations[n].new
  BY <1>1 DEF ASOperation, ASSame
<1>3. asOperations' = [asOperations EXCEPT ![n] = new]
  BY DEF AS!AtStep
<1> HIDE DEF new
<1>4. /\ asOperations' \in [DOMAIN asOperations -> ASOperation] /\ asOperations'[n] = new
      /\ \A m \in DOMAIN asOperations : m # n => asOperations'[m] = asOperations[m]
  BY <1>1, <1>2, <1>3
<1>5. DOMAIN asOperations \subseteq 1 .. asSpent /\ asSpent \in Nat
  BY DEF ASTypes
<1> QED
  BY <1>2, <1>4, <1>5

LEMMA ASEndedFacts ==
  ASSUME ASTypes, NEW n, asOperations' = AS!EndedIn(asOperations, n), asSpent' \in Nat, asSpent <= asSpent'
  PROVE  /\ asOperations' \in [DOMAIN asOperations' -> ASOperation]
         /\ DOMAIN asOperations' = DOMAIN asOperations \ {n}
         /\ DOMAIN asOperations' \subseteq 1 .. asSpent'
         /\ \A m \in DOMAIN asOperations' : asOperations'[m] = asOperations[m]
BY DEF ASTypes, AS!EndedIn

ASHasStarted(kind, name, o, keys, new, step) ==
  /\ asOperations' \in [DOMAIN asOperations' -> ASOperation]
  /\ DOMAIN asOperations' = DOMAIN asOperations \union {AS!This}
  /\ AS!This \notin DOMAIN asOperations /\ AS!This \in 1 .. asMaxEvents
  /\ DOMAIN asOperations' \subseteq 1 .. asSpent' /\ asSpent' <= asMaxEvents
  /\ asSpent' \in Nat /\ asSpent <= asSpent'
  /\ \A m \in DOMAIN asOperations : asOperations'[m] = asOperations[m]
  /\ asOperations'[AS!This].kind = kind /\ asOperations'[AS!This].name = name
  /\ asOperations'[AS!This].object = o /\ asOperations'[AS!This].keys = keys
  /\ asOperations'[AS!This].new = new /\ (asOperations'[AS!This].waited <=> step = "wait")
  /\ asOperations'[AS!This].step = step

LEMMA ASStartedFacts ==
  ASSUME ASTypes, AS!EventMayHappen, asSpent' = AS!This, asMaxEvents \in Nat,
         NEW kind \in {"add", "change", "remove", "update"}, NEW name \in Name,
         NEW o \in Nat, NEW keys \in SUBSET Setting, NEW new \in AS!Settings \union {<<>>},
         NEW step \in {"fetch", "wait", "download", "stop"},
         asOperations' = AS!Started(kind, name, o, keys, new, step)
  PROVE  ASHasStarted(kind, name, o, keys, new, step)
<1> DEFINE r == [kind |-> kind, name |-> name, object |-> o, keys |-> keys,
                 new |-> new, waited |-> step = "wait", step |-> step]
<1>1. /\ asSpent \in Nat /\ asSpent < asMaxEvents /\ DOMAIN asOperations \subseteq 1 .. asSpent
      /\ asOperations \in [DOMAIN asOperations -> ASOperation] /\ asSpent' = asSpent + 1
  BY DEF ASTypes, AS!EventMayHappen, AS!This
<1>2. AS!This \notin DOMAIN asOperations /\ AS!This \in 1 .. asMaxEvents /\ AS!This = asSpent + 1
  BY <1>1 DEF AS!This
<1>3. r \in ASOperation
  BY DEF ASOperation
<1>4. /\ r.kind = kind /\ r.name = name /\ r.object = o /\ r.keys = keys /\ r.new = new
      /\ (r.waited <=> step = "wait") /\ r.step = step
  OBVIOUS
<1>5. asOperations' = [m \in DOMAIN asOperations \union {AS!This} |->
                       IF m = AS!This THEN r ELSE asOperations[m]]
  BY DEF AS!Started
<1> HIDE DEF r
<1>6. /\ asOperations' \in [DOMAIN asOperations \union {AS!This} -> ASOperation]
      /\ asOperations'[AS!This] = r
      /\ \A m \in DOMAIN asOperations : asOperations'[m] = asOperations[m]
  BY <1>1, <1>2, <1>3, <1>5
<1>7. /\ DOMAIN asOperations' = DOMAIN asOperations \union {AS!This}
      /\ DOMAIN asOperations' \subseteq 1 .. asSpent'
  BY <1>1, <1>2, <1>6
<1> QED
  BY <1>1, <1>2, <1>4, <1>6, <1>7 DEF ASHasStarted

-----------------------------------------------------------------------------
(* The parts of the invariant after steps that make and remove no objects: an operation is
   the one it was, or begins with the application of its name. *)
ASGoes(n) ==
  \/ /\ n \in DOMAIN asOperations /\ ASSame(asOperations[n], asOperations'[n])
     /\ ASUnborn(asOperations[n])' => ASUnborn(asOperations[n])
  \/ /\ n \notin DOMAIN asOperations /\ asOperations'[n].name \in Name
     /\ applications[asOperations'[n].name] # 0
     /\ asOperations'[n].object = applications[asOperations'[n].name]
     /\ ~ASUnborn(asOperations[n])'

LEMMA ASNamesStay ==
  ASSUME ASObjectInv, UNCHANGED <<applications, doubled>>, DOMAIN objects' = DOMAIN objects,
         \A p \in DOMAIN objects :
           /\ objects'[p].name = objects[p].name
           /\ (objects'[p].deleted <=> objects[p].deleted),
         \A n \in DOMAIN asOperations' : ASGoes(n),
         \A n \in DOMAIN asOperations : ASUnborn(asOperations[n]) =>
           /\ n \in DOMAIN asOperations' /\ ASUnborn(asOperations[n])'
           /\ objects'[asOperations[n].object].busy = 0
           /\ objects'[asOperations[n].object].settings = objects[asOperations[n].object].settings
  PROVE  ASOperationsAreOn' /\ ASUnbornIsNew' /\ ASInstalledIsThere' /\ ASOneObjectPerName'
<1>1. ASSUME NEW n \in DOMAIN asOperations'
      PROVE  \/ /\ n \in DOMAIN asOperations /\ asOperations'[n].object = asOperations[n].object
                /\ asOperations'[n].name = asOperations[n].name
                /\ (ASUnborn(asOperations[n])' => ASUnborn(asOperations[n]))
             \/ /\ n \notin DOMAIN asOperations /\ ~ASUnborn(asOperations[n])'
                /\ asOperations'[n].name \in Name
                /\ asOperations'[n].object = applications[asOperations'[n].name]
                /\ ASInstalls(asOperations'[n].name, asOperations'[n].object)
  BY DEF ASGoes, ASSame, ASObjectInv, ASInstalledIsThere
<1>2. ASOperationsAreOn'
  BY <1>1 DEF ASObjectInv, ASOperationsAreOn, ASInstalls
<1>3. ASUnbornIsNew'
  <2> SUFFICES ASSUME NEW n \in DOMAIN asOperations', ASUnborn(asOperations[n])'
               PROVE  /\ ~objects'[asOperations'[n].object].deleted
                      /\ objects'[asOperations'[n].object].busy = 0
                      /\ objects'[asOperations'[n].object].settings = [k \in Setting |-> n]
                      /\ \A m \in DOMAIN asOperations' : m # n =>
                           asOperations'[m].object # asOperations'[n].object
    BY DEF ASUnbornIsNew
  <2>1. /\ n \in DOMAIN asOperations /\ asOperations'[n].object = asOperations[n].object
        /\ ASUnborn(asOperations[n])
    BY <1>1
  <2>2. asOperations[n].object \in DOMAIN objects
    BY <2>1 DEF ASObjectInv, ASOperationsAreOn
  <2>3. ASSUME NEW m \in DOMAIN asOperations', m # n
        PROVE  asOperations'[m].object # asOperations'[n].object
    <3>1. CASE m \in DOMAIN asOperations
      BY <1>1, <2>1, <2>3, <3>1 DEF ASObjectInv, ASUnbornIsNew
    <3>2. CASE m \notin DOMAIN asOperations
      <4>1. /\ asOperations'[m].name \in Name
            /\ asOperations'[m].object = applications[asOperations'[m].name]
            /\ ASInstalls(asOperations'[m].name, asOperations'[m].object)
        BY <1>1, <3>2
      <4>2. applications[asOperations'[m].name] # 0
        BY <3>2 DEF ASGoes
      <4> QED
        BY <2>1, <4>1, <4>2 DEF ASObjectInv, ASInstalledIsThere
    <3> QED
      BY <3>1, <3>2
  <2> QED
    BY <2>1, <2>2, <2>3 DEF ASObjectInv, ASUnbornIsNew
<1>4. ASInstalledIsThere'
  BY <1>1 DEF ASObjectInv, ASInstalledIsThere, ASInstalls
<1>5. ASOneObjectPerName'
  <2> SUFFICES ASSUME NEW o \in DOMAIN objects', ~objects'[o].deleted,
                      objects'[o].name \notin doubled'
               PROVE  \/ applications'[objects'[o].name] = o
                      \/ \E n \in DOMAIN asOperations' :
                           ASUnborn(asOperations[n])' /\ asOperations'[n].object = o
    BY DEF ASOneObjectPerName
  <2>1. \/ applications[objects[o].name] = o
        \/ \E n \in DOMAIN asOperations : ASUnborn(asOperations[n]) /\ asOperations[n].object = o
    BY DEF ASObjectInv, ASOneObjectPerName
  <2>2. CASE applications[objects[o].name] = o
    BY <2>2
  <2>3. CASE \E n \in DOMAIN asOperations : ASUnborn(asOperations[n]) /\ asOperations[n].object = o
    <3>1. PICK n \in DOMAIN asOperations : ASUnborn(asOperations[n]) /\ asOperations[n].object = o
      BY <2>3
    <3>2. n \in DOMAIN asOperations' /\ ASUnborn(asOperations[n])'
      BY <3>1
    <3> QED
      BY <1>1, <3>1, <3>2
  <2> QED
    BY <2>1, <2>2, <2>3
<1> QED
  BY <1>2, <1>3, <1>4, <1>5

(* Objects are let go of, or leave their parents. *)
LEMMA ASFamilyStays ==
  ASSUME ASObjectInv, joined' = joined, DOMAIN objects' = DOMAIN objects,
         \A p \in DOMAIN objects :
           /\ objects'[p].parent \in {0, objects[p].parent}
           /\ objects'[p].busy \in {0, objects[p].busy}
  PROVE  ASParentIsOther' /\ ASFamilyTakesTurns'
<1>1. ASParentIsOther'
  BY DEF ASObjectInv, ASParentIsOther
<1>2. ASFamilyTakesTurns'
  BY DEF ASObjectInv, ASParentIsOther, ASFamilyTakesTurns
<1> QED
  BY <1>1, <1>2

(* An operation that is as it was, or at a step that says nothing of its new settings. *)
LEMMA ASReadyStays ==
  ASSUME ASTypes, ASObjectInv,
         \A o \in DOMAIN objects :
           o \in DOMAIN objects' /\ objects'[o].settings = objects[o].settings,
         \A n \in DOMAIN asOperations' :
           /\ n \in DOMAIN asOperations
           /\ \/ asOperations'[n] = asOperations[n]
              \/ /\ ASSame(asOperations[n], asOperations'[n]) /\ ASStepsOfKind(asOperations[n])'
                 /\ ~ASReady(asOperations[n])'
  PROVE  ASNewIsReady'
<1> SUFFICES ASSUME NEW n \in DOMAIN asOperations'
             PROVE  LET op == asOperations'[n] IN
                    /\ ASStepsOfKind(op)
                    /\ ASReady(op) => op.new \in AS!Settings /\ \A k \in op.keys : op.new[k] = n
                    /\ op.kind # "remove" /\ op.step = "stop"
                         /\ (op.kind = "change" => ~op.waited) =>
                         \A k \in Setting \ op.keys : op.new[k] = objects'[op.object].settings[k]
  BY DEF ASNewIsReady, AS!Settings, ASReady, ASStepsOfKind, ASUnborn
<1>1. n \in DOMAIN asOperations /\ asOperations[n].object \in DOMAIN objects
  BY DEF ASObjectInv, ASOperationsAreOn
<1>2. CASE asOperations'[n] = asOperations[n]
  BY <1>1, <1>2 DEF ASObjectInv, ASNewIsReady
<1>3. CASE ASStepsOfKind(asOperations[n])' /\ ~ASReady(asOperations[n])'
  BY <1>3 DEF ASReady, ASStepsOfKind, ASUnborn
<1> QED
  BY <1>2, <1>3

(* What is saved stays so while nothing is saved, set, or installed. *)
LEMMA ASSavedStays ==
  ASSUME ASTypes, ASObjectInv, ASSaveInv,
         UNCHANGED <<applications, data, asDisk, asSaves, allowed, doubled, stale>>,
         asSpent' \in Nat, asSpent <= asSpent',
         \A o \in DOMAIN objects :
           o \in DOMAIN objects' /\ objects'[o].settings = objects[o].settings,
         \A n \in DOMAIN asOperations' :
           \/ n = asSpent + 1
           \/ /\ n \in DOMAIN asOperations /\ ASSame(asOperations[n], asOperations'[n])
              /\ (asOperations[n].step \in {"save", "finish"} =>
                    asOperations'[n].step \in {"save", "finish"})
  PROVE  ASSaveInv'
<1>1. AS!SavedIsWhatRuns'
  BY DEF ASSaveInv, AS!SavedIsWhatRuns, ASObjectInv, ASInstalledIsThere, ASInstalls
<1>2. ASSavesAreOf'
  <2> SUFFICES ASSUME NEW i \in DOMAIN asSaves
               PROVE  /\ asSaves[i].operation <= asSpent'
                      /\ asSaves[i].operation \in DOMAIN asOperations' =>
                           ASWrote(asOperations'[asSaves[i].operation], asSaves[i].operation, asSaves[i].data)
    BY DEF ASSavesAreOf, ASWrote
  <2>1. asSaves[i].operation \in Nat /\ asSaves[i].operation <= asSpent /\ asSpent \in Nat
    <3>1. asSaves[i] \in ASSave
      BY ASDomainOf DEF ASTypes
    <3> QED
      BY <3>1 DEF ASTypes, ASSave, ASSaveInv, ASSavesAreOf
  <2>2. ASSUME asSaves[i].operation \in DOMAIN asOperations'
        PROVE  ASWrote(asOperations'[asSaves[i].operation], asSaves[i].operation, asSaves[i].data)
    <3> DEFINE n == asSaves[i].operation
    <3>1. /\ n \in DOMAIN asOperations /\ ASSame(asOperations[n], asOperations'[n])
          /\ (asOperations[n].step \in {"save", "finish"} =>
                asOperations'[n].step \in {"save", "finish"})
      BY <2>1, <2>2
    <3>2. ASWrote(asOperations[n], n, asSaves[i].data)
      BY <3>1 DEF ASSaveInv, ASSavesAreOf
    <3> HIDE DEF n
    <3>3. ASWrote(asOperations'[n], n, asSaves[i].data)
      BY <3>1, <3>2 DEF ASWrote, ASSame
    <3> QED
      BY <3>3 DEF n
  <2> QED
    BY <2>1, <2>2
<1>3. ASLastSaveIsData' /\ ASAllAreAllowed'
  BY DEF ASSaveInv, ASLastSaveIsData, ASAllAreAllowed, ASAllows, AS!SavedValue
<1> QED
  BY <1>1, <1>2, <1>3 DEF ASSaveInv

(* The types of what such steps leave alone. *)
LEMMA ASTypesStay ==
  ASSUME ASTypes, UNCHANGED <<applications, data, asDisk, asSaves, allowed>>,
         objects' \in Seq(ASObject), asOperations' \in [DOMAIN asOperations' -> ASOperation],
         DOMAIN asOperations' \subseteq 1 .. asSpent', asSpent' \in Nat, asSpent' <= asMaxEvents
  PROVE  ASTypes'
BY DEF ASTypes

-----------------------------------------------------------------------------
(* Operations on the applications that are there. *)
LEMMA ASBegun ==
  ASSUME ASTypes, ASObjectInv, NEW o \in DOMAIN objects, NEW n \in Nat, AS!MayProceed(o),
         objects' = [objects EXCEPT ![o].busy = n], joined' = joined
  PROVE  ASParentIsOther' /\ ASFamilyTakesTurns'
<1>1. /\ DOMAIN objects' = DOMAIN objects /\ objects'[o].parent = objects[o].parent
      /\ objects'[o].busy = n /\ \A p \in DOMAIN objects : p # o => objects'[p] = objects[p]
  BY ASBusyFacts DEF ASTypes
<1>2. ASParentIsOther'
  BY <1>1 DEF ASObjectInv, ASParentIsOther
<1>3. \A f \in {o, objects[o].parent} \union AS!Children(o) : f # 0 => objects[f].busy = 0
  BY DEF AS!MayProceed, AS!InProgress
<1>4. ASFamilyTakesTurns'
  <2> SUFFICES ASSUME NEW p \in DOMAIN objects, objects'[p].busy # 0, objects'[p].parent # 0
               PROVE  \/ p \in joined \/ objects'[p].parent \in joined
                      \/ objects'[objects'[p].parent].busy = 0
    BY <1>1 DEF ASFamilyTakesTurns
  <2>1. /\ objects'[p].parent = objects[p].parent /\ objects[p].parent \in DOMAIN objects
        /\ objects[p].parent # p
    BY <1>1 DEF ASObjectInv, ASParentIsOther
  <2>2. CASE p = o
    BY <1>1, <1>3, <2>1, <2>2
  <2>3. CASE p # o /\ objects[p].parent = o
    <3>1. p \in AS!Children(o) /\ p # 0
      BY <2>3, ASDomainOf DEF AS!Children, ASTypes
    <3> QED
      BY <1>1, <1>3, <2>3, <3>1
  <2>4. CASE p # o /\ objects[p].parent # o
    BY <1>1, <2>1, <2>4 DEF ASObjectInv, ASFamilyTakesTurns
  <2> QED
    BY <2>2, <2>3, <2>4
<1> QED
  BY <1>2, <1>4

LEMMA ASBeginsStep ==
  ASSUME ASConstants, ASInv, NEW kind \in {"change", "remove", "update"}, NEW name \in Name,
         NEW keys \in SUBSET Setting, NEW new \in AS!Settings \union {<<>>},
         NEW step \in {"stop", "download"}, AS!Begins(kind, name, keys, new, step),
         kind = "remove" => keys = {},
         kind = "update" => step = "download",
         kind = "change" =>
           /\ new \in AS!Settings /\ \A k \in keys : new[k] = AS!This
           /\ \A k \in Setting \ keys : new[k] = objects[applications[name]].settings[k]
  PROVE  ASInv'
<1> DEFINE o == applications[name]
           first == IF AS!MayProceed(o) THEN step ELSE "wait"
<1>1. /\ AS!EventMayHappen /\ asSpent' = AS!This /\ o # 0
      /\ asOperations' = AS!Started(kind, name, o, keys, new, first)
      /\ objects' = IF AS!MayProceed(o) THEN [objects EXCEPT ![o].busy = AS!This] ELSE objects
      /\ UNCHANGED <<applications, data, asDisk, asSaves, allowed, doubled, stale, joined>>
  BY DEF AS!Begins, AS!Ghosts
<1>2. first \in {"fetch", "wait", "download", "stop"} /\ o \in Nat /\ asMaxEvents \in Nat
  BY DEF ASInv, ASTypes, ASConstants
<1>3. ASInstalls(name, o)
  BY <1>1 DEF ASInv, ASObjectInv, ASInstalledIsThere
<1>4. /\ asOperations' \in [DOMAIN asOperations' -> ASOperation]
      /\ DOMAIN asOperations' = DOMAIN asOperations \union {AS!This}
      /\ AS!This \notin DOMAIN asOperations /\ AS!This \in 1 .. asMaxEvents
      /\ DOMAIN asOperations' \subseteq 1 .. asSpent' /\ asSpent' <= asMaxEvents
      /\ asSpent' \in Nat /\ asSpent <= asSpent'
      /\ \A m \in DOMAIN asOperations : asOperations'[m] = asOperations[m]
      /\ asOperations'[AS!This].kind = kind /\ asOperations'[AS!This].name = name
      /\ asOperations'[AS!This].object = o /\ asOperations'[AS!This].keys = keys
      /\ asOperations'[AS!This].new = new /\ (asOperations'[AS!This].waited <=> first = "wait")
      /\ asOperations'[AS!This].step = first
  <2> HIDE DEF o, first
  <2>a. kind \in {"add", "change", "remove", "update"}
    OBVIOUS
  <2>b. asSpent' = AS!This /\ AS!EventMayHappen /\ asOperations' = AS!Started(kind, name, o, keys, new, first)
    BY <1>1
  <2>c. ASTypes
    BY DEF ASInv
  <2>1. ASHasStarted(kind, name, o, keys, new, first)
    BY <1>2, <2>a, <2>b, <2>c, ASStartedFacts, ZenonT(90)
  <2> QED
    BY <2>1 DEF ASHasStarted
<1>5. first = "wait" \/ (first = step /\ step \in {"stop", "download"})
  OBVIOUS
<1>6. first # "wait" => AS!MayProceed(o)
  OBVIOUS
<1> HIDE DEF first
<1>7. /\ objects' \in Seq(ASObject) /\ DOMAIN objects' = DOMAIN objects
      /\ first # "wait" => objects'[o].busy = AS!This
      /\ \A p \in DOMAIN objects :
           /\ objects'[p].name = objects[p].name /\ objects'[p].settings = objects[p].settings
           /\ objects'[p].deleted = objects[p].deleted
           /\ (p # o \/ first = "wait" => objects'[p].busy = objects[p].busy)
  <2>1. CASE AS!MayProceed(o)
    <3>1. AS!This \in Nat /\ o \in DOMAIN objects
      BY <1>3, <1>4 DEF ASInstalls
    <3> HIDE DEF o
    <3>2. first # "wait"
      BY <2>1 DEF first, o
    <3> QED
      BY <1>1, <2>1, <3>1, <3>2, ASBusyFacts DEF ASInv, ASTypes
  <2>2. CASE ~AS!MayProceed(o)
    BY <1>1, <1>6, <2>2 DEF ASInv, ASTypes
  <2> QED
    BY <2>1, <2>2
<1>8. ASTypes'
  BY <1>1, <1>4, <1>7, ASTypesStay DEF ASInv
<1>9. ASParentIsOther' /\ ASFamilyTakesTurns'
  <2>1. CASE AS!MayProceed(o)
    <3>1. AS!This \in Nat /\ o \in DOMAIN objects
      BY <1>3, <1>4 DEF ASInstalls
    <3> QED
      BY <1>1, <2>1, <3>1, ASBegun DEF ASInv
  <2>2. CASE ~AS!MayProceed(o)
    BY <1>1, <2>2, ASFamilyStays DEF ASInv
  <2> QED
    BY <2>1, <2>2
<1>10. ASOperationsAreOn' /\ ASUnbornIsNew' /\ ASInstalledIsThere' /\ ASOneObjectPerName'
  <2>1. \A n \in DOMAIN asOperations' : ASGoes(n)
    <3>1. ASSUME NEW n, n = AS!This
          PROVE  ~ASUnborn(asOperations[n])'
      BY <1>4, <1>5, <3>1 DEF ASUnborn
    <3>2. \A n \in DOMAIN asOperations : ASGoes(n)
      BY <1>4 DEF ASGoes, ASSame, ASUnborn
    <3>3. ASSUME NEW n, n = AS!This
          PROVE  ASGoes(n)
      <4>1. ~ASUnborn(asOperations[n])'
        BY <3>1, <3>3
      <4> QED
        BY <1>1, <1>4, <3>3, <4>1 DEF ASGoes
    <3> QED
      BY <1>4, <3>2, <3>3
  <2>2. \A n \in DOMAIN asOperations : ASUnborn(asOperations[n]) =>
           /\ n \in DOMAIN asOperations' /\ ASUnborn(asOperations[n])'
           /\ objects'[asOperations[n].object].busy = 0
           /\ objects'[asOperations[n].object].settings = objects[asOperations[n].object].settings
    <3> SUFFICES ASSUME NEW n \in DOMAIN asOperations, ASUnborn(asOperations[n])
                 PROVE  /\ n \in DOMAIN asOperations' /\ ASUnborn(asOperations[n])'
                        /\ objects'[asOperations[n].object].busy = 0
                        /\ objects'[asOperations[n].object].settings
                             = objects[asOperations[n].object].settings
      OBVIOUS
    <3>1. asOperations[n].object # o /\ asOperations[n].object \in DOMAIN objects
      BY <1>1 DEF ASInv, ASObjectInv, ASInstalledIsThere, ASOperationsAreOn
    <3>2. objects[asOperations[n].object].busy = 0
      BY DEF ASInv, ASObjectInv, ASUnbornIsNew
    <3> QED
      BY <1>4, <1>7, <3>1, <3>2 DEF ASUnborn
  <2> QED
    BY <1>1, <1>7, <2>1, <2>2, ASNamesStay DEF ASInv
<1>11. ASHolderIsBusy'
  <2> SUFFICES ASSUME NEW n \in DOMAIN asOperations', asOperations'[n].step \in ASHolding
               PROVE  objects'[asOperations'[n].object].busy = n
    BY DEF ASHolderIsBusy
  <2>1. CASE n = AS!This
    BY <1>4, <1>7, <2>1 DEF ASHolding
  <2>2. CASE n # AS!This
    <3>1. n \in DOMAIN asOperations /\ asOperations'[n] = asOperations[n]
      BY <1>4, <2>2
    <3>2. objects[asOperations[n].object].busy = n /\ asOperations[n].object \in DOMAIN objects
      BY <3>1 DEF ASInv, ASObjectInv, ASHolderIsBusy, ASOperationsAreOn
    <3>3. n # 0
      BY <3>1 DEF ASInv, ASTypes
    <3>4. first # "wait" => objects[o].busy = 0
      <4>1. CASE first # "wait"
        <5>1. AS!MayProceed(o)
          BY <1>6, <4>1
        <5>2. o # 0
          BY <1>1
        <5> QED
          BY <5>1, <5>2 DEF AS!MayProceed, AS!InProgress
      <4> QED
        BY <4>1
    <3> QED
      BY <1>7, <3>1, <3>2, <3>3, <3>4
  <2> QED
    BY <2>1, <2>2
<1>12. ASNewIsReady'
  <2> SUFFICES ASSUME NEW n \in DOMAIN asOperations'
               PROVE  LET op == asOperations'[n] IN
                      /\ ASStepsOfKind(op)
                      /\ ASReady(op) => op.new \in AS!Settings /\ \A k \in op.keys : op.new[k] = n
                      /\ op.kind # "remove" /\ op.step = "stop"
                           /\ (op.kind = "change" => ~op.waited) =>
                           \A k \in Setting \ op.keys :
                             op.new[k] = objects'[op.object].settings[k]
    BY DEF ASNewIsReady, AS!Settings, ASReady, ASStepsOfKind, ASUnborn
  <2>1. CASE n = AS!This
    <3>1. ASStepsOfKind(asOperations'[n])
      BY <1>4, <1>5, <2>1 DEF ASStepsOfKind, ASUnborn
    <3>2. kind = "remove" \/ kind = "change" \/ (kind = "update" /\ first # "stop")
      <4>1. CASE kind = "update"
        <5>1. step = "download"
          BY <4>1
        <5> QED
          BY <1>5, <4>1, <5>1
      <4>2. kind = "change" \/ kind = "remove" \/ kind = "update"
        OBVIOUS
      <4> QED
        BY <4>1, <4>2
    <3>3. o \in DOMAIN objects
      BY <1>3 DEF ASInstalls
    <3>4. ASReady(asOperations'[n]) =>
            /\ asOperations'[n].new \in AS!Settings
            /\ \A k \in asOperations'[n].keys : asOperations'[n].new[k] = n
      BY <1>4, <2>1, <3>2 DEF ASReady
    <3>5. kind = "change" =>
            \A k \in Setting \ keys : new[k] = objects'[o].settings[k]
      BY <1>7, <3>3
    <3> QED
      BY <1>4, <2>1, <3>1, <3>2, <3>4, <3>5
  <2>2. CASE n # AS!This
    <3>1. n \in DOMAIN asOperations /\ asOperations'[n] = asOperations[n]
      BY <1>4, <2>2
    <3>2. asOperations[n].object \in DOMAIN objects
      BY <3>1 DEF ASInv, ASObjectInv, ASOperationsAreOn
    <3> QED
      BY <1>7, <3>1, <3>2 DEF ASInv, ASObjectInv, ASNewIsReady
  <2> QED
    BY <2>1, <2>2
<1>13. ASSaveInv'
  <2>1. \A n \in DOMAIN asOperations' :
          \/ n = asSpent + 1
          \/ /\ n \in DOMAIN asOperations /\ ASSame(asOperations[n], asOperations'[n])
             /\ (asOperations[n].step \in {"save", "finish"} =>
                   asOperations'[n].step \in {"save", "finish"})
    BY <1>4 DEF AS!This, ASSame
  <2> QED
    BY <1>1, <1>4, <1>7, <2>1, ASSavedStays DEF ASInv
<1> QED
  BY <1>8, <1>9, <1>10, <1>11, <1>12, <1>13 DEF ASInv, ASObjectInv

LEMMA ASChangeSettingsStep ==
  ASSUME ASConstants, ASInv, NEW name \in Name, NEW keys \in AS!RequestedKeys, AS!ChangeSettings(name, keys)
  PROVE  ASInv'
<1> DEFINE o == applications[name]
           new == AS!ApplySettings(keys, [k \in Setting |-> AS!This], objects[o].settings)
           changed == AS!ChangedSettings(objects[o].settings, new)
<1>1. o # 0 /\ AS!Begins("change", name, changed, new, "stop") /\ AS!EventMayHappen
  BY DEF AS!ChangeSettings, AS!Begins
<1>2. o \in DOMAIN objects
  BY <1>1 DEF ASInv, ASObjectInv, ASInstalledIsThere, ASInstalls
<1>3. objects[o].settings \in AS!Settings
  <2>1. objects[o] \in ASObject
    BY <1>2, ASDomainOf DEF ASInv, ASTypes
  <2> QED
    BY <2>1 DEF ASObject
<1>4. AS!This \in 0 .. asMaxEvents
  BY <1>1 DEF ASInv, ASTypes, AS!EventMayHappen, AS!This, ASConstants
<1>5. new \in AS!Settings
  BY <1>3, <1>4 DEF AS!ApplySettings, AS!Settings
<1>6. changed \in SUBSET Setting
  BY DEF AS!ChangedSettings
<1>7. \A k \in changed : new[k] = AS!This
  BY DEF AS!ChangedSettings, AS!ApplySettings
<1>8. \A k \in Setting \ changed : new[k] = objects[o].settings[k]
  BY DEF AS!ChangedSettings
<1> HIDE DEF new, changed
<1> QED
  BY <1>1, <1>5, <1>6, <1>7, <1>8, ASBeginsStep

LEMMA ASRemoveStep ==
  ASSUME ASConstants, ASInv, NEW name \in Name, AS!Remove_(name)
  PROVE  ASInv'
BY ASBeginsStep DEF AS!Remove_

LEMMA ASUpdateStep ==
  ASSUME ASConstants, ASInv, NEW name \in Name, NEW keys \in AS!RequestedKeys, AS!Update(name, keys)
  PROVE  ASInv'
<1>1. keys \in SUBSET Setting
  BY DEF AS!RequestedKeys
<1> QED
  BY <1>1, ASBeginsStep DEF AS!Update

LEMMA ASProceedsStep ==
  ASSUME ASInv, NEW n \in DOMAIN asOperations, AS!Proceeds(n)
  PROVE  ASInv'
<1> DEFINE o == asOperations[n].object
           step == IF asOperations[n].kind = "update" THEN "download" ELSE "stop"
<1>1. /\ asOperations[n].step = "wait" /\ AS!MayProceed(o)
      /\ objects' = [objects EXCEPT ![o].busy = n] /\ asOperations' = AS!AtStep(n, step)
      /\ UNCHANGED <<applications, data, asDisk, asSaves, asSpent, allowed, doubled, stale, joined>>
  BY DEF AS!Proceeds, AS!Ghosts
<1>2. /\ n \in Nat /\ n # 0 /\ o \in DOMAIN objects /\ asSpent \in Nat
      /\ \A m \in DOMAIN asOperations : m # 0
  BY DEF ASInv, ASTypes, ASObjectInv, ASOperationsAreOn
<1>3. step \in {"download", "stop"} /\ (step = "download" <=> asOperations[n].kind = "update")
  OBVIOUS
<1> HIDE DEF step
<1>4. /\ asOperations' \in [DOMAIN asOperations' -> ASOperation]
      /\ DOMAIN asOperations' = DOMAIN asOperations /\ DOMAIN asOperations' \subseteq 1 .. asSpent'
      /\ ASSame(asOperations[n], asOperations'[n]) /\ asOperations'[n].step = step
      /\ asOperations'[n].new = asOperations[n].new
      /\ \A m \in DOMAIN asOperations : m # n => asOperations'[m] = asOperations[m]
  BY <1>1, <1>2, <1>3, ASAtStepFacts DEF ASInv
<1>5. /\ objects' \in Seq(ASObject) /\ DOMAIN objects' = DOMAIN objects /\ objects'[o].busy = n
      /\ \A p \in DOMAIN objects :
           /\ objects'[p].name = objects[p].name /\ objects'[p].settings = objects[p].settings
           /\ objects'[p].deleted = objects[p].deleted
           /\ (p # o => objects'[p].busy = objects[p].busy)
  <2> HIDE DEF o
  <2> QED
    BY <1>1, <1>2, ASBusyFacts DEF ASInv, ASTypes
<1>6. ASTypes'
  BY <1>1, <1>4, <1>5, ASTypesStay DEF ASInv, ASTypes
<1>7. ASParentIsOther' /\ ASFamilyTakesTurns'
  BY <1>1, <1>2, ASBegun DEF ASInv
<1>8. ~ASUnborn(asOperations[n]) /\ ~ASUnborn(asOperations[n])'
  BY <1>1, <1>3, <1>4 DEF ASUnborn
<1>9. ASOperationsAreOn' /\ ASUnbornIsNew' /\ ASInstalledIsThere' /\ ASOneObjectPerName'
  <2>1. \A m \in DOMAIN asOperations' : ASGoes(m)
    BY <1>4, <1>8 DEF ASGoes, ASSame, ASUnborn
  <2>2. \A m \in DOMAIN asOperations : ASUnborn(asOperations[m]) =>
           /\ m \in DOMAIN asOperations' /\ ASUnborn(asOperations[m])'
           /\ objects'[asOperations[m].object].busy = 0
           /\ objects'[asOperations[m].object].settings = objects[asOperations[m].object].settings
    <3> SUFFICES ASSUME NEW m \in DOMAIN asOperations, ASUnborn(asOperations[m])
                 PROVE  /\ m \in DOMAIN asOperations' /\ ASUnborn(asOperations[m])'
                        /\ objects'[asOperations[m].object].busy = 0
                        /\ objects'[asOperations[m].object].settings
                             = objects[asOperations[m].object].settings
      OBVIOUS
    <3>1. m # n
      BY <1>8
    <3>2. asOperations[m].object # o /\ asOperations[m].object \in DOMAIN objects
      BY <3>1 DEF ASInv, ASObjectInv, ASUnbornIsNew, ASOperationsAreOn
    <3>3. objects[asOperations[m].object].busy = 0
      BY DEF ASInv, ASObjectInv, ASUnbornIsNew
    <3> QED
      BY <1>4, <1>5, <3>1, <3>2, <3>3 DEF ASUnborn
  <2> QED
    BY <1>1, <1>5, <2>1, <2>2, ASNamesStay DEF ASInv
<1>10. ASHolderIsBusy'
  <2> SUFFICES ASSUME NEW m \in DOMAIN asOperations', asOperations'[m].step \in ASHolding
               PROVE  objects'[asOperations'[m].object].busy = m
    BY DEF ASHolderIsBusy
  <2>1. CASE m = n
    BY <1>4, <1>5, <2>1 DEF ASSame
  <2>2. CASE m # n
    <3>1. m \in DOMAIN asOperations /\ asOperations'[m] = asOperations[m]
      BY <1>4, <2>2
    <3>2. objects[asOperations[m].object].busy = m /\ asOperations[m].object \in DOMAIN objects
      BY <3>1 DEF ASInv, ASObjectInv, ASHolderIsBusy, ASOperationsAreOn
    <3>3. objects[o].busy = 0
      <4>1. o # 0
        BY <1>2, ASDomainOf DEF ASInv, ASTypes
      <4> QED
        BY <1>1, <4>1 DEF AS!MayProceed, AS!InProgress
    <3> QED
      BY <1>2, <1>5, <3>1, <3>2, <3>3
  <2> QED
    BY <2>1, <2>2
<1>11. ASNewIsReady'
  <2> SUFFICES ASSUME NEW m \in DOMAIN asOperations'
               PROVE  LET op == asOperations'[m] IN
                      /\ ASStepsOfKind(op)
                      /\ ASReady(op) => op.new \in AS!Settings /\ \A k \in op.keys : op.new[k] = m
                      /\ op.kind # "remove" /\ op.step = "stop"
                           /\ (op.kind = "change" => ~op.waited) =>
                           \A k \in Setting \ op.keys :
                             op.new[k] = objects'[op.object].settings[k]
    BY DEF ASNewIsReady, AS!Settings, ASReady, ASStepsOfKind, ASUnborn
  <2>0. asOperations[m].object \in DOMAIN objects
    BY <1>4 DEF ASInv, ASObjectInv, ASOperationsAreOn
  <2>1. CASE m = n
    <3>1. /\ ASStepsOfKind(asOperations[n])
          /\ ASReady(asOperations[n]) =>
               /\ asOperations[n].new \in AS!Settings
               /\ \A k \in asOperations[n].keys : asOperations[n].new[k] = n
      BY DEF ASInv, ASObjectInv, ASNewIsReady
    <3>2. ASStepsOfKind(asOperations'[n])
      BY <1>1, <1>3, <1>4, <3>1 DEF ASStepsOfKind, ASSame, ASUnborn
    <3>3. ASReady(asOperations'[n]) => ASReady(asOperations[n])
      BY <1>1, <1>3, <1>4, <3>1 DEF ASReady, ASSame, ASStepsOfKind, ASInv, ASTypes, ASOperation
    <3>4. asOperations'[n].kind # "remove" /\ asOperations'[n].step = "stop" =>
            asOperations'[n].kind = "change"
      <4>1. asOperations[n].kind \in {"add", "change", "remove", "update"}
        BY DEF ASInv, ASTypes, ASOperation
      <4> QED
        BY <1>1, <1>3, <1>4, <3>1, <4>1 DEF ASStepsOfKind, ASSame
    <3>5. asOperations[n].waited
      BY <1>1 DEF ASInv, ASObjectInv, ASNewIsReady, ASStepsOfKind
    <3> QED
      BY <1>4, <2>1, <3>1, <3>2, <3>3, <3>4, <3>5 DEF ASSame
  <2>2. CASE m # n
    <3>1. m \in DOMAIN asOperations /\ asOperations'[m] = asOperations[m]
      BY <1>4, <2>2
    <3> QED
      BY <1>5, <2>0, <3>1 DEF ASInv, ASObjectInv, ASNewIsReady
  <2> QED
    BY <2>1, <2>2
<1>12. ASSaveInv'
  <2>1. \A m \in DOMAIN asOperations' :
          \/ m = asSpent + 1
          \/ /\ m \in DOMAIN asOperations /\ ASSame(asOperations[m], asOperations'[m])
             /\ (asOperations[m].step \in {"save", "finish"} =>
                   asOperations'[m].step \in {"save", "finish"})
    BY <1>1, <1>4 DEF ASSame
  <2> QED
    BY <1>1, <1>2, <1>5, <2>1, ASSavedStays DEF ASInv
<1> QED
  BY <1>6, <1>7, <1>9, <1>10, <1>11, <1>12 DEF ASInv, ASObjectInv

(* An operation ends, and lets go of its object if it has it. *)
LEMMA ASEndedStep ==
  ASSUME ASInv, NEW n \in DOMAIN asOperations, ~ASUnborn(asOperations[n]),
         asOperations' = AS!EndedIn(asOperations, n), objects' \in {objects, AS!ReleasedIn(objects, n)},
         UNCHANGED <<applications, data, asDisk, asSaves, asSpent, allowed, doubled, stale, joined>>
  PROVE  ASInv'
<1>1. n # 0 /\ asSpent \in Nat /\ \A m \in DOMAIN asOperations : m # 0
  BY DEF ASInv, ASTypes
<1>2. /\ asOperations' \in [DOMAIN asOperations' -> ASOperation]
      /\ DOMAIN asOperations' = DOMAIN asOperations \ {n} /\ DOMAIN asOperations' \subseteq 1 .. asSpent'
      /\ \A m \in DOMAIN asOperations' : asOperations'[m] = asOperations[m]
  BY <1>1, ASEndedFacts DEF ASInv
<1>3. /\ objects' \in Seq(ASObject) /\ DOMAIN objects' = DOMAIN objects
      /\ \A p \in DOMAIN objects :
           /\ objects'[p].name = objects[p].name /\ objects'[p].settings = objects[p].settings
           /\ (objects'[p].deleted <=> objects[p].deleted)
           /\ objects'[p].parent = objects[p].parent
           /\ objects'[p].busy \in {0, objects[p].busy}
           /\ (objects[p].busy # n => objects'[p].busy = objects[p].busy)
  BY ASReleasedFacts DEF ASInv, ASTypes
<1>4. ASTypes'
  BY <1>2, <1>3, ASTypesStay DEF ASInv, ASTypes
<1>5. ASOperationsAreOn' /\ ASUnbornIsNew' /\ ASInstalledIsThere' /\ ASOneObjectPerName'
  <2>1. \A m \in DOMAIN asOperations' : ASGoes(m)
    BY <1>2 DEF ASGoes, ASSame, ASUnborn
  <2>2. \A m \in DOMAIN asOperations : ASUnborn(asOperations[m]) =>
           /\ m \in DOMAIN asOperations' /\ ASUnborn(asOperations[m])'
           /\ objects'[asOperations[m].object].busy = 0
           /\ objects'[asOperations[m].object].settings = objects[asOperations[m].object].settings
    <3> SUFFICES ASSUME NEW m \in DOMAIN asOperations, ASUnborn(asOperations[m])
                 PROVE  /\ m \in DOMAIN asOperations' /\ ASUnborn(asOperations[m])'
                        /\ objects'[asOperations[m].object].busy = 0
                        /\ objects'[asOperations[m].object].settings
                             = objects[asOperations[m].object].settings
      OBVIOUS
    <3>1. /\ asOperations[m].object \in DOMAIN objects
          /\ objects[asOperations[m].object].busy = 0
      BY DEF ASInv, ASObjectInv, ASUnbornIsNew, ASOperationsAreOn
    <3> QED
      BY <1>2, <1>3, <3>1 DEF ASUnborn
  <2> QED
    BY <1>3, <2>1, <2>2, ASNamesStay DEF ASInv
<1>6. ASParentIsOther' /\ ASFamilyTakesTurns'
  BY <1>3, ASFamilyStays DEF ASInv
<1>7. ASHolderIsBusy'
  BY <1>2, <1>3 DEF ASInv, ASObjectInv, ASHolderIsBusy, ASOperationsAreOn
<1>8. ASNewIsReady'
  BY <1>2, <1>3, ASReadyStays DEF ASInv
<1>9. ASSaveInv'
  <2>1. \A m \in DOMAIN asOperations' :
          /\ m \in DOMAIN asOperations /\ ASSame(asOperations[m], asOperations'[m])
          /\ (asOperations[m].step \in {"save", "finish"} =>
                asOperations'[m].step \in {"save", "finish"})
    BY <1>2 DEF ASSame
  <2> QED
    BY <1>1, <1>3, <2>1, ASSavedStays DEF ASInv
<1> QED
  BY <1>4, <1>5, <1>6, <1>7, <1>8, <1>9 DEF ASInv, ASObjectInv

LEMMA ASEndingSteps ==
  ASSUME ASInv, NEW n \in DOMAIN asOperations, AS!WaitEnds(n) \/ AS!StepFails(n) \/ AS!Finishes(n)
  PROVE  ASInv'
<1>1. ~ASUnborn(asOperations[n])
  BY DEF AS!WaitEnds, AS!StepFails, AS!Finishes, ASUnborn
<1>2. /\ asOperations' = AS!EndedIn(asOperations, n) /\ objects' \in {objects, AS!ReleasedIn(objects, n)}
      /\ UNCHANGED <<applications, data, asDisk, asSaves, asSpent, allowed, doubled, stale, joined>>
  BY DEF AS!WaitEnds, AS!StepFails, AS!Finishes, AS!Ghosts
<1> QED
  BY <1>1, <1>2, ASEndedStep

(* An addition goes on, or a save comes to its end. *)
LEMMA ASMoved ==
  ASSUME ASTypes, ASObjectInv, NEW n \in DOMAIN asOperations,
         NEW step \in {"unpack", "insert", "finish"}, asOperations' = AS!AtStep(n, step),
         \/ ASUnborn(asOperations[n]) /\ step \in {"unpack", "insert"}
         \/ asOperations[n].step \in {"save", "finish"} /\ step = "finish",
         UNCHANGED <<objects, applications, doubled, joined>>, asSpent' \in Nat, asSpent <= asSpent'
  PROVE  /\ ASObjectInv' /\ asOperations' \in [DOMAIN asOperations' -> ASOperation]
         /\ DOMAIN asOperations' \subseteq 1 .. asSpent'
         /\ \A m \in DOMAIN asOperations' :
              /\ m \in DOMAIN asOperations /\ ASSame(asOperations[m], asOperations'[m])
              /\ (asOperations[m].step \in {"save", "finish"} =>
                    asOperations'[m].step \in {"save", "finish"})
<1>1. /\ asOperations' \in [DOMAIN asOperations' -> ASOperation]
      /\ DOMAIN asOperations' = DOMAIN asOperations /\ DOMAIN asOperations' \subseteq 1 .. asSpent'
      /\ ASSame(asOperations[n], asOperations'[n]) /\ asOperations'[n].step = step
      /\ asOperations'[n].new = asOperations[n].new
      /\ \A m \in DOMAIN asOperations : m # n => asOperations'[m] = asOperations[m]
  BY ASAtStepFacts
<1>2. ASUnborn(asOperations[n]) <=> ASUnborn(asOperations[n])'
  BY <1>1 DEF ASUnborn, ASSame
<1>3. \A m \in DOMAIN asOperations' :
        /\ m \in DOMAIN asOperations /\ ASSame(asOperations[m], asOperations'[m])
        /\ (ASUnborn(asOperations[m])' <=> ASUnborn(asOperations[m]))
        /\ (asOperations[m].step \in {"save", "finish"} =>
              asOperations'[m].step \in {"save", "finish"})
  BY <1>1, <1>2 DEF ASSame, ASUnborn
<1>4. ASOperationsAreOn' /\ ASUnbornIsNew' /\ ASInstalledIsThere' /\ ASOneObjectPerName'
  <2>1. \A m \in DOMAIN asOperations' : ASGoes(m)
    BY <1>3 DEF ASGoes
  <2>2. \A m \in DOMAIN asOperations : ASUnborn(asOperations[m]) =>
           /\ m \in DOMAIN asOperations' /\ ASUnborn(asOperations[m])'
           /\ objects'[asOperations[m].object].busy = 0
           /\ objects'[asOperations[m].object].settings = objects[asOperations[m].object].settings
    BY <1>1, <1>3 DEF ASObjectInv, ASUnbornIsNew
  <2> QED
    BY <2>1, <2>2, ASNamesStay
<1>5. ASParentIsOther' /\ ASFamilyTakesTurns'
  BY ASFamilyStays
<1>6. ASHolderIsBusy'
  BY <1>1 DEF ASObjectInv, ASHolderIsBusy, ASHolding, ASSame
<1>7. ASNewIsReady'
  <2>1. ASStepsOfKind(asOperations[n])
    BY DEF ASObjectInv, ASNewIsReady
  <2>2. ASStepsOfKind(asOperations[n])' /\ ~ASReady(asOperations[n])'
    BY <1>1, <2>1 DEF ASStepsOfKind, ASReady, ASUnborn, ASSame
  <2>3. \A m \in DOMAIN asOperations' :
           /\ m \in DOMAIN asOperations
           /\ \/ asOperations'[m] = asOperations[m]
              \/ /\ ASSame(asOperations[m], asOperations'[m]) /\ ASStepsOfKind(asOperations[m])'
                 /\ ~ASReady(asOperations[m])'
    BY <1>1, <2>2
  <2> QED
    BY <2>3, ASReadyStays
<1> QED
  BY <1>1, <1>3, <1>4, <1>5, <1>6, <1>7 DEF ASObjectInv

LEMMA ASAddGoesOnStep ==
  ASSUME ASInv, NEW n \in DOMAIN asOperations, AS!AddFetched(n) \/ AS!AddUnpacked(n)
  PROVE  ASInv'
<1>1. PICK step \in {"unpack", "insert"} :
        asOperations[n].step \in {"fetch", "unpack"} /\ asOperations' = AS!AtStep(n, step)
  BY DEF AS!AddFetched, AS!AddUnpacked
<1>2. UNCHANGED <<objects, applications, data, asDisk, asSaves, asSpent, allowed, doubled, stale, joined>>
  BY DEF AS!AddFetched, AS!AddUnpacked, AS!Ghosts
<1>3. asOperations[n].kind = "add"
  BY <1>1 DEF ASInv, ASObjectInv, ASNewIsReady, ASStepsOfKind
<1>4. ASUnborn(asOperations[n]) /\ asSpent \in Nat
  BY <1>1, <1>3 DEF ASUnborn, ASInv, ASTypes
<1>5. /\ ASObjectInv' /\ asOperations' \in [DOMAIN asOperations' -> ASOperation]
      /\ DOMAIN asOperations' \subseteq 1 .. asSpent'
      /\ \A m \in DOMAIN asOperations' :
           /\ m \in DOMAIN asOperations /\ ASSame(asOperations[m], asOperations'[m])
           /\ (asOperations[m].step \in {"save", "finish"} =>
                 asOperations'[m].step \in {"save", "finish"})
  BY <1>1, <1>2, <1>4, ASMoved DEF ASInv
<1>6. ASSaveInv'
  BY <1>2, <1>4, <1>5, ASSavedStays DEF ASInv
<1>7. ASTypes'
  BY <1>2, <1>5, ASTypesStay DEF ASInv, ASTypes
<1> QED
  BY <1>5, <1>6, <1>7 DEF ASInv

(* An addition fails: its object is deleted. *)
LEMMA ASAddFailsStep ==
  ASSUME ASInv, NEW n \in DOMAIN asOperations, AS!AddFails(n)
  PROVE  ASInv'
<1> DEFINE o == asOperations[n].object
<1>1. /\ asOperations[n].step \in {"fetch", "unpack"}
      /\ objects' = AS!DeletedIn(objects, o) /\ asOperations' = AS!EndedIn(asOperations, n)
      /\ UNCHANGED <<applications, data, asDisk, asSaves, asSpent, allowed, doubled, stale, joined>>
  BY DEF AS!AddFails, AS!Ghosts
<1>2. ASUnborn(asOperations[n])
  <2>1. asOperations[n].kind = "add"
    BY <1>1 DEF ASInv, ASObjectInv, ASNewIsReady, ASStepsOfKind
  <2> QED
    BY <1>1, <2>1 DEF ASUnborn
<1>3. asSpent \in Nat
  BY DEF ASInv, ASTypes
<1>4. /\ asOperations' \in [DOMAIN asOperations' -> ASOperation]
      /\ DOMAIN asOperations' = DOMAIN asOperations \ {n} /\ DOMAIN asOperations' \subseteq 1 .. asSpent'
      /\ \A m \in DOMAIN asOperations' : asOperations'[m] = asOperations[m]
  <2>1. ASTypes /\ asSpent' \in Nat /\ asSpent <= asSpent'
    BY <1>1, <1>3 DEF ASInv
  <2>2. asOperations' = AS!EndedIn(asOperations, n)
    BY <1>1
  <2> QED
    BY <2>1, <2>2, ASEndedFacts, ZenonT(30)
<1>5. /\ objects' \in Seq(ASObject) /\ DOMAIN objects' = DOMAIN objects
      /\ \A p \in DOMAIN objects :
           /\ objects'[p].name = objects[p].name /\ objects'[p].settings = objects[p].settings
           /\ (objects'[p].deleted <=> objects[p].deleted \/ p = o)
           /\ objects'[p].parent \in {0, objects[p].parent}
           /\ objects'[p].busy = objects[p].busy
  BY <1>1, ASDeletedFacts DEF ASInv, ASTypes
<1>6. \A name \in Name : applications[name] # 0 => applications[name] # o
  BY <1>2 DEF ASInv, ASObjectInv, ASInstalledIsThere
<1>7. \A m \in DOMAIN asOperations : m # n => asOperations[m].object # o
  BY <1>2 DEF ASInv, ASObjectInv, ASUnbornIsNew
<1> HIDE DEF o
<1>8. ASTypes'
  BY <1>1, <1>4, <1>5, ASTypesStay DEF ASInv, ASTypes
<1>9. ASOperationsAreOn' /\ ASUnbornIsNew'
  <2>1. \A m \in DOMAIN asOperations' :
          /\ m \in DOMAIN asOperations /\ asOperations'[m] = asOperations[m] /\ m # n
          /\ asOperations[m].object \in DOMAIN objects /\ asOperations[m].object # o
    BY <1>4, <1>7 DEF ASInv, ASObjectInv, ASOperationsAreOn
  <2>2. ASOperationsAreOn'
    BY <1>5, <2>1 DEF ASInv, ASObjectInv, ASOperationsAreOn
  <2>3. ASUnbornIsNew'
    <3> SUFFICES ASSUME NEW m \in DOMAIN asOperations', ASUnborn(asOperations'[m])
                 PROVE  /\ ~objects'[asOperations'[m].object].deleted
                        /\ objects'[asOperations'[m].object].busy = 0
                        /\ objects'[asOperations'[m].object].settings = [k \in Setting |-> m]
                        /\ \A i \in DOMAIN asOperations' : i # m =>
                             asOperations'[i].object # asOperations'[m].object
      BY DEF ASUnbornIsNew, ASUnborn
    <3>1. /\ m \in DOMAIN asOperations /\ asOperations'[m] = asOperations[m]
          /\ ASUnborn(asOperations[m])
          /\ asOperations[m].object \in DOMAIN objects /\ asOperations[m].object # o
      BY <2>1
    <3>2. /\ ~objects[asOperations[m].object].deleted
          /\ objects[asOperations[m].object].busy = 0
          /\ objects[asOperations[m].object].settings = [k \in Setting |-> m]
          /\ \A i \in DOMAIN asOperations : i # m =>
               asOperations[i].object # asOperations[m].object
      BY <3>1 DEF ASInv, ASObjectInv, ASUnbornIsNew
    <3>3. \A i \in DOMAIN asOperations' : i # m =>
            asOperations'[i].object # asOperations'[m].object
      BY <2>1, <3>1, <3>2
    <3>4. ~objects'[asOperations[m].object].deleted
      BY <1>5, <3>1, <3>2
    <3>5. objects'[asOperations[m].object].busy = 0
      BY <1>5, <3>1, <3>2
    <3>6. objects'[asOperations[m].object].settings = [k \in Setting |-> m]
      BY <1>5, <3>1, <3>2
    <3> QED
      BY <3>1, <3>3, <3>4, <3>5, <3>6
  <2> QED
    BY <2>2, <2>3
<1>10. ASInstalledIsThere'
  BY <1>1, <1>4, <1>5, <1>6 DEF ASInv, ASObjectInv, ASInstalledIsThere, ASInstalls, ASUnborn
<1>11. ASOneObjectPerName'
  <2> SUFFICES ASSUME NEW p \in DOMAIN objects, ~objects'[p].deleted,
                      objects'[p].name \notin doubled
               PROVE  \/ applications[objects'[p].name] = p
                      \/ \E m \in DOMAIN asOperations' :
                           ASUnborn(asOperations[m])' /\ asOperations'[m].object = p
    BY <1>1, <1>5 DEF ASOneObjectPerName
  <2>1. p # o /\ ~objects[p].deleted /\ objects[p].name = objects'[p].name
    BY <1>5
  <2>2. \/ applications[objects[p].name] = p
        \/ \E m \in DOMAIN asOperations : ASUnborn(asOperations[m]) /\ asOperations[m].object = p
    BY <2>1 DEF ASInv, ASObjectInv, ASOneObjectPerName
  <2>3. ASSUME NEW m \in DOMAIN asOperations, ASUnborn(asOperations[m]), asOperations[m].object = p
        PROVE  m \in DOMAIN asOperations' /\ ASUnborn(asOperations[m])' /\ asOperations'[m].object = p
    <3>1. m # n
      BY <2>1, <2>3 DEF o
    <3> QED
      BY <1>4, <2>3, <3>1 DEF ASUnborn
  <2> QED
    BY <2>1, <2>2, <2>3
<1>12. ASParentIsOther' /\ ASFamilyTakesTurns'
  BY <1>1, <1>5, ASFamilyStays DEF ASInv
<1>13. ASHolderIsBusy'
  BY <1>4, <1>5 DEF ASInv, ASObjectInv, ASHolderIsBusy, ASOperationsAreOn
<1>14. ASNewIsReady'
  BY <1>4, <1>5, ASReadyStays DEF ASInv
<1>15. ASSaveInv'
  <2>1. \A m \in DOMAIN asOperations' :
          /\ m \in DOMAIN asOperations /\ ASSame(asOperations[m], asOperations'[m])
          /\ (asOperations[m].step \in {"save", "finish"} =>
                asOperations'[m].step \in {"save", "finish"})
    BY <1>4 DEF ASSame
  <2> QED
    BY <1>1, <1>3, <1>5, <2>1, ASSavedStays DEF ASInv
<1> QED
  BY <1>8, <1>9, <1>10, <1>11, <1>12, <1>13, <1>14, <1>15 DEF ASInv, ASObjectInv

(* An addition begins: its object is a new one. *)
LEMMA ASAddStep ==
  ASSUME ASConstants, ASInv, NEW name \in Name, AS!Add(name)
  PROVE  ASInv'
<1> DEFINE above == IF Parent[name] = asNone THEN 0 ELSE applications[Parent[name]]
           value == [k \in Setting |-> AS!This]
           new == [name |-> name, settings |-> value, deleted |-> FALSE, busy |-> 0, parent |-> above]
           o == Len(objects) + 1
<1>1. /\ AS!EventMayHappen /\ asSpent' = AS!This
      /\ (Parent[name] # asNone => applications[Parent[name]] # 0)
      /\ objects' = Append(objects, new)
      /\ asOperations' = AS!Started("add", name, o, Setting, value, "fetch")
      /\ UNCHANGED <<applications, data, asDisk, asSaves, allowed, doubled, stale, joined>>
  BY DEF AS!Add, AS!Ghosts
<1>2. AS!This \in 1 .. asMaxEvents
  BY <1>1 DEF ASInv, ASTypes, AS!EventMayHappen, AS!This, ASConstants
<1>3. value \in AS!Settings
  BY <1>2 DEF AS!Settings
<1>4. above \in Nat /\ (above # 0 => above \in DOMAIN objects)
  <2>1. CASE Parent[name] = asNone
    BY <2>1
  <2>2. CASE Parent[name] # asNone
    <3>1. Parent[name] \in Name
      BY <2>2 DEF ASConstants
    <3> QED
      BY <2>2, <3>1 DEF ASInv, ASTypes, ASObjectInv, ASInstalledIsThere, ASInstalls
  <2> QED
    BY <2>1, <2>2
<1>5. /\ new \in ASObject /\ new.name = name /\ new.settings = value /\ ~new.deleted
      /\ new.busy = 0 /\ new.parent = above
  BY <1>3, <1>4 DEF ASObject
<1> HIDE DEF new
<1>6. o \in Nat /\ o # 0 /\ o \notin DOMAIN objects
  BY ASDomainOf DEF ASInv, ASTypes
<1>7. /\ objects' \in Seq(ASObject) /\ DOMAIN objects' = DOMAIN objects \union {o}
      /\ objects'[o] = new /\ \A p \in DOMAIN objects : objects'[p] = objects[p]
  BY <1>1, <1>5, ASAppended DEF ASInv, ASTypes
<1> HIDE DEF o, above
<1>8. "fetch" \in {"fetch", "wait", "download", "stop"} /\ Setting \in SUBSET Setting
      /\ asMaxEvents \in Nat /\ "add" \in {"add", "change", "remove", "update"}
      /\ value \in AS!Settings \union {<<>>}
  BY <1>3 DEF ASConstants
<1> HIDE DEF value
<1>9. ASHasStarted("add", name, o, Setting, value, "fetch")
  <2>1. ASTypes /\ AS!EventMayHappen /\ asSpent' = AS!This
        /\ asOperations' = AS!Started("add", name, o, Setting, value, "fetch")
    BY <1>1 DEF ASInv
  <2> QED
    BY <1>6, <1>8, <2>1, ASStartedFacts, ZenonT(30)
<1>10. /\ asOperations' \in [DOMAIN asOperations' -> ASOperation]
       /\ DOMAIN asOperations' = DOMAIN asOperations \union {AS!This} /\ AS!This \notin DOMAIN asOperations
       /\ DOMAIN asOperations' \subseteq 1 .. asSpent' /\ asSpent' <= asMaxEvents
       /\ asSpent' \in Nat /\ asSpent <= asSpent'
       /\ \A m \in DOMAIN asOperations : asOperations'[m] = asOperations[m]
       /\ asOperations'[AS!This].kind = "add" /\ asOperations'[AS!This].name = name
       /\ asOperations'[AS!This].object = o /\ asOperations'[AS!This].keys = Setting
       /\ asOperations'[AS!This].step = "fetch"
  BY <1>9 DEF ASHasStarted
<1>15. \A m \in DOMAIN asOperations :
         asOperations[m].object \in DOMAIN objects /\ asOperations[m].object # o
  BY <1>6 DEF ASInv, ASObjectInv, ASOperationsAreOn
<1>16. ASSUME NEW m \in DOMAIN asOperations'
       PROVE  \/ m \in DOMAIN asOperations /\ asOperations'[m] = asOperations[m]
              \/ /\ m = AS!This /\ asOperations'[m].kind = "add" /\ asOperations'[m].name = name
                 /\ asOperations'[m].object = o /\ asOperations'[m].keys = Setting
                 /\ asOperations'[m].step = "fetch"
  BY <1>10
<1>17. ASTypes'
  BY <1>1, <1>7, <1>10, ASTypesStay DEF ASInv
<1>18. ASOperationsAreOn'
  BY <1>5, <1>7, <1>16 DEF ASInv, ASObjectInv, ASOperationsAreOn
<1>19. ASUnbornIsNew'
  <2> SUFFICES ASSUME NEW m \in DOMAIN asOperations', ASUnborn(asOperations'[m])
               PROVE  /\ ~objects'[asOperations'[m].object].deleted
                      /\ objects'[asOperations'[m].object].busy = 0
                      /\ objects'[asOperations'[m].object].settings = [k \in Setting |-> m]
                      /\ \A i \in DOMAIN asOperations' : i # m =>
                           asOperations'[i].object # asOperations'[m].object
    BY DEF ASUnbornIsNew, ASUnborn
  <2>1. CASE m = AS!This
    <3>1. value = [k \in Setting |-> m]
      BY <2>1 DEF value
    <3>2. \A i \in DOMAIN asOperations' : i # m => asOperations'[i].object # o
      BY <1>10, <1>15, <2>1
    <3> QED
      BY <1>5, <1>7, <1>10, <2>1, <3>1, <3>2
  <2>2. CASE m # AS!This
    <3>1. m \in DOMAIN asOperations /\ asOperations'[m] = asOperations[m]
      BY <1>16, <2>2
    <3>2. \A i \in DOMAIN asOperations' : i # m =>
            asOperations'[i].object # asOperations'[m].object
      <4>1. ASUnborn(asOperations[m]) /\ asOperations[m].object # o
        BY <1>15, <3>1
      <4>2. \A i \in DOMAIN asOperations : i # m =>
              asOperations[i].object # asOperations[m].object
        BY <3>1, <4>1 DEF ASInv, ASObjectInv, ASUnbornIsNew
      <4>3. asOperations'[AS!This].object # asOperations'[m].object
        BY <1>10, <3>1, <4>1
      <4>4. \A i \in DOMAIN asOperations : i # m =>
              asOperations'[i].object # asOperations'[m].object
        BY <1>10, <3>1, <4>2
      <4>5. DOMAIN asOperations' = DOMAIN asOperations \union {AS!This}
        BY <1>10
      <4> QED
        BY <4>3, <4>4, <4>5
    <3>3. /\ ~objects[asOperations[m].object].deleted
          /\ objects[asOperations[m].object].busy = 0
          /\ objects[asOperations[m].object].settings = [k \in Setting |-> m]
      BY <3>1 DEF ASInv, ASObjectInv, ASUnbornIsNew
    <3>4. objects'[asOperations[m].object] = objects[asOperations[m].object]
      BY <1>7, <1>15, <3>1
    <3> QED
      BY <3>1, <3>2, <3>3, <3>4
  <2> QED
    BY <2>1, <2>2
<1>20. ASInstalledIsThere'
  <2> SUFFICES ASSUME NEW x \in Name, applications[x] # 0
               PROVE  /\ ASInstalls(x, applications[x])'
                      /\ \A m \in DOMAIN asOperations' :
                           ASUnborn(asOperations'[m]) => asOperations'[m].object # applications[x]
    BY <1>1 DEF ASInstalledIsThere, ASUnborn
  <2>1. /\ applications[x] \in DOMAIN objects /\ ASInstalls(x, applications[x])
        /\ \A m \in DOMAIN asOperations :
             ASUnborn(asOperations[m]) => asOperations[m].object # applications[x]
    BY DEF ASInv, ASObjectInv, ASInstalledIsThere, ASInstalls
  <2> QED
    BY <1>1, <1>6, <1>7, <1>16, <2>1 DEF ASInstalls
<1>21. ASOneObjectPerName'
  <2> SUFFICES ASSUME NEW p \in DOMAIN objects', ~objects'[p].deleted,
                      objects'[p].name \notin doubled
               PROVE  \/ applications[objects'[p].name] = p
                      \/ \E m \in DOMAIN asOperations' :
                           ASUnborn(asOperations'[m]) /\ asOperations'[m].object = p
    BY <1>1 DEF ASOneObjectPerName, ASUnborn
  <2>1. CASE p = o
    <3>1. ASUnborn(asOperations'[AS!This])
      BY <1>10 DEF ASUnborn
    <3> QED
      BY <1>10, <2>1, <3>1
  <2>2. CASE p # o
    <3>1. p \in DOMAIN objects /\ objects'[p] = objects[p]
      BY <1>7, <2>2
    <3>2. \/ applications[objects[p].name] = p
          \/ \E m \in DOMAIN asOperations : ASUnborn(asOperations[m]) /\ asOperations[m].object = p
      BY <3>1 DEF ASInv, ASObjectInv, ASOneObjectPerName
    <3> QED
      BY <1>10, <3>1, <3>2
  <2> QED
    BY <2>1, <2>2
<1>22. ASHolderIsBusy'
  BY <1>7, <1>15, <1>16 DEF ASInv, ASObjectInv, ASHolderIsBusy, ASHolding
<1>23. ASParentIsOther'
  BY <1>4, <1>5, <1>6, <1>7 DEF ASInv, ASObjectInv, ASParentIsOther
<1>24. ASFamilyTakesTurns'
  <2> SUFFICES ASSUME NEW p \in DOMAIN objects', objects'[p].busy # 0, objects'[p].parent # 0
               PROVE  \/ p \in joined \/ objects'[p].parent \in joined
                      \/ objects'[objects'[p].parent].busy = 0
    BY <1>1 DEF ASFamilyTakesTurns
  <2>1. p \in DOMAIN objects /\ objects'[p] = objects[p]
    BY <1>5, <1>7
  <2>2. objects[p].parent \in DOMAIN objects
    BY <2>1 DEF ASInv, ASObjectInv, ASParentIsOther
  <2> QED
    BY <1>7, <2>1, <2>2 DEF ASInv, ASObjectInv, ASFamilyTakesTurns
<1>25. ASNewIsReady'
  <2> SUFFICES ASSUME NEW m \in DOMAIN asOperations'
               PROVE  LET op == asOperations'[m] IN
                      /\ ASStepsOfKind(op)
                      /\ ASReady(op) => op.new \in AS!Settings /\ \A k \in op.keys : op.new[k] = m
                      /\ op.kind # "remove" /\ op.step = "stop"
                           /\ (op.kind = "change" => ~op.waited) =>
                           \A k \in Setting \ op.keys :
                             op.new[k] = objects'[op.object].settings[k]
    BY DEF ASNewIsReady, AS!Settings, ASReady, ASStepsOfKind, ASUnborn
  <2>1. CASE m = AS!This
    BY <1>10, <2>1 DEF ASStepsOfKind, ASReady
  <2>2. CASE m # AS!This
    BY <1>7, <1>15, <1>16, <2>2 DEF ASInv, ASObjectInv, ASNewIsReady
  <2> QED
    BY <2>1, <2>2
<1>26. ASSaveInv'
  <2>1. \A m \in DOMAIN asOperations' :
          \/ m = asSpent + 1
          \/ /\ m \in DOMAIN asOperations /\ ASSame(asOperations[m], asOperations'[m])
             /\ (asOperations[m].step \in {"save", "finish"} =>
                   asOperations'[m].step \in {"save", "finish"})
    BY <1>16 DEF ASSame, AS!This
  <2> QED
    BY <1>1, <1>7, <1>10, <2>1, ASSavedStays DEF ASInv
<1> QED
  BY <1>17, <1>18, <1>19, <1>20, <1>21, <1>22, <1>23, <1>24, <1>25, <1>26 DEF ASInv, ASObjectInv

(* An addition is there: a root application adopts the children of its name that are. *)
LEMMA ASAdoptedFacts ==
  ASSUME ASConstants, NEW objs \in Seq(ASObject), NEW o \in DOMAIN objs
  PROVE  /\ AS!AdoptedIn(objs, o) \in Seq(ASObject) /\ DOMAIN AS!AdoptedIn(objs, o) = DOMAIN objs
         /\ \A p \in DOMAIN objs :
              LET after == AS!AdoptedIn(objs, o)[p] IN
              /\ after.name = objs[p].name /\ after.settings = objs[p].settings
              /\ after.busy = objs[p].busy /\ after.deleted = objs[p].deleted
              /\ after.parent \in {o, objs[p].parent}
              /\ (after.parent # objs[p].parent => p # o)
<1> DEFINE g == AS!AdoptedIn(objs, o)
<1>1. \A p \in DOMAIN objs : objs[p] \in ASObject /\ p \in Nat
  BY ASDomainOf
<1>2. DOMAIN g = DOMAIN objs
  BY DEF AS!AdoptedIn
<1>3. ASSUME NEW p \in DOMAIN objs
      PROVE  /\ g[p] \in ASObject /\ g[p].name = objs[p].name /\ g[p].settings = objs[p].settings
             /\ g[p].busy = objs[p].busy /\ g[p].deleted = objs[p].deleted
             /\ g[p].parent \in {o, objs[p].parent}
             /\ (g[p].parent # objs[p].parent => p # o)
  <2> DEFINE adopts == /\ Parent[objs[p].name] = objs[o].name /\ Parent[objs[o].name] = asNone
                       /\ applications[objs[p].name] = p
  <2>1. g[p] = IF adopts THEN [objs[p] EXCEPT !.parent = o] ELSE objs[p]
    BY DEF AS!AdoptedIn
  <2>2. objs[p] \in ASObject /\ objs[o] \in ASObject /\ o \in Nat
    BY <1>1
  <2>3. adopts => p # o
    <3>1. objs[o].name \in Name
      BY <2>2 DEF ASObject
    <3> QED
      BY <3>1 DEF ASConstants
  <2> HIDE DEF g, adopts
  <2> QED
    BY <2>1, <2>2, <2>3 DEF ASObject
<1>4. g \in [DOMAIN objs -> ASObject]
  <2>1. g = [p \in DOMAIN objs |-> g[p]]
    BY DEF AS!AdoptedIn
  <2> QED
    BY <1>3, <2>1
<1>5. g \in Seq(ASObject)
  BY <1>4, ASMapped
<1> QED
  BY <1>2, <1>3, <1>5

(* What a save adds to the database and the saves. *)
LEMMA ASSaves ==
  ASSUME ASTypes, NEW name \in Name, NEW v \in ASSaved, NEW n \in Nat,
         data' = [data EXCEPT ![name] = v],
         asSaves' = Append(asSaves, [operation |-> n, data |-> data'])
  PROVE  /\ data' \in [Name -> ASSaved] /\ asSaves' \in Seq(ASSave) /\ data'[name] = v
         /\ \A x \in Name : x # name => data'[x] = data[x]
         /\ ASLastSaveIsData'
         /\ \A i \in DOMAIN asSaves' :
              \/ i \in DOMAIN asSaves /\ asSaves'[i] = asSaves[i]
              \/ asSaves'[i].operation = n /\ asSaves'[i].data = data'
<1> DEFINE new == [operation |-> n, data |-> data']
<1>1. data' \in [Name -> ASSaved] /\ data'[name] = v /\ \A x \in Name : x # name => data'[x] = data[x]
  BY DEF ASTypes
<1>2. new \in ASSave /\ new.operation = n /\ new.data = data'
  BY <1>1 DEF ASSave
<1> HIDE DEF new
<1>3. asSaves' = Append(asSaves, new) /\ asSaves \in Seq(ASSave)
  BY DEF new, ASTypes
<1>4. /\ asSaves' \in Seq(ASSave) /\ DOMAIN asSaves' = DOMAIN asSaves \union {Len(asSaves) + 1}
      /\ Len(asSaves') = Len(asSaves) + 1
      /\ asSaves'[Len(asSaves) + 1] = new /\ \A i \in DOMAIN asSaves : asSaves'[i] = asSaves[i]
  BY <1>2, <1>3, ASAppended
<1>5. ASLastSaveIsData'
  BY <1>2, <1>4 DEF ASLastSaveIsData
<1> QED
  BY <1>1, <1>2, <1>4, <1>5

LEMMA ASUncertainFacts ==
  ASSUME NEW name \in Name, NEW keys \in SUBSET Setting, NEW v \in ASValues,
         allowed \in [Name -> [Setting -> SUBSET ASValues]]
  PROVE  LET after == AS!Uncertain(name, keys, v) IN
         /\ after \in [Name -> [Setting -> SUBSET ASValues]]
         /\ \A k \in Setting : after[name][k] = IF k \in keys THEN allowed[name][k] \union {v}
                                                 ELSE allowed[name][k]
         /\ \A x \in Name : x # name => after[x] = allowed[x]
<1> DEFINE new == [k \in Setting |-> IF k \in keys THEN allowed[name][k] \union {v}
                                     ELSE allowed[name][k]]
<1>1. AS!Uncertain(name, keys, v) = [allowed EXCEPT ![name] = new]
  BY DEF AS!Uncertain
<1>2. new \in [Setting -> SUBSET ASValues]
  OBVIOUS
<1>3. \A k \in Setting : new[k] = IF k \in keys THEN allowed[name][k] \union {v}
                                   ELSE allowed[name][k]
  OBVIOUS
<1> HIDE DEF new
<1> QED
  BY <1>1, <1>2, <1>3

LEMMA ASAddInsertedStep ==
  ASSUME ASConstants, ASInv, NEW n \in DOMAIN asOperations, AS!AddInserted(n)
  PROVE  ASInv'
<1> DEFINE name == asOperations[n].name
           o == asOperations[n].object
           grown == [objects EXCEPT ![o].busy = n]
<1>1. /\ asOperations[n].step = "insert" /\ applications' = [applications EXCEPT ![name] = o]
      /\ objects' = AS!AdoptedIn(grown, o) /\ AS!UpdateJson(objects', o, n)
      /\ asOperations' = AS!AtStep(n, "save") /\ allowed' = AS!Uncertain(name, Setting, n)
      /\ doubled' = IF applications[name] # 0 THEN doubled \union {name} ELSE doubled
      /\ joined' = IF \E f \in {objects[o].parent}
                             \union {c \in DOMAIN objects : objects'[c].parent = o} :
                         f # 0 /\ objects[f].busy # 0
                   THEN joined \union {o} ELSE joined
      /\ UNCHANGED <<asDisk, asSpent, stale>>
  BY DEF AS!AddInserted
<1>2. /\ n \in Nat /\ n # 0 /\ asSpent \in Nat /\ name \in Name /\ o \in DOMAIN objects /\ o # 0
      /\ o \in Nat /\ \A m \in DOMAIN asOperations : m # 0
  BY ASDomainOf DEF ASInv, ASTypes, ASOperation, ASObjectInv, ASOperationsAreOn
<1>3. ASUnborn(asOperations[n]) /\ asOperations[n].kind = "add" /\ asOperations[n].keys = Setting
  <2>1. asOperations[n].kind = "add" /\ asOperations[n].keys = Setting
    BY <1>1 DEF ASInv, ASObjectInv, ASNewIsReady, ASStepsOfKind
  <2> QED
    BY <1>1, <2>1 DEF ASUnborn
<1>4. /\ ~objects[o].deleted /\ objects[o].busy = 0 /\ objects[o].name = name
      /\ objects[o].settings = [k \in Setting |-> n]
      /\ \A m \in DOMAIN asOperations : m # n => asOperations[m].object # o
      /\ \A x \in Name : applications[x] # 0 => applications[x] # o
  BY <1>3 DEF ASInv, ASObjectInv, ASUnbornIsNew, ASInstalledIsThere, ASOperationsAreOn
<1> HIDE DEF o, name
<1>5. /\ objects' \in Seq(ASObject) /\ DOMAIN objects' = DOMAIN objects /\ objects'[o].busy = n
      /\ objects'[o].parent = objects[o].parent
      /\ \A p \in DOMAIN objects :
           /\ objects'[p].name = objects[p].name /\ objects'[p].settings = objects[p].settings
           /\ objects'[p].deleted = objects[p].deleted
           /\ objects'[p].parent \in {o, objects[p].parent}
           /\ (p # o => objects'[p].busy = objects[p].busy)
           /\ (objects'[p].parent # objects[p].parent => p # o)
  <2>1. /\ grown \in Seq(ASObject) /\ DOMAIN grown = DOMAIN objects
        /\ grown[o].name = objects[o].name /\ grown[o].settings = objects[o].settings
        /\ grown[o].busy = n
        /\ grown[o].deleted = objects[o].deleted /\ grown[o].parent = objects[o].parent
        /\ \A p \in DOMAIN objects : p # o => grown[p] = objects[p]
    BY <1>2, ASBusyFacts DEF ASInv, ASTypes
  <2> HIDE DEF grown
  <2>2. /\ objects' \in Seq(ASObject) /\ DOMAIN objects' = DOMAIN grown
        /\ \A p \in DOMAIN grown :
             /\ objects'[p].name = grown[p].name /\ objects'[p].settings = grown[p].settings
             /\ objects'[p].busy = grown[p].busy /\ objects'[p].deleted = grown[p].deleted
             /\ objects'[p].parent \in {o, grown[p].parent}
             /\ (objects'[p].parent # grown[p].parent => p # o)
    BY <1>1, <1>2, <2>1, ASAdoptedFacts
  <2> QED
    BY <1>2, <2>1, <2>2
<1> HIDE DEF grown
<1>6. /\ asOperations' \in [DOMAIN asOperations' -> ASOperation]
      /\ DOMAIN asOperations' = DOMAIN asOperations /\ DOMAIN asOperations' \subseteq 1 .. asSpent'
      /\ ASSame(asOperations[n], asOperations'[n]) /\ asOperations'[n].step = "save"
      /\ asOperations'[n].new = asOperations[n].new
      /\ \A m \in DOMAIN asOperations : m # n => asOperations'[m] = asOperations[m]
  BY <1>1, <1>2, ASAtStepFacts DEF ASInv
<1>7. /\ asOperations'[n].kind = "add" /\ asOperations'[n].object = o /\ asOperations'[n].name = name
      /\ asOperations'[n].keys = Setting /\ ~ASUnborn(asOperations'[n])
  BY <1>3, <1>6 DEF ASSame, ASUnborn, o, name
<1>8. /\ applications' \in [Name -> Nat] /\ applications'[name] = o
      /\ \A x \in Name : x # name => applications'[x] = applications[x]
  BY <1>1, <1>2 DEF ASInv, ASTypes
<1>9. /\ objects[o].settings \in AS!Settings
      /\ data' = [data EXCEPT ![name] = objects[o].settings]
      /\ asSaves' = Append(asSaves, [operation |-> n, data |-> data'])
  <2>1. objects[o] \in ASObject
    BY <1>2, ASDomainOf DEF ASInv, ASTypes
  <2> QED
    BY <1>1, <1>2, <1>4, <1>5, <2>1 DEF AS!UpdateJson, ASObject
<1>10. /\ data' \in [Name -> ASSaved] /\ asSaves' \in Seq(ASSave) /\ data'[name] = objects[o].settings
       /\ \A x \in Name : x # name => data'[x] = data[x]
       /\ ASLastSaveIsData'
       /\ \A i \in DOMAIN asSaves' :
            \/ i \in DOMAIN asSaves /\ asSaves'[i] = asSaves[i]
            \/ asSaves'[i].operation = n /\ asSaves'[i].data = data'
  <2>1. objects[o].settings \in ASSaved
    BY <1>9 DEF ASSaved
  <2> QED
    BY <1>2, <1>9, <2>1, ASSaves DEF ASInv
<1>11. /\ allowed' \in [Name -> [Setting -> SUBSET ASValues]]
       /\ \A k \in Setting : allowed'[name][k] = allowed[name][k] \union {n}
       /\ \A x \in Name : x # name => allowed'[x] = allowed[x]
  <2>1. n \in ASValues /\ Setting \in SUBSET Setting
    BY <1>2 DEF ASValues
  <2>2. allowed \in [Name -> [Setting -> SUBSET ASValues]]
    BY DEF ASInv, ASTypes
  <2>3. allowed' = AS!Uncertain(name, Setting, n) /\ name \in Name
    BY <1>1, <1>2
  <2> DEFINE after == AS!Uncertain(name, Setting, n)
  <2>4. /\ after \in [Name -> [Setting -> SUBSET ASValues]]
        /\ \A k \in Setting : after[name][k] = IF k \in Setting THEN allowed[name][k] \union {n}
                                                ELSE allowed[name][k]
        /\ \A x \in Name : x # name => after[x] = allowed[x]
    BY ZenonT(60), <2>1, <2>2, <2>3, ASUncertainFacts
  <2> HIDE DEF after
  <2>5. allowed' = after
    BY <2>3 DEF after
  <2> QED
    BY <2>4, <2>5
<1>12. ASTypes'
  BY <1>1, <1>5, <1>6, <1>8, <1>10, <1>11 DEF ASInv, ASTypes
<1>13. ASOperationsAreOn' /\ ASUnbornIsNew'
  <2>1. ASOperationsAreOn'
    BY <1>2, <1>4, <1>5, <1>6, <1>7 DEF ASInv, ASObjectInv, ASOperationsAreOn
  <2>2. ASUnbornIsNew'
    <3> SUFFICES ASSUME NEW m \in DOMAIN asOperations', ASUnborn(asOperations'[m])
                 PROVE  /\ ~objects'[asOperations'[m].object].deleted
                        /\ objects'[asOperations'[m].object].busy = 0
                        /\ objects'[asOperations'[m].object].settings = [k \in Setting |-> m]
                        /\ \A i \in DOMAIN asOperations' : i # m =>
                             asOperations'[i].object # asOperations'[m].object
      BY DEF ASUnbornIsNew, ASUnborn
    <3>1. m # n
      BY <1>7
    <3>2. m \in DOMAIN asOperations /\ asOperations'[m] = asOperations[m] /\ asOperations[m].object # o
      BY <1>4, <1>6, <3>1
    <3>3. asOperations[m].object \in DOMAIN objects
      BY <3>2 DEF ASInv, ASObjectInv, ASOperationsAreOn
    <3>4. \A i \in DOMAIN asOperations' : i # m => asOperations'[i].object # asOperations'[m].object
      BY <1>6, <1>7, <3>2 DEF ASInv, ASObjectInv, ASUnbornIsNew
    <3>5. /\ ~objects[asOperations[m].object].deleted
          /\ objects[asOperations[m].object].busy = 0
          /\ objects[asOperations[m].object].settings = [k \in Setting |-> m]
      BY <3>2 DEF ASInv, ASObjectInv, ASUnbornIsNew
    <3>6. ~objects'[asOperations[m].object].deleted
      BY <1>5, <3>3, <3>5
    <3>7. objects'[asOperations[m].object].busy = 0
      BY <1>5, <3>2, <3>3, <3>5
    <3>8. objects'[asOperations[m].object].settings = [k \in Setting |-> m]
      BY <1>5, <3>3, <3>5
    <3> QED
      BY <3>2, <3>4, <3>6, <3>7, <3>8
  <2> QED
    BY <2>1, <2>2
<1>14. ASInstalledIsThere'
  <2> SUFFICES ASSUME NEW x \in Name, applications'[x] # 0
               PROVE  /\ ASInstalls(x, applications[x])'
                      /\ \A m \in DOMAIN asOperations' :
                           ASUnborn(asOperations'[m]) => asOperations'[m].object # applications'[x]
    BY DEF ASInstalledIsThere, ASUnborn
  <2>1. \A m \in DOMAIN asOperations' :
          ASUnborn(asOperations'[m]) => m \in DOMAIN asOperations /\ m # n /\ asOperations'[m] = asOperations[m]
    BY <1>6, <1>7
  <2>2. CASE x = name
    BY <1>2, <1>4, <1>5, <1>8, <2>1, <2>2 DEF ASInstalls
  <2>3. CASE x # name
    BY <1>5, <1>8, <2>1, <2>3 DEF ASInv, ASObjectInv, ASInstalledIsThere, ASInstalls
  <2> QED
    BY <2>2, <2>3
<1>15. ASOneObjectPerName'
  <2> SUFFICES ASSUME NEW p \in DOMAIN objects, ~objects'[p].deleted,
                      objects'[p].name \notin doubled'
               PROVE  \/ applications'[objects'[p].name] = p
                      \/ \E m \in DOMAIN asOperations' :
                           ASUnborn(asOperations'[m]) /\ asOperations'[m].object = p
    BY <1>5 DEF ASOneObjectPerName, ASUnborn
  <2>1. CASE p = o
    BY <1>4, <1>5, <1>8, <2>1
  <2>2. CASE p # o
    <3>1. /\ ~objects[p].deleted /\ objects[p].name = objects'[p].name
          /\ objects[p].name \notin doubled /\ objects[p].name \in Name
      <4>1. objects[p] \in ASObject
        BY ASDomainOf DEF ASInv, ASTypes
      <4> QED
        BY <1>1, <1>5, <4>1 DEF ASObject
    <3>2. \/ applications[objects[p].name] = p
          \/ \E m \in DOMAIN asOperations : ASUnborn(asOperations[m]) /\ asOperations[m].object = p
      BY <3>1 DEF ASInv, ASObjectInv, ASOneObjectPerName
    <3>3. CASE applications[objects[p].name] = p
      <4>1. p # 0
        BY ASDomainOf DEF ASInv, ASTypes
      <4>2. objects[p].name # name
        BY <1>1, <3>1, <3>3, <4>1
      <4> QED
        BY <1>8, <3>1, <3>3, <4>2
    <3>4. CASE \E m \in DOMAIN asOperations : ASUnborn(asOperations[m]) /\ asOperations[m].object = p
      <4>1. PICK m \in DOMAIN asOperations : ASUnborn(asOperations[m]) /\ asOperations[m].object = p
        BY <3>4
      <4>2. m # n
        BY <2>2, <4>1 DEF o
      <4> QED
        BY <1>6, <4>1, <4>2
    <3> QED
      BY <3>2, <3>3, <3>4
  <2> QED
    BY <2>1, <2>2
<1>16. ASHolderIsBusy'
  <2> SUFFICES ASSUME NEW m \in DOMAIN asOperations', asOperations'[m].step \in ASHolding
               PROVE  objects'[asOperations'[m].object].busy = m
    BY DEF ASHolderIsBusy
  <2>1. CASE m = n
    BY <1>5, <1>7, <2>1
  <2>2. CASE m # n
    BY <1>4, <1>5, <1>6, <2>2 DEF ASInv, ASObjectInv, ASHolderIsBusy, ASOperationsAreOn
  <2> QED
    BY <2>1, <2>2
<1>17. ASParentIsOther'
  BY <1>2, <1>5 DEF ASInv, ASObjectInv, ASParentIsOther
<1>18. ASFamilyTakesTurns'
  <2> SUFFICES ASSUME NEW p \in DOMAIN objects, objects'[p].busy # 0, objects'[p].parent # 0
               PROVE  \/ p \in joined' \/ objects'[p].parent \in joined'
                      \/ objects'[objects'[p].parent].busy = 0
    BY <1>5 DEF ASFamilyTakesTurns
  <2>1. objects'[p].parent \in DOMAIN objects /\ objects'[p].parent # p
    BY <1>5, <1>17 DEF ASParentIsOther
  <2>2. CASE o \in joined'
    <3>1. CASE p = o \/ objects'[p].parent = o
      BY <2>2, <3>1
    <3>2. CASE p # o /\ objects'[p].parent # o
      <4>1. objects'[p].parent = objects[p].parent
        BY <1>5, <3>2
      <4> QED
        BY <1>1, <1>5, <2>1, <3>2, <4>1 DEF ASInv, ASObjectInv, ASFamilyTakesTurns
    <3> QED
      BY <3>1, <3>2
  <2>3. CASE o \notin joined'
    <3>1. /\ joined' = joined
          /\ \A f \in {objects[o].parent} \union {c \in DOMAIN objects : objects'[c].parent = o} :
               f # 0 => objects[f].busy = 0
      BY <1>1, <2>3
    <3>2. CASE p = o
      BY <1>5, <2>1, <3>1, <3>2
    <3>3. CASE p # o /\ objects'[p].parent = o
      <4>1. p # 0
        BY ASDomainOf DEF ASInv, ASTypes
      <4> QED
        BY <1>5, <3>1, <3>3, <4>1
    <3>4. CASE p # o /\ objects'[p].parent # o
      <4>1. objects'[p].parent = objects[p].parent
        BY <1>5, <3>4
      <4> QED
        BY <1>5, <2>1, <3>1, <3>4, <4>1 DEF ASInv, ASObjectInv, ASFamilyTakesTurns
    <3> QED
      BY <3>2, <3>3, <3>4
  <2> QED
    BY <2>2, <2>3
<1>19. ASNewIsReady'
  <2>1. ASStepsOfKind(asOperations[n])' /\ ~ASReady(asOperations[n])'
    BY <1>6, <1>7 DEF ASStepsOfKind, ASReady, ASUnborn
  <2>2. \A m \in DOMAIN asOperations' :
           /\ m \in DOMAIN asOperations
           /\ \/ asOperations'[m] = asOperations[m]
              \/ /\ ASSame(asOperations[m], asOperations'[m]) /\ ASStepsOfKind(asOperations[m])'
                 /\ ~ASReady(asOperations[m])'
    BY <1>6, <2>1
  <2> QED
    BY <1>5, <2>2, ASReadyStays DEF ASInv
<1>20. AS!SavedIsWhatRuns'
  <2> SUFFICES ASSUME NEW x \in Name \ doubled'
               PROVE  data'[x] = IF applications'[x] = 0 THEN asNone
                                 ELSE objects'[applications'[x]].settings
    BY DEF AS!SavedIsWhatRuns
  <2>1. CASE x = name
    BY <1>2, <1>5, <1>8, <1>10, <2>1
  <2>2. CASE x # name
    <3>1. x \notin doubled
      BY <1>1
    <3>2. applications[x] # 0 => applications[x] \in DOMAIN objects
      BY DEF ASInv, ASObjectInv, ASInstalledIsThere, ASInstalls
    <3> QED
      BY <1>5, <1>8, <1>10, <2>2, <3>1, <3>2 DEF ASInv, ASSaveInv, AS!SavedIsWhatRuns
  <2> QED
    BY <2>1, <2>2
<1>21. data'[name] # asNone /\ \A k \in Setting : data'[name][k] = n
  BY <1>4, <1>9, <1>10 DEF ASConstants
<1>22. ASSavesAreOf'
  <2>1. ASSUME NEW m \in DOMAIN asOperations', NEW d, ASWrote(asOperations[m], m, d), m \in DOMAIN asOperations
        PROVE  ASWrote(asOperations'[m], m, d)
    <3>1. m # n
      BY <1>1, <2>1 DEF ASWrote
    <3> QED
      BY <1>6, <2>1, <3>1
  <2>2. ASWrote(asOperations'[n], n, data')
    BY <1>6, <1>7, <1>21 DEF ASWrote
  <2>3. n <= asSpent
    BY DEF ASInv, ASTypes
  <2> SUFFICES ASSUME NEW i \in DOMAIN asSaves'
               PROVE  /\ asSaves'[i].operation <= asSpent
                      /\ asSaves'[i].operation \in DOMAIN asOperations' =>
                           ASWrote(asOperations'[asSaves'[i].operation], asSaves'[i].operation,
                                 asSaves'[i].data)
    BY <1>1 DEF ASSavesAreOf, ASWrote
  <2>4. CASE i \in DOMAIN asSaves /\ asSaves'[i] = asSaves[i]
    BY <1>6, <2>1, <2>4 DEF ASInv, ASSaveInv, ASSavesAreOf
  <2>5. CASE asSaves'[i].operation = n /\ asSaves'[i].data = data'
    BY <2>2, <2>3, <2>5
  <2> QED
    BY <1>10, <2>4, <2>5
<1>23. ASAllAreAllowed'
  <2>1. ASSUME NEW d, ASAllows(d)
        PROVE  ASAllows(d)'
    BY <1>1, <1>2, <1>11, <2>1 DEF ASAllows, AS!SavedValue
  <2>2. ASAllows(data)'
    <3> SUFFICES ASSUME NEW x \in Name \ doubled', NEW k \in Setting, <<x, k>> \notin stale
                 PROVE  AS!SavedValue(data'[x], k) \in allowed'[x][k]
      BY <1>1 DEF ASAllows, AS!SavedValue
    <3>1. CASE x = name
      BY <1>11, <1>21, <3>1 DEF AS!SavedValue
    <3>2. CASE x # name
      <4>1. x \notin doubled
        BY <1>1
      <4> QED
        BY <1>10, <1>11, <3>2, <4>1 DEF ASInv, ASSaveInv, ASAllAreAllowed, ASAllows
    <3> QED
      BY <3>1, <3>2
  <2>3. ASAllows(asDisk)'
    BY <1>1, <2>1 DEF ASInv, ASSaveInv, ASAllAreAllowed, ASAllows, AS!SavedValue
  <2>4. \A i \in DOMAIN asSaves' : ASAllows(asSaves[i].data)'
    <3> SUFFICES ASSUME NEW i \in DOMAIN asSaves'
                 PROVE  ASAllows(asSaves[i].data)'
      OBVIOUS
    <3>1. CASE i \in DOMAIN asSaves /\ asSaves'[i] = asSaves[i]
      BY <2>1, <3>1 DEF ASInv, ASSaveInv, ASAllAreAllowed, ASAllows, AS!SavedValue
    <3>2. CASE asSaves'[i].operation = n /\ asSaves'[i].data = data'
      BY <2>2, <3>2 DEF ASAllows, AS!SavedValue
    <3> QED
      BY <1>10, <3>1, <3>2
  <2> QED
    BY <2>2, <2>3, <2>4 DEF ASAllAreAllowed
<1>24. ASSaveInv'
  BY <1>10, <1>20, <1>22, <1>23 DEF ASSaveInv
<1> QED
  BY <1>12, <1>13, <1>14, <1>15, <1>16, <1>17, <1>18, <1>19, <1>24 DEF ASInv, ASObjectInv

(* An object that is there is saved again: the database does not change, nor does what the
   other saves are of. *)
LEMMA ASResaved ==
  ASSUME ASInv, NEW o \in DOMAIN objects, AS!UpdateJson(objects, o, 0),
         \A m \in DOMAIN asOperations : ASUnborn(asOperations[m]) => asOperations[m].object # o,
         UNCHANGED <<objects, applications, asDisk, allowed, doubled, stale>>
  PROVE  /\ data' \in [Name -> ASSaved] /\ asSaves' \in Seq(ASSave)
         /\ AS!SavedIsWhatRuns' /\ ASLastSaveIsData' /\ ASAllAreAllowed'
         /\ \A i \in DOMAIN asSaves' :
              \/ i \in DOMAIN asSaves /\ asSaves'[i] = asSaves[i]
              \/ asSaves'[i].operation = 0
<1>1. CASE objects[o].deleted
  <2>1. UNCHANGED <<data, asSaves>>
    BY <1>1 DEF AS!UpdateJson
  <2>2. AS!SavedIsWhatRuns' /\ ASLastSaveIsData'
    BY <2>1 DEF ASInv, ASSaveInv, AS!SavedIsWhatRuns, ASLastSaveIsData
  <2>3. ASAllAreAllowed'
    BY <2>1 DEF ASInv, ASSaveInv, ASAllAreAllowed, ASAllows, AS!SavedValue
  <2> QED
    BY <2>1, <2>2, <2>3 DEF ASInv, ASTypes
<1>2. CASE ~objects[o].deleted
  <2> DEFINE x == objects[o].name
             v == objects[o].settings
  <2>1. x \in Name /\ v \in ASSaved /\ o # 0
    <3>1. objects[o] \in ASObject /\ o # 0
      BY ASDomainOf DEF ASInv, ASTypes
    <3> QED
      BY <3>1 DEF ASObject, ASSaved
  <2>2. /\ data' = [data EXCEPT ![x] = v]
        /\ asSaves' = Append(asSaves, [operation |-> 0, data |-> data'])
    BY <1>2 DEF AS!UpdateJson
  <2>3. x \notin doubled => applications[x] = o /\ data[x] = v
    <3>1. CASE x \notin doubled
      <4>1. applications[x] = o
        BY <1>2, <3>1 DEF ASInv, ASObjectInv, ASOneObjectPerName
      <4> QED
        BY <2>1, <3>1, <4>1 DEF ASInv, ASSaveInv, AS!SavedIsWhatRuns
    <3> QED
      BY <3>1
  <2> HIDE DEF x, v
  <2>4. /\ data' \in [Name -> ASSaved] /\ asSaves' \in Seq(ASSave) /\ data'[x] = v
        /\ \A y \in Name : y # x => data'[y] = data[y]
        /\ ASLastSaveIsData'
        /\ \A i \in DOMAIN asSaves' :
             \/ i \in DOMAIN asSaves /\ asSaves'[i] = asSaves[i]
             \/ asSaves'[i].operation = 0 /\ asSaves'[i].data = data'
    BY <2>1, <2>2, ASSaves DEF ASInv
  <2>5. \A y \in Name \ doubled : data'[y] = data[y]
    BY <2>3, <2>4
  <2>6. AS!SavedIsWhatRuns'
    BY <2>5 DEF ASInv, ASSaveInv, AS!SavedIsWhatRuns
  <2>7. ASSUME NEW d, ASAllows(d)
        PROVE  ASAllows(d)'
    BY <2>7 DEF ASAllows, AS!SavedValue
  <2>8. ASAllows(data)'
    BY <2>5 DEF ASAllows, AS!SavedValue, ASInv, ASSaveInv, ASAllAreAllowed
  <2>9. ASAllows(asDisk)'
    BY <2>7 DEF ASInv, ASSaveInv, ASAllAreAllowed, ASAllows, AS!SavedValue
  <2>10. \A i \in DOMAIN asSaves' : ASAllows(asSaves[i].data)'
    <3> SUFFICES ASSUME NEW i \in DOMAIN asSaves'
                 PROVE  ASAllows(asSaves[i].data)'
      OBVIOUS
    <3>1. CASE i \in DOMAIN asSaves /\ asSaves'[i] = asSaves[i]
      BY <3>1 DEF ASInv, ASSaveInv, ASAllAreAllowed, ASAllows, AS!SavedValue
    <3>2. CASE asSaves'[i].data = data'
      BY <2>8, <3>2 DEF ASAllows, AS!SavedValue
    <3> QED
      BY <2>4, <3>1, <3>2
  <2> QED
    BY <2>4, <2>6, <2>8, <2>9, <2>10 DEF ASAllAreAllowed
<1> QED
  BY <1>1, <1>2

LEMMA ASOthersWrote ==
  ASSUME ASTypes, ASSavesAreOf, asSpent' \in Nat, asSpent <= asSpent',
         \A i \in DOMAIN asSaves' :
           \/ i \in DOMAIN asSaves /\ asSaves'[i] = asSaves[i]
           \/ asSaves'[i].operation = 0,
         \A m \in DOMAIN asOperations' :
           /\ m # 0 /\ m \in DOMAIN asOperations
           /\ (asOperations[m].step \in {"save", "finish"} => asOperations'[m] = asOperations[m])
  PROVE  ASSavesAreOf'
<1> SUFFICES ASSUME NEW i \in DOMAIN asSaves'
             PROVE  /\ asSaves'[i].operation <= asSpent'
                    /\ asSaves'[i].operation \in DOMAIN asOperations' =>
                         ASWrote(asOperations'[asSaves'[i].operation], asSaves'[i].operation,
                               asSaves'[i].data)
  BY DEF ASSavesAreOf, ASWrote
<1>1. CASE i \in DOMAIN asSaves /\ asSaves'[i] = asSaves[i]
  <2> DEFINE n == asSaves[i].operation
             d == asSaves[i].data
  <2>1. n \in Nat /\ n <= asSpent /\ asSpent \in Nat
    <3>1. asSaves[i] \in ASSave
      BY <1>1, ASDomainOf DEF ASTypes
    <3> QED
      BY <1>1, <3>1 DEF ASTypes, ASSave, ASSavesAreOf
  <2>2. n \in DOMAIN asOperations => ASWrote(asOperations[n], n, d)
    BY <1>1 DEF ASSavesAreOf
  <2>3. asSaves'[i].operation = n /\ asSaves'[i].data = d
    BY <1>1
  <2> HIDE DEF n, d
  <2>4. n \in DOMAIN asOperations' => n \in DOMAIN asOperations /\ asOperations'[n] = asOperations[n]
    BY <2>2 DEF ASWrote
  <2> QED
    BY <2>1, <2>2, <2>3, <2>4
<1>2. CASE asSaves'[i].operation = 0
  BY <1>2
<1> QED
  BY <1>1, <1>2

LEMMA ASRegistersStep ==
  ASSUME ASConstants, ASInv, NEW o \in DOMAIN objects, AS!Registers(o)
  PROVE  ASInv'
<1>1. /\ AS!EventMayHappen /\ asSpent' = AS!This /\ AS!UpdateJson(objects, o, 0)
      /\ UNCHANGED <<objects, applications, asOperations, asDisk, allowed, doubled, stale, joined>>
      /\ \A m \in DOMAIN asOperations : ASUnborn(asOperations[m]) => asOperations[m].object # o
  BY DEF AS!Registers, AS!Ghosts, ASUnborn
<1>2. asSpent \in Nat /\ asSpent' \in Nat /\ asSpent <= asSpent' /\ asSpent' <= asMaxEvents
  BY <1>1 DEF ASInv, ASTypes, AS!EventMayHappen, AS!This, ASConstants
<1>3. \A m \in DOMAIN asOperations : m # 0
  BY DEF ASInv, ASTypes
<1>4. /\ data' \in [Name -> ASSaved] /\ asSaves' \in Seq(ASSave)
      /\ AS!SavedIsWhatRuns' /\ ASLastSaveIsData' /\ ASAllAreAllowed'
      /\ \A i \in DOMAIN asSaves' :
           \/ i \in DOMAIN asSaves /\ asSaves'[i] = asSaves[i]
           \/ asSaves'[i].operation = 0
  BY <1>1, ASResaved
<1>5. ASSavesAreOf'
  BY <1>1, <1>2, <1>3, <1>4, ASOthersWrote DEF ASInv, ASSaveInv
<1>6. ASTypes'
  <2>1. DOMAIN asOperations' \subseteq 1 .. asSpent'
    BY <1>1, <1>2 DEF ASInv, ASTypes
  <2> QED
    BY <1>1, <1>2, <1>4, <2>1 DEF ASInv, ASTypes
<1>7. ASObjectInv'
  <2>1. ASOperationsAreOn' /\ ASUnbornIsNew' /\ ASInstalledIsThere' /\ ASOneObjectPerName'
    BY <1>1 DEF ASInv, ASObjectInv, ASOperationsAreOn, ASUnbornIsNew, ASInstalledIsThere,
       ASInstalls, ASOneObjectPerName, ASUnborn
  <2>2. ASHolderIsBusy' /\ ASParentIsOther' /\ ASFamilyTakesTurns'
    BY <1>1 DEF ASInv, ASObjectInv, ASHolderIsBusy, ASParentIsOther, ASFamilyTakesTurns
  <2>3. ASNewIsReady'
    BY <1>1 DEF ASInv, ASObjectInv, ASNewIsReady, ASStepsOfKind, ASReady, ASUnborn
  <2> QED
    BY <2>1, <2>2, <2>3 DEF ASObjectInv
<1> QED
  BY <1>4, <1>5, <1>6, <1>7 DEF ASInv, ASSaveInv

(* An update has its version: the new settings are the version's over those there are. *)
LEMMA ASUpdateDownloadedStep ==
  ASSUME ASConstants, ASInv, NEW n \in DOMAIN asOperations, AS!UpdateDownloaded(n)
  PROVE  ASInv'
<1> DEFINE o == asOperations[n].object
           v == AS!ApplySettings(asOperations[n].keys, [k \in Setting |-> n], objects[o].settings)
           new == [asOperations[n] EXCEPT !.step = "stop", !.new = v]
<1>1. /\ asOperations[n].step = "download" /\ asOperations' = [asOperations EXCEPT ![n] = new]
      /\ AS!UpdateJson(objects, o, 0)
      /\ UNCHANGED <<objects, applications, asDisk, asSpent, allowed, doubled, stale, joined>>
  <2>1. asOperations' = [asOperations EXCEPT ![n].step = "stop", ![n].new = v]
    BY DEF AS!UpdateDownloaded
  <2> HIDE DEF v
  <2>2. asOperations' = [asOperations EXCEPT ![n] = new]
    BY <2>1
  <2> QED
    BY <2>2 DEF AS!UpdateDownloaded, AS!Ghosts
<1>2. /\ asSpent \in Nat /\ asSpent <= asMaxEvents /\ n \in 1 .. asSpent /\ o \in DOMAIN objects
      /\ asOperations[n] \in ASOperation /\ \A m \in DOMAIN asOperations : m # 0
  BY DEF ASInv, ASTypes, ASObjectInv, ASOperationsAreOn
<1>3. objects[o].settings \in AS!Settings
  <2>1. objects[o] \in ASObject
    BY <1>2, ASDomainOf DEF ASInv, ASTypes
  <2> QED
    BY <2>1 DEF ASObject
<1>4. v \in AS!Settings /\ (\A k \in asOperations[n].keys : v[k] = n)
      /\ \A k \in Setting \ asOperations[n].keys : v[k] = objects[o].settings[k]
  <2>1. n \in 0 .. asMaxEvents
    BY <1>2 DEF ASConstants
  <2>2. asOperations[n].keys \subseteq Setting
    BY <1>2 DEF ASOperation
  <2> QED
    BY <1>3, <2>1, <2>2 DEF AS!ApplySettings, AS!Settings
<1>5. asOperations[n].kind \in {"change", "remove", "update"} /\ ASStepsOfKind(asOperations[n])
  <2>1. ASStepsOfKind(asOperations[n])
    BY DEF ASInv, ASObjectInv, ASNewIsReady
  <2> QED
    BY <1>1, <1>2, <2>1 DEF ASStepsOfKind, ASOperation
<1> HIDE DEF v, o
<1>6. /\ new \in ASOperation /\ ASSame(asOperations[n], new) /\ new.step = "stop" /\ new.new = v
  BY <1>2, <1>4 DEF ASOperation, ASSame
<1> HIDE DEF new
<1>7. /\ asOperations' \in [DOMAIN asOperations' -> ASOperation]
      /\ DOMAIN asOperations' = DOMAIN asOperations /\ asOperations'[n] = new
      /\ \A m \in DOMAIN asOperations : m # n => asOperations'[m] = asOperations[m]
  BY <1>1, <1>6 DEF ASInv, ASTypes
<1>8. ~ASUnborn(asOperations[n]) /\ ~ASUnborn(new)
  BY <1>1, <1>6 DEF ASUnborn
<1>9. \A m \in DOMAIN asOperations :
        /\ ASSame(asOperations[m], asOperations'[m])
        /\ (ASUnborn(asOperations'[m]) <=> ASUnborn(asOperations[m]))
        /\ (asOperations'[m].step \in ASHolding <=> asOperations[m].step \in ASHolding)
  BY <1>1, <1>6, <1>7, <1>8 DEF ASSame, ASHolding
<1>10. \A m \in DOMAIN asOperations : ASUnborn(asOperations[m]) => asOperations[m].object # o
  BY <1>8 DEF ASInv, ASObjectInv, ASUnbornIsNew, o
<1>11. /\ data' \in [Name -> ASSaved] /\ asSaves' \in Seq(ASSave)
       /\ AS!SavedIsWhatRuns' /\ ASLastSaveIsData' /\ ASAllAreAllowed'
       /\ \A i \in DOMAIN asSaves' :
            \/ i \in DOMAIN asSaves /\ asSaves'[i] = asSaves[i]
            \/ asSaves'[i].operation = 0
  BY <1>1, <1>2, <1>10, ASResaved
<1>12. ASTypes'
  BY <1>1, <1>7, <1>11 DEF ASInv, ASTypes
<1>13. ASSavesAreOf'
  <2>1. \A m \in DOMAIN asOperations' :
          /\ m # 0 /\ m \in DOMAIN asOperations
          /\ (asOperations[m].step \in {"save", "finish"} => asOperations'[m] = asOperations[m])
    BY <1>1, <1>2, <1>7
  <2>2. asSpent' \in Nat /\ asSpent <= asSpent'
    BY <1>1, <1>2
  <2> QED
    BY <1>11, <2>1, <2>2, ASOthersWrote DEF ASInv, ASSaveInv
<1>14. ASOperationsAreOn' /\ ASUnbornIsNew' /\ ASInstalledIsThere' /\ ASOneObjectPerName'
  <2>1. \A m \in DOMAIN asOperations' : ASGoes(m)
    BY <1>7, <1>9 DEF ASGoes, ASUnborn
  <2>2. \A m \in DOMAIN asOperations : ASUnborn(asOperations[m]) =>
           /\ m \in DOMAIN asOperations' /\ ASUnborn(asOperations[m])'
           /\ objects'[asOperations[m].object].busy = 0
           /\ objects'[asOperations[m].object].settings = objects[asOperations[m].object].settings
    BY <1>1, <1>7, <1>9 DEF ASUnborn, ASInv, ASObjectInv, ASUnbornIsNew
  <2> QED
    BY <1>1, <2>1, <2>2, ASNamesStay DEF ASInv
<1>15. ASParentIsOther' /\ ASFamilyTakesTurns'
  BY <1>1, ASFamilyStays DEF ASInv
<1>16. ASHolderIsBusy'
  BY <1>1, <1>7, <1>9 DEF ASInv, ASObjectInv, ASHolderIsBusy, ASSame
<1>17. ASNewIsReady'
  <2> SUFFICES ASSUME NEW m \in DOMAIN asOperations'
               PROVE  LET op == asOperations'[m] IN
                      /\ ASStepsOfKind(op)
                      /\ ASReady(op) => op.new \in AS!Settings /\ \A k \in op.keys : op.new[k] = m
                      /\ op.kind # "remove" /\ op.step = "stop"
                           /\ (op.kind = "change" => ~op.waited) =>
                           \A k \in Setting \ op.keys :
                             op.new[k] = objects'[op.object].settings[k]
    BY DEF ASNewIsReady, AS!Settings, ASReady, ASStepsOfKind, ASUnborn
  <2>1. CASE m = n
    <3>1. ASStepsOfKind(new)
      BY <1>5, <1>6 DEF ASStepsOfKind, ASSame, ASUnborn
    <3>2. /\ new.keys = asOperations[n].keys /\ new.object = o
      BY <1>6 DEF ASSame, o
    <3> QED
      BY <1>1, <1>4, <1>6, <1>7, <2>1, <3>1, <3>2
  <2>2. CASE m # n
    BY <1>1, <1>7, <2>2 DEF ASInv, ASObjectInv, ASNewIsReady
  <2> QED
    BY <2>1, <2>2
<1> QED
  BY <1>11, <1>12, <1>13, <1>14, <1>15, <1>16, <1>17 DEF ASInv, ASObjectInv, ASSaveInv

LEMMA ASUncertainNow ==
  ASSUME ASTypes, NEW x \in Name, NEW keys \in SUBSET Setting, NEW v \in ASValues,
         allowed' = AS!Uncertain(x, keys, v)
  PROVE  /\ allowed' \in [Name -> [Setting -> SUBSET ASValues]]
         /\ \A k \in keys : allowed'[x][k] = allowed[x][k] \union {v}
         /\ \A k \in Setting \ keys : allowed'[x][k] = allowed[x][k]
         /\ \A y \in Name : y # x => allowed'[y] = allowed[y]
<1>1. allowed \in [Name -> [Setting -> SUBSET ASValues]]
  BY DEF ASTypes
<1> DEFINE row == [k \in Setting |-> IF k \in keys THEN allowed[x][k] \union {v}
                                     ELSE allowed[x][k]]
<1>2. allowed' = [allowed EXCEPT ![x] = row]
  BY DEF AS!Uncertain
<1>3. row \in [Setting -> SUBSET ASValues]
  BY <1>1
<1>4. /\ \A k \in keys : row[k] = allowed[x][k] \union {v}
      /\ \A k \in Setting \ keys : row[k] = allowed[x][k]
  OBVIOUS
<1> HIDE DEF row
<1> QED
  BY <1>1, <1>2, <1>3, <1>4

-----------------------------------------------------------------------------
(* The new settings are put in place and saved. *)
LEMMA ASApplyNewSettingsStep ==
  ASSUME ASConstants, ASInv, NEW n \in DOMAIN asOperations, AS!ApplyNewSettings(n)
  PROVE  ASInv'
<1> DEFINE o == asOperations[n].object
           x == asOperations[n].name
           v == asOperations[n].new
           keys == asOperations[n].keys
           lost == {k \in Setting \ keys : objects[o].settings[k] # v[k]}
           late == asOperations[n].kind = "change" /\ asOperations[n].waited
<1>1. /\ asOperations[n].step = "stop" /\ asOperations[n].kind # "remove" /\ ~objects[o].deleted
      /\ objects' = [objects EXCEPT ![o].settings = v] /\ AS!UpdateJson(objects', o, n)
      /\ asOperations' = AS!AtStep(n, "save") /\ allowed' = AS!Uncertain(x, keys, n)
      /\ stale' = IF late THEN stale \union ({x} \X lost) ELSE stale
      /\ UNCHANGED <<applications, asDisk, asSpent, doubled, joined>>
  BY DEF AS!ApplyNewSettings
<1>2. /\ n \in Nat /\ n # 0 /\ asSpent \in Nat /\ n <= asSpent /\ x \in Name /\ o \in DOMAIN objects
      /\ o # 0 /\ keys \in SUBSET Setting /\ objects[o].name = x
      /\ \A m \in DOMAIN asOperations : m # 0
  <2>1. asOperations[n] \in ASOperation /\ n \in 1 .. asSpent /\ asSpent \in Nat
    BY DEF ASInv, ASTypes
  <2>2. o \in DOMAIN objects /\ objects[o].name = x /\ o # 0
    BY ASDomainOf DEF ASInv, ASTypes, ASObjectInv, ASOperationsAreOn
  <2>3. \A m \in DOMAIN asOperations : m # 0
    BY DEF ASInv, ASTypes
  <2> QED
    BY <2>1, <2>2, <2>3 DEF ASOperation
<1>3. /\ v \in AS!Settings /\ (\A k \in keys : v[k] = n)
      /\ (~late => \A k \in Setting \ keys : v[k] = objects[o].settings[k])
  BY <1>1 DEF ASInv, ASObjectInv, ASNewIsReady, ASReady
<1>4. ~ASUnborn(asOperations[n]) /\ objects[o].busy = n /\ ASStepsOfKind(asOperations[n])
      /\ asOperations[n].kind # "add"
  BY <1>1 DEF ASUnborn, ASInv, ASObjectInv, ASNewIsReady, ASStepsOfKind, ASHolderIsBusy,
     ASHolding
<1>5. x \notin doubled => applications[x] = o /\ data[x] = objects[o].settings
  <2>1. CASE x \notin doubled
    <3>1. \A m \in DOMAIN asOperations : ASUnborn(asOperations[m]) => asOperations[m].object # o
      BY <1>4 DEF ASInv, ASObjectInv, ASUnbornIsNew
    <3>2. applications[x] = o
      BY <1>1, <1>2, <2>1, <3>1 DEF ASInv, ASObjectInv, ASOneObjectPerName
    <3> QED
      BY <1>2, <2>1, <3>2 DEF ASInv, ASSaveInv, AS!SavedIsWhatRuns
  <2> QED
    BY <2>1
<1>6. late => \A k \in Setting : <<x, k>> \notin stale' /\ k \notin keys
        => v[k] = objects[o].settings[k]
  BY <1>1
<1> HIDE DEF o, x, v, keys, lost, late
<1>7. /\ objects' \in Seq(ASObject) /\ DOMAIN objects' = DOMAIN objects
      /\ objects'[o].name = objects[o].name /\ objects'[o].settings = v
      /\ objects'[o].busy = objects[o].busy
      /\ objects'[o].deleted = objects[o].deleted /\ objects'[o].parent = objects[o].parent
      /\ \A p \in DOMAIN objects : p # o => objects'[p] = objects[p]
  BY <1>1, <1>2, <1>3, ASSettingsFacts DEF ASInv, ASTypes
<1>8. \A p \in DOMAIN objects :
        /\ objects'[p].name = objects[p].name /\ objects'[p].busy = objects[p].busy
        /\ objects'[p].deleted = objects[p].deleted /\ objects'[p].parent = objects[p].parent
  BY <1>7
<1>9. /\ asOperations' \in [DOMAIN asOperations' -> ASOperation]
      /\ DOMAIN asOperations' = DOMAIN asOperations /\ DOMAIN asOperations' \subseteq 1 .. asSpent'
      /\ ASSame(asOperations[n], asOperations'[n]) /\ asOperations'[n].step = "save"
      /\ \A m \in DOMAIN asOperations : m # n => asOperations'[m] = asOperations[m]
  BY <1>1, <1>2, ASAtStepFacts DEF ASInv
<1>10. /\ asOperations'[n].object = o /\ asOperations'[n].name = x /\ asOperations'[n].keys = keys
       /\ asOperations'[n].kind = asOperations[n].kind /\ ~ASUnborn(asOperations'[n])
  BY <1>9 DEF ASSame, ASUnborn, o, x, keys
<1>11. /\ data' = [data EXCEPT ![x] = v]
       /\ asSaves' = Append(asSaves, [operation |-> n, data |-> data'])
       /\ v \in ASSaved
  BY <1>1, <1>2, <1>3, <1>7 DEF AS!UpdateJson, ASSaved
<1>12. /\ data' \in [Name -> ASSaved] /\ asSaves' \in Seq(ASSave) /\ data'[x] = v
       /\ \A y \in Name : y # x => data'[y] = data[y]
       /\ ASLastSaveIsData'
       /\ \A i \in DOMAIN asSaves' :
            \/ i \in DOMAIN asSaves /\ asSaves'[i] = asSaves[i]
            \/ asSaves'[i].operation = n /\ asSaves'[i].data = data'
  BY <1>2, <1>11, ASSaves DEF ASInv
<1>13. /\ allowed' \in [Name -> [Setting -> SUBSET ASValues]]
       /\ \A k \in keys : allowed'[x][k] = allowed[x][k] \union {n}
       /\ \A k \in Setting \ keys : allowed'[x][k] = allowed[x][k]
       /\ \A y \in Name : y # x => allowed'[y] = allowed[y]
  <2>1. n \in ASValues /\ x \in Name /\ keys \in SUBSET Setting
    BY <1>2 DEF ASValues
  <2>2. allowed' = AS!Uncertain(x, keys, n)
    BY <1>1
  <2> QED
    BY <2>1, <2>2, ASUncertainNow DEF ASInv
<1>14. ASTypes'
  BY <1>1, <1>7, <1>9, <1>12, <1>13 DEF ASInv, ASTypes
<1>15. ASOperationsAreOn' /\ ASUnbornIsNew' /\ ASInstalledIsThere' /\ ASOneObjectPerName'
  <2>1. \A m \in DOMAIN asOperations' : ASGoes(m)
    BY <1>9, <1>10 DEF ASGoes, ASSame, ASUnborn
  <2>2. \A m \in DOMAIN asOperations : ASUnborn(asOperations[m]) =>
           /\ m \in DOMAIN asOperations' /\ ASUnborn(asOperations[m])'
           /\ objects'[asOperations[m].object].busy = 0
           /\ objects'[asOperations[m].object].settings = objects[asOperations[m].object].settings
    <3> SUFFICES ASSUME NEW m \in DOMAIN asOperations, ASUnborn(asOperations[m])
                 PROVE  /\ m \in DOMAIN asOperations' /\ ASUnborn(asOperations[m])'
                        /\ objects'[asOperations[m].object].busy = 0
                        /\ objects'[asOperations[m].object].settings
                             = objects[asOperations[m].object].settings
      OBVIOUS
    <3>1. m # n
      BY <1>4
    <3>2. asOperations[m].object # o /\ asOperations[m].object \in DOMAIN objects
      BY <3>1 DEF ASInv, ASObjectInv, ASUnbornIsNew, ASOperationsAreOn, o
    <3>3. objects[asOperations[m].object].busy = 0
      BY DEF ASInv, ASObjectInv, ASUnbornIsNew
    <3> QED
      BY <1>7, <1>9, <3>1, <3>2, <3>3 DEF ASUnborn
  <2> QED
    BY <1>1, <1>7, <1>8, <2>1, <2>2, ASNamesStay DEF ASInv
<1>16. ASParentIsOther' /\ ASFamilyTakesTurns'
  BY <1>1, <1>7, <1>8, ASFamilyStays DEF ASInv
<1>17. ASHolderIsBusy'
  <2> SUFFICES ASSUME NEW m \in DOMAIN asOperations', asOperations'[m].step \in ASHolding
               PROVE  objects'[asOperations'[m].object].busy = m
    BY DEF ASHolderIsBusy
  <2>1. CASE m = n
    BY <1>2, <1>4, <1>8, <1>10, <2>1
  <2>2. CASE m # n
    BY <1>8, <1>9, <2>2 DEF ASInv, ASObjectInv, ASHolderIsBusy, ASOperationsAreOn
  <2> QED
    BY <2>1, <2>2
<1>18. ASNewIsReady'
  <2> SUFFICES ASSUME NEW m \in DOMAIN asOperations'
               PROVE  LET w == asOperations'[m] IN
                      /\ ASStepsOfKind(w)
                      /\ ASReady(w) => w.new \in AS!Settings /\ \A k \in w.keys : w.new[k] = m
                      /\ w.kind # "remove" /\ w.step = "stop"
                           /\ (w.kind = "change" => ~w.waited) =>
                           \A k \in Setting \ w.keys :
                             w.new[k] = objects'[w.object].settings[k]
    BY DEF ASNewIsReady, AS!Settings, ASReady, ASStepsOfKind, ASUnborn
  <2>1. CASE m = n
    <3>1. ASStepsOfKind(asOperations'[n])
      BY <1>4, <1>9 DEF ASStepsOfKind, ASSame, ASUnborn
    <3>2. ~ASReady(asOperations'[n])
      BY <1>9 DEF ASReady
    <3> QED
      BY <1>9, <2>1, <3>1, <3>2
  <2>2. CASE m # n
    <3>1. m \in DOMAIN asOperations /\ asOperations'[m] = asOperations[m]
      BY <1>9, <2>2
    <3>2. asOperations[m].step = "stop" => asOperations[m].object # o
      BY <1>4, <2>2, <3>1 DEF ASInv, ASObjectInv, ASHolderIsBusy, ASHolding
    <3>3. asOperations[m].object \in DOMAIN objects
      BY <3>1 DEF ASInv, ASObjectInv, ASOperationsAreOn
    <3> QED
      BY <1>7, <3>1, <3>2, <3>3 DEF ASInv, ASObjectInv, ASNewIsReady
  <2> QED
    BY <2>1, <2>2
<1>19. AS!SavedIsWhatRuns'
  <2> SUFFICES ASSUME NEW y \in Name \ doubled
               PROVE  data'[y] = IF applications[y] = 0 THEN asNone
                                 ELSE objects'[applications[y]].settings
    BY <1>1 DEF AS!SavedIsWhatRuns
  <2>1. CASE y = x
    BY <1>2, <1>5, <1>7, <1>12, <2>1
  <2>2. CASE y # x
    <3>1. applications[y] # 0 => applications[y] \in DOMAIN objects /\ applications[y] # o
      BY <1>2, <2>2 DEF ASInv, ASObjectInv, ASInstalledIsThere, ASInstalls
    <3> QED
      BY <1>7, <1>12, <2>2, <3>1 DEF ASInv, ASSaveInv, AS!SavedIsWhatRuns
  <2> QED
    BY <2>1, <2>2
<1>20. v # asNone
  BY <1>3 DEF ASConstants
<1>21. ASSavesAreOf'
  <2>1. ASSUME NEW m \in DOMAIN asOperations', NEW d, ASWrote(asOperations[m], m, d), m \in DOMAIN asOperations
        PROVE  ASWrote(asOperations'[m], m, d)
    <3>1. m # n
      BY <1>1, <2>1 DEF ASWrote
    <3> QED
      BY <1>9, <2>1, <3>1
  <2>2. ASWrote(asOperations'[n], n, data')
    BY <1>1, <1>3, <1>9, <1>10, <1>12, <1>20 DEF ASWrote
  <2> SUFFICES ASSUME NEW i \in DOMAIN asSaves'
               PROVE  /\ asSaves'[i].operation <= asSpent
                      /\ asSaves'[i].operation \in DOMAIN asOperations' =>
                           ASWrote(asOperations'[asSaves'[i].operation], asSaves'[i].operation,
                                 asSaves'[i].data)
    BY <1>1 DEF ASSavesAreOf, ASWrote
  <2>4. CASE i \in DOMAIN asSaves /\ asSaves'[i] = asSaves[i]
    BY <1>9, <2>1, <2>4 DEF ASInv, ASSaveInv, ASSavesAreOf
  <2>5. CASE asSaves'[i].operation = n /\ asSaves'[i].data = data'
    BY <1>2, <2>2, <2>5
  <2> QED
    BY <1>12, <2>4, <2>5
<1>22. ASAllAreAllowed'
  <2>0. stale \subseteq stale' /\ doubled' = doubled
    BY <1>1
  <2>1. ASSUME NEW d, ASAllows(d)
        PROVE  ASAllows(d)'
    BY <1>2, <1>13, <2>0, <2>1 DEF ASAllows, AS!SavedValue
  <2>2. ASAllows(data)'
    <3> SUFFICES ASSUME NEW y \in Name \ doubled, NEW k \in Setting, <<y, k>> \notin stale'
                 PROVE  AS!SavedValue(data'[y], k) \in allowed'[y][k]
      BY <2>0 DEF ASAllows, AS!SavedValue
    <3>0. AS!SavedValue(data[y], k) \in allowed[y][k]
      BY <2>0 DEF ASInv, ASSaveInv, ASAllAreAllowed, ASAllows
    <3>1. CASE y = x /\ k \in keys
      <4>1. AS!SavedValue(data'[x], k) = n
        BY <1>3, <1>12, <1>20, <3>1 DEF AS!SavedValue
      <4> QED
        BY <1>13, <3>1, <4>1
    <3>2. CASE y = x /\ k \notin keys
      <4>1. v[k] = objects[o].settings[k]
        BY <1>3, <1>6, <3>2
      <4>2. AS!SavedValue(data'[x], k) = AS!SavedValue(data[x], k)
        <5>1. data[x] = objects[o].settings /\ data[x] # asNone
          <6>1. objects[o] \in ASObject
            BY <1>2, ASDomainOf DEF ASInv, ASTypes
          <6> QED
            BY <1>5, <3>2, <6>1 DEF ASObject, ASConstants
        <5> QED
          BY <1>12, <1>20, <4>1, <5>1 DEF AS!SavedValue
      <4> QED
        BY <1>13, <3>0, <3>2, <4>2
    <3>3. CASE y # x
      BY <1>12, <1>13, <3>0, <3>3
    <3> QED
      BY <3>1, <3>2, <3>3
  <2>3. ASAllows(asDisk)'
    BY <1>1, <2>1 DEF ASInv, ASSaveInv, ASAllAreAllowed, ASAllows, AS!SavedValue
  <2>4. \A i \in DOMAIN asSaves' : ASAllows(asSaves[i].data)'
    <3> SUFFICES ASSUME NEW i \in DOMAIN asSaves'
                 PROVE  ASAllows(asSaves[i].data)'
      OBVIOUS
    <3>1. CASE i \in DOMAIN asSaves /\ asSaves'[i] = asSaves[i]
      BY <2>1, <3>1 DEF ASInv, ASSaveInv, ASAllAreAllowed, ASAllows, AS!SavedValue
    <3>2. CASE asSaves'[i].operation = n /\ asSaves'[i].data = data'
      BY <2>2, <3>2 DEF ASAllows, AS!SavedValue
    <3> QED
      BY <1>12, <3>1, <3>2
  <2> QED
    BY <2>2, <2>3, <2>4 DEF ASAllAreAllowed
<1>23. ASSaveInv'
  BY <1>12, <1>19, <1>21, <1>22 DEF ASSaveInv
<1> QED
  BY <1>14, <1>15, <1>16, <1>17, <1>18, <1>23 DEF ASInv, ASObjectInv

(* An application is removed: its name's object is deleted, and the name leaves the
   database. *)
LEMMA ASRemoveStoppedStep ==
  ASSUME ASConstants, ASInv, NEW n \in DOMAIN asOperations, AS!RemoveStopped(n)
  PROVE  ASInv'
<1> DEFINE x == asOperations[n].name
           o == applications[x]
<1>1. /\ asOperations[n].step = "stop" /\ asOperations[n].kind = "remove" /\ o # 0
      /\ objects' = AS!DeletedIn(objects, o) /\ applications' = [applications EXCEPT ![x] = 0]
      /\ data' = [data EXCEPT ![x] = asNone]
      /\ asSaves' = Append(asSaves, [operation |-> n, data |-> data'])
      /\ asOperations' = AS!AtStep(n, "save") /\ allowed' = AS!Uncertain(x, Setting, asNone)
      /\ UNCHANGED <<asDisk, asSpent, doubled, stale, joined>>
  BY DEF AS!RemoveStopped
<1>2. /\ n \in Nat /\ n # 0 /\ asSpent \in Nat /\ n <= asSpent /\ x \in Name
      /\ asNone \in ASSaved /\ asNone \in ASValues
  <2>1. asOperations[n] \in ASOperation /\ n \in 1 .. asSpent /\ asSpent \in Nat
    BY DEF ASInv, ASTypes
  <2> QED
    BY <2>1 DEF ASOperation, ASSaved, ASValues
<1>3. ASInstalls(x, o) /\ \A m \in DOMAIN asOperations : ASUnborn(asOperations[m]) => asOperations[m].object # o
  BY <1>1, <1>2 DEF ASInv, ASObjectInv, ASInstalledIsThere
<1>4. ~ASUnborn(asOperations[n]) /\ ASStepsOfKind(asOperations[n])
  BY <1>1 DEF ASUnborn, ASInv, ASObjectInv, ASNewIsReady
<1>5. o \in DOMAIN objects /\ objects[o].name = x
  BY <1>3 DEF ASInstalls
<1> HIDE DEF x, o
<1>6. /\ objects' \in Seq(ASObject) /\ DOMAIN objects' = DOMAIN objects
      /\ \A p \in DOMAIN objects :
           /\ objects'[p].name = objects[p].name /\ objects'[p].settings = objects[p].settings
           /\ (objects'[p].deleted <=> objects[p].deleted \/ p = o)
           /\ objects'[p].parent \in {0, objects[p].parent}
           /\ objects'[p].busy = objects[p].busy
  BY <1>1, ASDeletedFacts DEF ASInv, ASTypes
<1>7. /\ asOperations' \in [DOMAIN asOperations' -> ASOperation]
      /\ DOMAIN asOperations' = DOMAIN asOperations /\ DOMAIN asOperations' \subseteq 1 .. asSpent'
      /\ ASSame(asOperations[n], asOperations'[n]) /\ asOperations'[n].step = "save"
      /\ \A m \in DOMAIN asOperations : m # n => asOperations'[m] = asOperations[m]
  BY <1>1, <1>2, ASAtStepFacts DEF ASInv
<1>8. /\ asOperations'[n].kind = "remove" /\ asOperations'[n].name = x /\ ~ASUnborn(asOperations'[n])
      /\ asOperations'[n].object = asOperations[n].object
  BY <1>1, <1>7 DEF ASSame, ASUnborn, x
<1>9. /\ applications' \in [Name -> Nat] /\ applications'[x] = 0
      /\ \A y \in Name : y # x => applications'[y] = applications[y]
  BY <1>1, <1>2 DEF ASInv, ASTypes
<1>10. /\ data' \in [Name -> ASSaved] /\ asSaves' \in Seq(ASSave) /\ data'[x] = asNone
       /\ \A y \in Name : y # x => data'[y] = data[y]
       /\ ASLastSaveIsData'
       /\ \A i \in DOMAIN asSaves' :
            \/ i \in DOMAIN asSaves /\ asSaves'[i] = asSaves[i]
            \/ asSaves'[i].operation = n /\ asSaves'[i].data = data'
  BY <1>1, <1>2, ASSaves DEF ASInv
<1>11. /\ allowed' \in [Name -> [Setting -> SUBSET ASValues]]
       /\ \A k \in Setting : allowed'[x][k] = allowed[x][k] \union {asNone}
       /\ \A y \in Name : y # x => allowed'[y] = allowed[y]
  <2>1. Setting \in SUBSET Setting /\ allowed' = AS!Uncertain(x, Setting, asNone)
    BY <1>1
  <2> QED
    BY <1>2, <2>1, ASUncertainNow DEF ASInv
<1>12. ASTypes'
  BY <1>1, <1>6, <1>7, <1>9, <1>10, <1>11 DEF ASInv, ASTypes
<1>13. \A m \in DOMAIN asOperations' : ASUnborn(asOperations'[m]) =>
         /\ m \in DOMAIN asOperations /\ m # n /\ asOperations'[m] = asOperations[m]
         /\ ASUnborn(asOperations[m]) /\ asOperations[m].object # o
  BY <1>3, <1>7, <1>8
<1>14. ASOperationsAreOn'
  <2>1. \A m \in DOMAIN asOperations' :
          /\ m \in DOMAIN asOperations /\ asOperations'[m].object = asOperations[m].object
          /\ asOperations'[m].name = asOperations[m].name
    BY <1>7 DEF ASSame
  <2> QED
    BY <1>6, <2>1 DEF ASInv, ASObjectInv, ASOperationsAreOn
<1>15. ASUnbornIsNew'
  <2> SUFFICES ASSUME NEW m \in DOMAIN asOperations', ASUnborn(asOperations'[m])
               PROVE  /\ ~objects'[asOperations'[m].object].deleted
                      /\ objects'[asOperations'[m].object].busy = 0
                      /\ objects'[asOperations'[m].object].settings = [k \in Setting |-> m]
                      /\ \A i \in DOMAIN asOperations' : i # m =>
                           asOperations'[i].object # asOperations'[m].object
    BY DEF ASUnbornIsNew, ASUnborn
  <2>1. /\ m \in DOMAIN asOperations /\ m # n /\ asOperations'[m] = asOperations[m]
        /\ ASUnborn(asOperations[m]) /\ asOperations[m].object # o
    BY <1>13
  <2>2. /\ ~objects[asOperations[m].object].deleted
        /\ objects[asOperations[m].object].busy = 0
        /\ objects[asOperations[m].object].settings = [k \in Setting |-> m]
        /\ \A i \in DOMAIN asOperations : i # m => asOperations[i].object # asOperations[m].object
    BY <2>1 DEF ASInv, ASObjectInv, ASUnbornIsNew
  <2>3. asOperations[m].object \in DOMAIN objects
    BY <2>1 DEF ASInv, ASObjectInv, ASOperationsAreOn
  <2>4. \A i \in DOMAIN asOperations' : i # m => asOperations'[i].object # asOperations'[m].object
    BY <1>7, <1>8, <2>1, <2>2
  <2>5. ~objects'[asOperations[m].object].deleted
    BY <1>6, <2>1, <2>2, <2>3
  <2>6. objects'[asOperations[m].object].busy = 0
    BY <1>6, <2>2, <2>3
  <2>7. objects'[asOperations[m].object].settings = [k \in Setting |-> m]
    BY <1>6, <2>2, <2>3
  <2> QED
    BY <2>1, <2>4, <2>5, <2>6, <2>7
<1>16. ASInstalledIsThere'
  <2> SUFFICES ASSUME NEW y \in Name, applications'[y] # 0
               PROVE  /\ ASInstalls(y, applications[y])'
                      /\ \A m \in DOMAIN asOperations' :
                           ASUnborn(asOperations'[m]) => asOperations'[m].object # applications'[y]
    BY DEF ASInstalledIsThere, ASUnborn
  <2>1. y # x /\ applications'[y] = applications[y]
    BY <1>9
  <2>2. /\ ASInstalls(y, applications[y])
        /\ \A m \in DOMAIN asOperations :
             ASUnborn(asOperations[m]) => asOperations[m].object # applications[y]
    BY <2>1 DEF ASInv, ASObjectInv, ASInstalledIsThere
  <2>3. applications[y] # o
    BY <1>5, <2>1, <2>2 DEF ASInstalls
  <2>4. ASInstalls(y, applications[y])'
    BY <1>6, <2>1, <2>2, <2>3 DEF ASInstalls
  <2> QED
    BY <1>13, <2>1, <2>2, <2>4
<1>17. ASOneObjectPerName'
  <2> SUFFICES ASSUME NEW p \in DOMAIN objects, ~objects'[p].deleted,
                      objects'[p].name \notin doubled
               PROVE  \/ applications'[objects'[p].name] = p
                      \/ \E m \in DOMAIN asOperations' :
                           ASUnborn(asOperations'[m]) /\ asOperations'[m].object = p
    BY <1>1, <1>6 DEF ASOneObjectPerName, ASUnborn
  <2>1. p # o /\ ~objects[p].deleted /\ objects[p].name = objects'[p].name
    BY <1>6
  <2>2. objects[p].name \in Name
    <3>1. objects[p] \in ASObject
      BY ASDomainOf DEF ASInv, ASTypes
    <3> QED
      BY <3>1 DEF ASObject
  <2>3. \/ applications[objects[p].name] = p
        \/ \E m \in DOMAIN asOperations : ASUnborn(asOperations[m]) /\ asOperations[m].object = p
    BY <2>1 DEF ASInv, ASObjectInv, ASOneObjectPerName
  <2>4. CASE applications[objects[p].name] = p
    <3>1. objects[p].name # x
      BY <2>1, <2>4 DEF o
    <3> QED
      BY <1>9, <2>1, <2>2, <2>4, <3>1
  <2>5. CASE \E m \in DOMAIN asOperations : ASUnborn(asOperations[m]) /\ asOperations[m].object = p
    <3>1. PICK m \in DOMAIN asOperations : ASUnborn(asOperations[m]) /\ asOperations[m].object = p
      BY <2>5
    <3>2. m # n
      BY <1>4, <3>1
    <3> QED
      BY <1>7, <3>1, <3>2
  <2> QED
    BY <2>3, <2>4, <2>5
<1>18. ASParentIsOther' /\ ASFamilyTakesTurns'
  BY <1>1, <1>6, ASFamilyStays DEF ASInv
<1>19. ASHolderIsBusy'
  <2> SUFFICES ASSUME NEW m \in DOMAIN asOperations', asOperations'[m].step \in ASHolding
               PROVE  objects'[asOperations'[m].object].busy = m
    BY DEF ASHolderIsBusy
  <2>1. m \in DOMAIN asOperations /\ asOperations[m].step \in ASHolding
        /\ asOperations'[m].object = asOperations[m].object
    BY <1>1, <1>7, <1>8 DEF ASHolding
  <2>2. asOperations[m].object \in DOMAIN objects /\ objects[asOperations[m].object].busy = m
    BY <2>1 DEF ASInv, ASObjectInv, ASHolderIsBusy, ASOperationsAreOn
  <2> QED
    BY <1>6, <2>1, <2>2
<1>20. ASNewIsReady'
  <2>1. ASStepsOfKind(asOperations[n])' /\ ~ASReady(asOperations[n])'
    BY <1>4, <1>7, <1>8 DEF ASStepsOfKind, ASReady, ASUnborn, ASSame
  <2>2. \A m \in DOMAIN asOperations' :
           /\ m \in DOMAIN asOperations
           /\ \/ asOperations'[m] = asOperations[m]
              \/ /\ ASSame(asOperations[m], asOperations'[m]) /\ ASStepsOfKind(asOperations[m])'
                 /\ ~ASReady(asOperations[m])'
    BY <1>7, <2>1
  <2> QED
    BY <1>6, <2>2, ASReadyStays DEF ASInv
<1>21. AS!SavedIsWhatRuns'
  <2> SUFFICES ASSUME NEW y \in Name \ doubled
               PROVE  data'[y] = IF applications'[y] = 0 THEN asNone
                                 ELSE objects'[applications'[y]].settings
    BY <1>1 DEF AS!SavedIsWhatRuns
  <2>1. CASE y = x
    BY <1>9, <1>10, <2>1
  <2>2. CASE y # x
    <3>1. applications[y] # 0 => applications[y] \in DOMAIN objects
      BY DEF ASInv, ASObjectInv, ASInstalledIsThere, ASInstalls
    <3> QED
      BY <1>6, <1>9, <1>10, <2>2, <3>1 DEF ASInv, ASSaveInv, AS!SavedIsWhatRuns
  <2> QED
    BY <2>1, <2>2
<1>22. ASSavesAreOf'
  <2>1. ASSUME NEW m \in DOMAIN asOperations', NEW d, ASWrote(asOperations[m], m, d), m \in DOMAIN asOperations
        PROVE  ASWrote(asOperations'[m], m, d)
    <3>1. m # n
      BY <1>1, <2>1 DEF ASWrote
    <3> QED
      BY <1>7, <2>1, <3>1
  <2>2. ASWrote(asOperations'[n], n, data')
    BY SMTT(30), <1>7, <1>8, <1>10 DEF ASWrote
  <2> SUFFICES ASSUME NEW i \in DOMAIN asSaves'
               PROVE  /\ asSaves'[i].operation <= asSpent
                      /\ asSaves'[i].operation \in DOMAIN asOperations' =>
                           ASWrote(asOperations'[asSaves'[i].operation], asSaves'[i].operation,
                                 asSaves'[i].data)
    BY <1>1 DEF ASSavesAreOf, ASWrote
  <2>4. CASE i \in DOMAIN asSaves /\ asSaves'[i] = asSaves[i]
    BY <1>7, <2>1, <2>4 DEF ASInv, ASSaveInv, ASSavesAreOf
  <2>5. CASE asSaves'[i].operation = n /\ asSaves'[i].data = data'
    BY <1>2, <2>2, <2>5
  <2> QED
    BY <1>10, <2>4, <2>5
<1>23. ASAllAreAllowed'
  <2>1. ASSUME NEW d, ASAllows(d)
        PROVE  ASAllows(d)'
    BY <1>1, <1>2, <1>11, <2>1 DEF ASAllows, AS!SavedValue
  <2>2. ASAllows(data)'
    <3> SUFFICES ASSUME NEW y \in Name \ doubled, NEW k \in Setting, <<y, k>> \notin stale
                 PROVE  AS!SavedValue(data'[y], k) \in allowed'[y][k]
      BY <1>1 DEF ASAllows, AS!SavedValue
    <3>1. CASE y = x
      BY <1>10, <1>11, <3>1 DEF AS!SavedValue
    <3>2. CASE y # x
      BY <1>10, <1>11, <3>2 DEF ASInv, ASSaveInv, ASAllAreAllowed, ASAllows
    <3> QED
      BY <3>1, <3>2
  <2>3. ASAllows(asDisk)'
    BY <1>1, <2>1 DEF ASInv, ASSaveInv, ASAllAreAllowed, ASAllows, AS!SavedValue
  <2>4. \A i \in DOMAIN asSaves' : ASAllows(asSaves[i].data)'
    <3> SUFFICES ASSUME NEW i \in DOMAIN asSaves'
                 PROVE  ASAllows(asSaves[i].data)'
      OBVIOUS
    <3>1. CASE i \in DOMAIN asSaves /\ asSaves'[i] = asSaves[i]
      BY <2>1, <3>1 DEF ASInv, ASSaveInv, ASAllAreAllowed, ASAllows, AS!SavedValue
    <3>2. CASE asSaves'[i].operation = n /\ asSaves'[i].data = data'
      BY <2>2, <3>2 DEF ASAllows, AS!SavedValue
    <3> QED
      BY <1>10, <3>1, <3>2
  <2> QED
    BY <2>2, <2>3, <2>4 DEF ASAllAreAllowed
<1>24. ASSaveInv'
  BY <1>10, <1>21, <1>22, <1>23 DEF ASSaveInv
<1> QED
  BY <1>12, <1>14, <1>15, <1>16, <1>17, <1>18, <1>19, <1>20, <1>24 DEF ASInv, ASObjectInv

-----------------------------------------------------------------------------
(* A save comes to its end: what is left of the saves. *)
LEMMA ASSavesGoOn ==
  ASSUME ASTypes, ASSaveInv, asSaves # <<>>, asSaves' = Tail(asSaves), data' = data,
         asSpent' \in Nat, asSpent <= asSpent', NEW n, n = Head(asSaves).operation,
         \A m \in DOMAIN asOperations' :
           /\ m \in DOMAIN asOperations /\ ASSame(asOperations[m], asOperations'[m])
           /\ (asOperations[m].step \in {"save", "finish"} =>
                 asOperations'[m].step \in {"save", "finish"})
  PROVE  /\ asSaves' \in Seq(ASSave) /\ Head(asSaves) \in ASSave /\ ASLastSaveIsData' /\ ASSavesAreOf'
         /\ (n \in DOMAIN asOperations => ASWrote(asOperations[n], n, Head(asSaves).data))
         /\ 1 \in DOMAIN asSaves /\ Head(asSaves) = asSaves[1]
         /\ \A i \in DOMAIN asSaves' : i + 1 \in DOMAIN asSaves /\ asSaves'[i] = asSaves[i + 1]
         /\ \/ asSaves' = <<>> /\ data = Head(asSaves).data
            \/ \E i \in DOMAIN asSaves' : asSaves'[i].data = data
<1>1. /\ asSaves' \in Seq(ASSave) /\ Head(asSaves) = asSaves[1] /\ asSaves[1] \in ASSave /\ 1 \in DOMAIN asSaves
      /\ \A i \in DOMAIN asSaves' : i + 1 \in DOMAIN asSaves /\ asSaves'[i] = asSaves[i + 1]
      /\ (asSaves' # <<>> => Len(asSaves') \in DOMAIN asSaves' /\ Len(asSaves') + 1 = Len(asSaves))
      /\ (asSaves' = <<>> => Len(asSaves) = 1)
  BY ASShortened DEF ASTypes
<1>2. asSaves[Len(asSaves)].data = data
  BY DEF ASSaveInv, ASLastSaveIsData
<1>3. asSaves' # <<>> => asSaves'[Len(asSaves')].data = data
  BY <1>1, <1>2
<1>4. ASLastSaveIsData'
  BY <1>3 DEF ASLastSaveIsData
<1>5. ASSavesAreOf'
  <2> SUFFICES ASSUME NEW i \in DOMAIN asSaves'
               PROVE  /\ asSaves'[i].operation <= asSpent'
                      /\ asSaves'[i].operation \in DOMAIN asOperations' =>
                           ASWrote(asOperations'[asSaves'[i].operation], asSaves'[i].operation,
                                 asSaves'[i].data)
    BY DEF ASSavesAreOf, ASWrote
  <2>1. PICK j \in DOMAIN asSaves : asSaves'[i] = asSaves[j]
    BY <1>1
  <2> DEFINE m == asSaves[j].operation
             d == asSaves[j].data
  <2>2. m \in Nat /\ m <= asSpent /\ asSpent \in Nat
    <3>1. asSaves[j] \in ASSave
      BY ASDomainOf DEF ASTypes
    <3> QED
      BY <3>1 DEF ASTypes, ASSave, ASSaveInv, ASSavesAreOf
  <2>3. m \in DOMAIN asOperations => ASWrote(asOperations[m], m, d)
    BY DEF ASSaveInv, ASSavesAreOf
  <2>4. asSaves'[i].operation = m /\ asSaves'[i].data = d
    BY <2>1
  <2> HIDE DEF m, d
  <2>5. m \in DOMAIN asOperations' => ASWrote(asOperations'[m], m, d)
    <3> SUFFICES ASSUME m \in DOMAIN asOperations'
                 PROVE  ASWrote(asOperations'[m], m, d)
      OBVIOUS
    <3>1. /\ m \in DOMAIN asOperations /\ ASSame(asOperations[m], asOperations'[m])
          /\ (asOperations[m].step \in {"save", "finish"} =>
                asOperations'[m].step \in {"save", "finish"})
      OBVIOUS
    <3> QED
      BY <2>3, <3>1 DEF ASWrote, ASSame
  <2> QED
    BY <2>2, <2>4, <2>5
<1>6. n \in DOMAIN asOperations => ASWrote(asOperations[n], n, Head(asSaves).data)
  <2> DEFINE d == Head(asSaves).data
  <2>1. asSaves[1].operation = n /\ asSaves[1].data = d
    BY <1>1
  <2> HIDE DEF d
  <2>2. n \in DOMAIN asOperations => ASWrote(asOperations[n], n, d)
    BY <1>1, <2>1 DEF ASSaveInv, ASSavesAreOf
  <2> QED
    BY <2>2 DEF d
<1> QED
  BY <1>1, <1>2, <1>3, <1>4, <1>5, <1>6

LEMMA ASOperationsRest ==
  ASSUME ASTypes, ASObjectInv, UNCHANGED <<objects, applications, asOperations, doubled, joined>>,
         asSpent' \in Nat, asSpent <= asSpent'
  PROVE  /\ ASObjectInv' /\ asOperations' \in [DOMAIN asOperations' -> ASOperation]
         /\ DOMAIN asOperations' \subseteq 1 .. asSpent'
         /\ \A m \in DOMAIN asOperations' :
              /\ m \in DOMAIN asOperations /\ ASSame(asOperations[m], asOperations'[m])
              /\ (asOperations[m].step \in {"save", "finish"} =>
                    asOperations'[m].step \in {"save", "finish"})
<1>1. ASOperationsAreOn' /\ ASUnbornIsNew' /\ ASInstalledIsThere' /\ ASOneObjectPerName'
  BY DEF ASObjectInv, ASOperationsAreOn, ASUnbornIsNew, ASInstalledIsThere, ASInstalls,
     ASOneObjectPerName, ASUnborn
<1>2. ASHolderIsBusy' /\ ASParentIsOther' /\ ASFamilyTakesTurns'
  BY DEF ASObjectInv, ASHolderIsBusy, ASParentIsOther, ASFamilyTakesTurns
<1>3. ASNewIsReady'
  BY DEF ASObjectInv, ASNewIsReady, ASStepsOfKind, ASReady, ASUnborn
<1>4. /\ asOperations' \in [DOMAIN asOperations' -> ASOperation]
      /\ DOMAIN asOperations' \subseteq 1 .. asSpent'
      /\ \A m \in DOMAIN asOperations' :
           /\ m \in DOMAIN asOperations /\ ASSame(asOperations[m], asOperations'[m])
           /\ (asOperations[m].step \in {"save", "finish"} =>
                 asOperations'[m].step \in {"save", "finish"})
  BY DEF ASTypes, ASSame
<1> QED
  BY <1>1, <1>2, <1>3, <1>4 DEF ASObjectInv

LEMMA ASSaveFailsStep ==
  ASSUME ASConstants, ASInv, AS!SaveFails
  PROVE  ASInv'
<1> DEFINE n == Head(asSaves).operation
<1>1. /\ AS!EventMayHappen /\ asSpent' = AS!This /\ asSaves # <<>> /\ asSaves' = Tail(asSaves)
      /\ asOperations' = IF n \in DOMAIN asOperations THEN AS!AtStep(n, "finish") ELSE asOperations
      /\ UNCHANGED <<objects, applications, data, asDisk, allowed, doubled, stale, joined>>
  BY DEF AS!SaveFails, AS!Ghosts
<1>2. asSpent \in Nat /\ asSpent' \in Nat /\ asSpent <= asSpent' /\ asSpent' <= asMaxEvents
  BY <1>1 DEF ASInv, ASTypes, AS!EventMayHappen, AS!This, ASConstants
<1>3. n \in DOMAIN asOperations => asOperations[n].step \in {"save", "finish"}
  <2>1. Head(asSaves) = asSaves[1] /\ 1 \in DOMAIN asSaves
    BY <1>1, ASShortened DEF ASInv, ASTypes
  <2>2. n = asSaves[1].operation
    BY <2>1
  <2> HIDE DEF n
  <2>3. n \in DOMAIN asOperations => ASWrote(asOperations[n], n, asSaves[1].data)
    BY <2>1, <2>2 DEF ASInv, ASSaveInv, ASSavesAreOf
  <2> QED
    BY <2>3 DEF ASWrote
<1> HIDE DEF n
<1>4. /\ ASObjectInv' /\ asOperations' \in [DOMAIN asOperations' -> ASOperation]
      /\ DOMAIN asOperations' \subseteq 1 .. asSpent'
      /\ \A m \in DOMAIN asOperations' :
           /\ m \in DOMAIN asOperations /\ ASSame(asOperations[m], asOperations'[m])
           /\ (asOperations[m].step \in {"save", "finish"} =>
                 asOperations'[m].step \in {"save", "finish"})
  <2>1. CASE n \in DOMAIN asOperations
    BY <1>1, <1>2, <1>3, <2>1, ASMoved DEF ASInv
  <2>2. CASE n \notin DOMAIN asOperations
    BY <1>1, <1>2, <2>2, ASOperationsRest DEF ASInv
  <2> QED
    BY <2>1, <2>2
<1>5. /\ asSaves' \in Seq(ASSave) /\ ASLastSaveIsData' /\ ASSavesAreOf'
      /\ \A i \in DOMAIN asSaves' : i + 1 \in DOMAIN asSaves /\ asSaves'[i] = asSaves[i + 1]
  BY <1>1, <1>2, <1>4, ASSavesGoOn DEF ASInv
<1>6. ASTypes'
  BY <1>1, <1>2, <1>4, <1>5 DEF ASInv, ASTypes
<1>7. AS!SavedIsWhatRuns'
  BY <1>1 DEF ASInv, ASSaveInv, AS!SavedIsWhatRuns
<1>8. ASAllAreAllowed'
  <2>1. \A i \in DOMAIN asSaves' : ASAllows(asSaves[i].data)'
    <3> SUFFICES ASSUME NEW i \in DOMAIN asSaves'
                 PROVE  ASAllows(asSaves[i].data)'
      OBVIOUS
    <3>1. PICK j \in DOMAIN asSaves : asSaves'[i] = asSaves[j]
      BY <1>5
    <3> QED
      BY <1>1, <3>1 DEF ASInv, ASSaveInv, ASAllAreAllowed, ASAllows, AS!SavedValue
  <2>2. ASAllows(data)' /\ ASAllows(asDisk)'
    BY <1>1 DEF ASInv, ASSaveInv, ASAllAreAllowed, ASAllows, AS!SavedValue
  <2> QED
    BY <2>1, <2>2 DEF ASAllAreAllowed
<1> QED
  BY <1>4, <1>5, <1>6, <1>7, <1>8 DEF ASInv, ASSaveInv

(* What a caller is told of: its values, and those of later saves. *)
LEMMA ASAcknowledgedFacts ==
  ASSUME ASTypes, asSaves' \in Seq(ASSave), NEW op \in ASOperation, NEW n \in Nat, asMaxEvents \in Nat
  PROVE  LET after == AS!Acknowledged(op, n, asSaves') IN
         /\ after \in [Name -> [Setting -> SUBSET ASValues]]
         /\ \A x \in Name : x # op.name => after[x] = allowed[x]
         /\ \A k \in Setting : op.kind # "remove" /\ k \notin op.keys =>
              after[op.name][k] = allowed[op.name][k]
         /\ \A k \in Setting : op.kind # "remove" /\ k \in op.keys =>
              /\ n \in after[op.name][k]
              /\ \A i \in DOMAIN asSaves' :
                   AS!SavedValue(asSaves'[i].data[op.name], k) \in after[op.name][k]
         /\ \A k \in Setting : op.kind = "remove" =>
              /\ asNone \in after[op.name][k]
              /\ \A i \in DOMAIN asSaves' :
                   AS!SavedValue(asSaves'[i].data[op.name], k) \in after[op.name][k]
<1> DEFINE x == op.name
           later(k) == {AS!SavedValue(asSaves'[i].data[x], k) : i \in DOMAIN asSaves'}
           row == [k \in Setting |-> IF op.kind = "remove" THEN {asNone} \union later(k)
                                     ELSE IF k \in op.keys THEN {n} \union later(k)
                                     ELSE allowed[x][k]]
<1>1. x \in Name /\ allowed \in [Name -> [Setting -> SUBSET ASValues]]
  BY DEF ASTypes, ASOperation
<1>2. AS!Acknowledged(op, n, asSaves') = [allowed EXCEPT ![x] = row]
  BY DEF AS!Acknowledged
<1>3. ASSUME NEW i \in DOMAIN asSaves', NEW k \in Setting
      PROVE  AS!SavedValue(asSaves'[i].data[x], k) \in ASValues
  <2>1. asSaves'[i] \in ASSave
    BY ASDomainOf
  <2>2. asSaves'[i].data[x] \in AS!Settings \union {asNone}
    BY <1>1, <2>1 DEF ASSave, ASSaved
  <2> QED
    BY <2>2 DEF AS!SavedValue, ASValues, AS!Settings
<1>4. \A k \in Setting : later(k) \subseteq ASValues
  BY <1>3
<1> HIDE DEF x
<1>5. /\ \A k \in Setting : \A i \in DOMAIN asSaves' : AS!SavedValue(asSaves'[i].data[x], k) \in later(k)
  OBVIOUS
<1> HIDE DEF later
<1>6. row \in [Setting -> SUBSET ASValues]
  BY <1>1, <1>4 DEF ASValues
<1>7. \A k \in Setting :
        /\ op.kind = "remove" => row[k] = {asNone} \union later(k)
        /\ op.kind # "remove" /\ k \in op.keys => row[k] = {n} \union later(k)
        /\ op.kind # "remove" /\ k \notin op.keys => row[k] = allowed[x][k]
  OBVIOUS
<1> HIDE DEF row
<1>8. /\ [allowed EXCEPT ![x] = row] \in [Name -> [Setting -> SUBSET ASValues]]
      /\ [allowed EXCEPT ![x] = row][x] = row
      /\ \A y \in Name : y # x => [allowed EXCEPT ![x] = row][y] = allowed[y]
  BY <1>1, <1>6
<1>9. x = op.name
  BY DEF x
<1> QED
  BY <1>2, <1>5, <1>7, <1>8, <1>9

LEMMA ASSaveFinishesStep ==
  ASSUME ASConstants, ASInv, AS!SaveFinishes
  PROVE  ASInv'
<1> DEFINE n == Head(asSaves).operation
           written == Head(asSaves).data
<1>1. /\ asSaves # <<>> /\ asSaves' = Tail(asSaves) /\ asDisk' = written
      /\ IF n \in DOMAIN asOperations
         THEN /\ asOperations' = AS!AtStep(n, "finish")
              /\ allowed' = AS!Acknowledged(asOperations[n], n, asSaves')
              /\ stale' = stale \ ({asOperations[n].name} \X asOperations[n].keys)
         ELSE UNCHANGED <<asOperations, allowed, stale>>
      /\ UNCHANGED <<objects, applications, data, asSpent, doubled, joined>>
  BY DEF AS!SaveFinishes
<1>2. asSpent \in Nat /\ asSpent' \in Nat /\ asSpent <= asSpent' /\ asMaxEvents \in Nat
  BY <1>1 DEF ASInv, ASTypes, ASConstants
<1>3. n \in DOMAIN asOperations => asOperations[n].step \in {"save", "finish"}
  <2>1. Head(asSaves) = asSaves[1] /\ 1 \in DOMAIN asSaves
    BY <1>1, ASShortened DEF ASInv, ASTypes
  <2>2. n = asSaves[1].operation
    BY <2>1
  <2> HIDE DEF n
  <2>3. n \in DOMAIN asOperations => ASWrote(asOperations[n], n, asSaves[1].data)
    BY <2>1, <2>2 DEF ASInv, ASSaveInv, ASSavesAreOf
  <2> QED
    BY <2>3 DEF ASWrote
<1> HIDE DEF n, written
<1>4. /\ ASObjectInv' /\ asOperations' \in [DOMAIN asOperations' -> ASOperation]
      /\ DOMAIN asOperations' \subseteq 1 .. asSpent'
      /\ \A m \in DOMAIN asOperations' :
           /\ m \in DOMAIN asOperations /\ ASSame(asOperations[m], asOperations'[m])
           /\ (asOperations[m].step \in {"save", "finish"} =>
                 asOperations'[m].step \in {"save", "finish"})
  <2>1. CASE n \in DOMAIN asOperations
    BY <1>1, <1>2, <1>3, <2>1, ASMoved DEF ASInv
  <2>2. CASE n \notin DOMAIN asOperations
    BY <1>1, <1>2, <2>2, ASOperationsRest DEF ASInv
  <2> QED
    BY <2>1, <2>2
<1>5. /\ asSaves' \in Seq(ASSave) /\ Head(asSaves) \in ASSave /\ ASLastSaveIsData' /\ ASSavesAreOf'
      /\ (n \in DOMAIN asOperations => ASWrote(asOperations[n], n, written))
      /\ 1 \in DOMAIN asSaves /\ Head(asSaves) = asSaves[1]
      /\ \A i \in DOMAIN asSaves' : i + 1 \in DOMAIN asSaves /\ asSaves'[i] = asSaves[i + 1]
      /\ \/ asSaves' = <<>> /\ data = written
         \/ \E i \in DOMAIN asSaves' : asSaves'[i].data = data
  BY <1>1, <1>2, <1>4, ASSavesGoOn DEF ASInv, n, written
<1>6. written \in [Name -> ASSaved] /\ n \in Nat /\ ASAllows(written)
  <2>1. ASAllows(written)
    BY <1>5 DEF ASInv, ASSaveInv, ASAllAreAllowed, written
  <2> QED
    BY <1>5, <2>1 DEF ASSave, n, written
<1>7. AS!SavedIsWhatRuns'
  BY <1>1 DEF ASInv, ASSaveInv, AS!SavedIsWhatRuns
<1>8. \A i \in DOMAIN asSaves' : ASAllows(asSaves'[i].data)
  BY <1>5 DEF ASInv, ASSaveInv, ASAllAreAllowed
<1>9. CASE n \notin DOMAIN asOperations
  <2>1. UNCHANGED <<asOperations, allowed, stale, doubled>>
    BY <1>1, <1>9
  <2>2. ASSUME NEW d, ASAllows(d)
        PROVE  ASAllows(d)'
    BY <2>1, <2>2 DEF ASAllows, AS!SavedValue
  <2>3. ASAllows(asDisk)' /\ ASAllows(data)'
    BY <1>1, <1>6, <2>1 DEF ASInv, ASSaveInv, ASAllAreAllowed, ASAllows, AS!SavedValue
  <2>4. \A i \in DOMAIN asSaves' : ASAllows(asSaves[i].data)'
    BY <1>8, <2>1 DEF ASAllows, AS!SavedValue
  <2>5. ASTypes'
    BY <1>1, <1>2, <1>4, <1>5, <1>6, <2>1 DEF ASInv, ASTypes
  <2> QED
    BY <1>4, <1>5, <1>7, <2>3, <2>4, <2>5 DEF ASInv, ASSaveInv, ASAllAreAllowed
<1>10. CASE n \in DOMAIN asOperations
  <2> DEFINE op == asOperations[n]
             x == asOperations[n].name
             keys == asOperations[n].keys
             kind == asOperations[n].kind
  <2>1. op \in ASOperation /\ x \in Name
    BY <1>10 DEF ASInv, ASTypes, ASOperation
  <2>2. /\ allowed' = AS!Acknowledged(op, n, asSaves') /\ stale' = stale \ ({x} \X keys)
        /\ doubled' = doubled
    BY <1>1, <1>10
  <2>3. /\ kind = "remove" => written[x] = asNone
        /\ kind # "remove" => written[x] # asNone /\ \A k \in keys : written[x][k] = n
    BY <1>5, <1>10 DEF ASWrote
  <2>4. kind = "remove" => keys = {}
    BY <1>10 DEF ASInv, ASObjectInv, ASNewIsReady, ASStepsOfKind
  <2>5. /\ allowed' \in [Name -> [Setting -> SUBSET ASValues]]
        /\ \A y \in Name : y # x => allowed'[y] = allowed[y]
        /\ \A k \in Setting : kind # "remove" /\ k \notin keys => allowed'[x][k] = allowed[x][k]
        /\ \A k \in Setting : kind # "remove" /\ k \in keys =>
             /\ n \in allowed'[x][k]
             /\ \A i \in DOMAIN asSaves' : AS!SavedValue(asSaves'[i].data[x], k) \in allowed'[x][k]
        /\ \A k \in Setting : kind = "remove" =>
             /\ asNone \in allowed'[x][k]
             /\ \A i \in DOMAIN asSaves' : AS!SavedValue(asSaves'[i].data[x], k) \in allowed'[x][k]
    <3> HIDE DEF op
    <3>1. x = op.name /\ keys = op.keys /\ kind = op.kind
      BY DEF op
    <3> HIDE DEF x, keys, kind
    <3>2. allowed' \in [Name -> [Setting -> SUBSET ASValues]]
      BY <1>2, <1>5, <1>6, <2>1, <2>2, ASAcknowledgedFacts DEF ASInv
    <3>3. \A y \in Name : y # x => allowed'[y] = allowed[y]
      BY <1>2, <1>5, <1>6, <2>1, <2>2, <3>1, ASAcknowledgedFacts DEF ASInv
    <3>4. \A k \in Setting : kind # "remove" /\ k \notin keys => allowed'[x][k] = allowed[x][k]
      BY <1>2, <1>5, <1>6, <2>1, <2>2, <3>1, ASAcknowledgedFacts DEF ASInv
    <3>5. \A k \in Setting : kind # "remove" /\ k \in keys =>
            /\ n \in allowed'[x][k]
            /\ \A i \in DOMAIN asSaves' : AS!SavedValue(asSaves'[i].data[x], k) \in allowed'[x][k]
      BY <1>2, <1>5, <1>6, <2>1, <2>2, <3>1, ASAcknowledgedFacts DEF ASInv
    <3>6. \A k \in Setting : kind = "remove" =>
            /\ asNone \in allowed'[x][k]
            /\ \A i \in DOMAIN asSaves' : AS!SavedValue(asSaves'[i].data[x], k) \in allowed'[x][k]
      BY <1>2, <1>5, <1>6, <2>1, <2>2, <3>1, ASAcknowledgedFacts DEF ASInv
    <3> QED
      BY <3>2, <3>3, <3>4, <3>5, <3>6
  <2> HIDE DEF op, x, keys, kind
  <2>6. ASSUME NEW d, ASAllows(d),
               \A k \in Setting : kind = "remove" \/ k \in keys =>
                 AS!SavedValue(d[x], k) \in allowed'[x][k]
        PROVE  ASAllows(d)'
    <3> SUFFICES ASSUME NEW y \in Name \ doubled, NEW k \in Setting, <<y, k>> \notin stale'
                 PROVE  AS!SavedValue(d[y], k) \in allowed'[y][k]
      BY <2>2 DEF ASAllows, AS!SavedValue
    <3>1. <<y, k>> \notin stale => AS!SavedValue(d[y], k) \in allowed[y][k]
      BY <2>6 DEF ASAllows
    <3>2. CASE y = x /\ (kind = "remove" \/ k \in keys)
      BY <2>6, <3>2
    <3>3. CASE y = x /\ kind # "remove" /\ k \notin keys
      BY <2>2, <2>5, <3>1, <3>3
    <3>4. CASE y # x
      BY <2>2, <2>5, <3>1, <3>4
    <3> QED
      BY <3>2, <3>3, <3>4
  <2>7. \A k \in Setting : kind = "remove" \/ k \in keys =>
          AS!SavedValue(written[x], k) \in allowed'[x][k]
    BY <2>3, <2>5 DEF AS!SavedValue
  <2>8. \A i \in DOMAIN asSaves' : \A k \in Setting : kind = "remove" \/ k \in keys =>
          AS!SavedValue(asSaves'[i].data[x], k) \in allowed'[x][k]
    BY <2>5
  <2>9. \A k \in Setting : kind = "remove" \/ k \in keys =>
          AS!SavedValue(data[x], k) \in allowed'[x][k]
    <3>1. CASE asSaves' = <<>> /\ data = written
      BY <2>7, <3>1
    <3>2. CASE \E i \in DOMAIN asSaves' : asSaves'[i].data = data
      BY <2>8, <3>2
    <3> QED
      BY <1>5, <3>1, <3>2
  <2>10. ASAllows(asDisk)'
    <3>1. ASAllows(written) /\ asDisk' = written
      BY <1>1, <1>6
    <3> QED
      BY <2>6, <2>7, <3>1 DEF ASAllows, AS!SavedValue
  <2>11. ASAllows(data)'
    <3>1. ASAllows(data) /\ data' = data
      BY <1>1 DEF ASInv, ASSaveInv, ASAllAreAllowed
    <3> QED
      BY <2>6, <2>9, <3>1 DEF ASAllows, AS!SavedValue
  <2>12. \A i \in DOMAIN asSaves' : ASAllows(asSaves[i].data)'
    <3> SUFFICES ASSUME NEW i \in DOMAIN asSaves'
                 PROVE  ASAllows(asSaves[i].data)'
      OBVIOUS
    <3> DEFINE d == asSaves'[i].data
    <3>1. ASAllows(d)
      BY <1>8
    <3>2. \A k \in Setting : kind = "remove" \/ k \in keys => AS!SavedValue(d[x], k) \in allowed'[x][k]
      BY <2>8
    <3> HIDE DEF d
    <3>3. \A y \in Name \ doubled : \A k \in Setting :
            <<y, k>> \notin stale' => AS!SavedValue(d[y], k) \in allowed'[y][k]
      <4> SUFFICES ASSUME NEW y \in Name \ doubled, NEW k \in Setting, <<y, k>> \notin stale'
                   PROVE  AS!SavedValue(d[y], k) \in allowed'[y][k]
        OBVIOUS
      <4>1. <<y, k>> \notin stale => AS!SavedValue(d[y], k) \in allowed[y][k]
        BY <3>1 DEF ASAllows
      <4>2. CASE y = x /\ (kind = "remove" \/ k \in keys)
        BY <3>2, <4>2
      <4>3. CASE y = x /\ kind # "remove" /\ k \notin keys
        BY <2>2, <2>5, <4>1, <4>3
      <4>4. CASE y # x
        BY <2>2, <2>5, <4>1, <4>4
      <4> QED
        BY <4>2, <4>3, <4>4
    <3> QED
      BY <2>2, <3>3 DEF ASAllows, AS!SavedValue, d
  <2>13. ASTypes'
    BY <1>1, <1>2, <1>4, <1>5, <1>6, <2>5 DEF ASInv, ASTypes
  <2> QED
    BY <1>4, <1>5, <1>7, <2>10, <2>11, <2>12, <2>13 DEF ASInv, ASSaveInv, ASAllAreAllowed
<1> QED
  BY <1>9, <1>10

(* Cardinality in ApplicationSettings is that of the library. *)
LEMMA ASSameCount == \A S : AS!Cardinality(S) = Cardinality(S)
BY DEF AS!Cardinality, Cardinality

-----------------------------------------------------------------------------
(* What is read from disk: an object for each name that is there. *)
LEMMA ASNamesInOrder ==
  ASSUME NEW S, IsFiniteSet(S)
  PROVE  LET names == AS!SetToSeq(S) IN
         /\ names \in Seq(S)
         /\ \A x \in S : \E i \in DOMAIN names : names[i] = x
         /\ \A i, j \in DOMAIN names : names[i] = names[j] => i = j
<1> DEFINE len == Cardinality(S)
           names == AS!SetToSeq(S)
<1>1. len \in Nat /\ ExistsBijection(1 .. len, S)
  BY FS_CardinalityType
<1>2. PICK g \in Injection(1 .. len, S) : TRUE
  BY <1>1 DEF ExistsBijection, Bijection
<1>3. g \in [1 .. len -> S] /\ IsInjective(g)
  BY <1>2 DEF Injection
<1>4. names \in [1 .. len -> S] /\ \A i, j \in DOMAIN names : names[i] = names[j] => i = j
  <2>1. \A i, j \in DOMAIN g : g[i] = g[j] => i = j
    BY <1>3 DEF IsInjective
  <2>2. names = CHOOSE f \in [1 .. len -> S] : \A i, j \in DOMAIN f : f[i] = f[j] => i = j
    BY ASSameCount DEF AS!SetToSeq, AS!IsInjective
  <2> HIDE DEF names
  <2> QED
    BY ZenonT(60), <1>3, <2>1, <2>2
<1>5. names \in Injection(1 .. len, S)
  BY <1>4 DEF Injection, IsInjective
<1>6. IsFiniteSet(1 .. len) /\ Cardinality(1 .. len) = len
  BY <1>1, FS_Interval
<1> HIDE DEF names
<1>7. names \in Surjection(1 .. len, S)
  BY <1>5, <1>6, FS_Injection
<1>8. \A i, j \in DOMAIN names : names[i] = names[j] => i = j
  BY <1>4
<1>9. \A x \in S : \E i \in DOMAIN names : names[i] = x
  BY <1>4, <1>7 DEF Surjection
<1>10. names \in Seq(S)
  BY <1>1, <1>4
<1> QED
  BY <1>8, <1>9, <1>10 DEF names

(* The database that is read gives the applications and their objects. *)
LEMMA ASReadFacts ==
  ASSUME ASConstants, NEW base \in [Name -> ASSaved]
  PROVE  LET objs == AS!ReadState(base) IN
         /\ objs \in Seq(ASObject)
         /\ \A p \in DOMAIN objs :
              /\ objs[p].busy = 0 /\ ~objs[p].deleted /\ objs[p].name \in Name
              /\ objs[p].settings = base[objs[p].name] /\ AS!ObjectOf(base, objs[p].name) = p
              /\ (objs[p].parent # 0 => objs[p].parent \in DOMAIN objs /\ objs[p].parent # p)
         /\ \A x \in Name :
              /\ AS!ObjectOf(base, x) \in Nat
              /\ (AS!ObjectOf(base, x) = 0 <=> base[x] = asNone)
              /\ (base[x] # asNone =>
                    AS!ObjectOf(base, x) \in DOMAIN objs /\ objs[AS!ObjectOf(base, x)].name = x)
<1> DEFINE S == {x \in Name : base[x] # asNone}
           names == AS!SavedNames(base)
           of(x) == AS!ObjectOf(base, x)
           objs == AS!ReadState(base)
<1>1. IsFiniteSet(S)
  BY FS_Subset DEF ASConstants
<1>2. names = AS!SetToSeq(S)
  BY DEF AS!SavedNames
<1>3. /\ names \in Seq(S)
      /\ \A x \in S : \E i \in DOMAIN names : names[i] = x
      /\ \A i, j \in DOMAIN names : names[i] = names[j] => i = j
  BY ZenonT(60), <1>1, <1>2, ASNamesInOrder
<1> HIDE DEF names
<1>4. \A i \in DOMAIN names : i \in Nat /\ i # 0 /\ names[i] \in S
  BY <1>3, ASDomainOf
<1>5. ASSUME NEW x \in Name
      PROVE  /\ of(x) \in Nat /\ (of(x) = 0 <=> base[x] = asNone)
             /\ (base[x] # asNone => of(x) \in DOMAIN names /\ names[of(x)] = x)
  <2>1. of(x) = IF base[x] = asNone THEN 0 ELSE CHOOSE i \in DOMAIN names : names[i] = x
    BY DEF AS!ObjectOf, names
  <2>2. CASE base[x] = asNone
    BY <2>1, <2>2
  <2>3. CASE base[x] # asNone
    <3>1. \E i \in DOMAIN names : names[i] = x
      BY <1>3, <2>3
    <3>2. of(x) \in DOMAIN names /\ names[of(x)] = x
      BY <2>1, <2>3, <3>1
    <3> QED
      BY <1>4, <2>3, <3>2
  <2> QED
    BY <2>2, <2>3
<1> HIDE DEF of
<1>6. ASSUME NEW p \in DOMAIN names
      PROVE  of(names[p]) = p
  <2>1. names[p] \in Name /\ base[names[p]] # asNone
    BY <1>4
  <2>2. of(names[p]) \in DOMAIN names /\ names[of(names[p])] = names[p]
    BY <1>5, <2>1
  <2> QED
    BY <1>3, <2>2
<1> DEFINE above(x) == IF Parent[x] = asNone THEN 0 ELSE of(Parent[x])
           obj(p) == [name |-> names[p], settings |-> base[names[p]], deleted |-> FALSE,
                      busy |-> 0, parent |-> above(names[p])]
<1>7. objs = [p \in DOMAIN names |-> obj(p)]
  BY DEF AS!ReadState, names, of
<1>8. ASSUME NEW p \in DOMAIN names
      PROVE  above(names[p]) \in Nat
             /\ (above(names[p]) # 0 => above(names[p]) \in DOMAIN names /\ above(names[p]) # p)
  <2>1. names[p] \in Name
    BY <1>4
  <2>2. CASE Parent[names[p]] = asNone
    BY <2>2
  <2>3. CASE Parent[names[p]] # asNone
    <3>1. Parent[names[p]] \in Name /\ Parent[names[p]] # names[p]
      BY <2>1, <2>3 DEF ASConstants
    <3>2. of(Parent[names[p]]) \in Nat
          /\ (of(Parent[names[p]]) # 0 => /\ of(Parent[names[p]]) \in DOMAIN names
                                          /\ names[of(Parent[names[p]])] = Parent[names[p]])
      BY <1>5, <3>1
    <3> QED
      BY <2>3, <3>1, <3>2
  <2> QED
    BY <2>2, <2>3
<1>9. ASSUME NEW p \in DOMAIN names
      PROVE  /\ obj(p) \in ASObject /\ obj(p).name = names[p] /\ obj(p).settings = base[names[p]]
             /\ ~obj(p).deleted /\ obj(p).busy = 0 /\ obj(p).parent = above(names[p])
  <2>1. names[p] \in Name /\ base[names[p]] \in AS!Settings
    BY <1>4 DEF ASSaved
  <2>2. above(names[p]) \in Nat
    BY <1>8
  <2> HIDE DEF above
  <2> QED
    BY <2>1, <2>2 DEF ASObject
<1> HIDE DEF obj, above, objs
<1>10. objs \in Seq(ASObject) /\ DOMAIN objs = DOMAIN names
  <2>1. DOMAIN names = 1 .. Len(names) /\ Len(names) \in Nat
    BY <1>3, ASDomainOf
  <2>2. objs \in [1 .. Len(names) -> ASObject] /\ DOMAIN objs = DOMAIN names
    BY <1>7, <1>9, <2>1
  <2> QED
    BY <2>1, <2>2, ASFunctionIsSeq
<1>11. \A p \in DOMAIN objs : objs[p] = obj(p)
  BY <1>7, <1>10
<1>12. ASSUME NEW p \in DOMAIN objs
       PROVE  /\ objs[p].busy = 0 /\ ~objs[p].deleted /\ objs[p].name \in Name
              /\ objs[p].settings = base[objs[p].name] /\ of(objs[p].name) = p
              /\ (objs[p].parent # 0 => objs[p].parent \in DOMAIN objs /\ objs[p].parent # p)
  <2>1. p \in DOMAIN names /\ names[p] \in Name
    BY <1>4, <1>10
  <2> QED
    BY <1>6, <1>8, <1>9, <1>10, <1>11, <2>1
<1>13. ASSUME NEW x \in Name, base[x] # asNone
       PROVE  of(x) \in DOMAIN objs /\ objs[of(x)].name = x
  BY <1>5, <1>9, <1>10, <1>11, <1>13
<1> QED
  BY <1>5, <1>10, <1>12, <1>13 DEF of, objs

(* The state that is read from a database is one the invariant allows: the first one, and
   the one after a restart. *)
ASIsRead ==
  /\ asDisk \in [Name -> ASSaved] /\ data = asDisk /\ asOperations = <<>> /\ asSaves = <<>>
  /\ objects = AS!ReadState(asDisk) /\ applications = [x \in Name |-> AS!ObjectOf(asDisk, x)]
  /\ asSpent \in Nat /\ asSpent <= asMaxEvents /\ allowed \in [Name -> [Setting -> SUBSET ASValues]]
  /\ ASAllows(asDisk)

LEMMA ASReadHolds == ASConstants /\ ASIsRead => ASInv
<1> SUFFICES ASSUME ASConstants, ASIsRead
             PROVE  ASInv
  OBVIOUS
<1>1. /\ objects \in Seq(ASObject)
      /\ \A p \in DOMAIN objects :
           /\ objects[p].busy = 0 /\ ~objects[p].deleted /\ objects[p].name \in Name
           /\ objects[p].settings = asDisk[objects[p].name]
           /\ AS!ObjectOf(asDisk, objects[p].name) = p
           /\ (objects[p].parent # 0 =>
                 objects[p].parent \in DOMAIN objects /\ objects[p].parent # p)
      /\ \A x \in Name :
           /\ AS!ObjectOf(asDisk, x) \in Nat
           /\ (AS!ObjectOf(asDisk, x) = 0 <=> asDisk[x] = asNone)
           /\ (asDisk[x] # asNone =>
                 AS!ObjectOf(asDisk, x) \in DOMAIN objects /\ objects[AS!ObjectOf(asDisk, x)].name = x)
  BY ASReadFacts DEF ASIsRead
<1>2. /\ applications \in [Name -> Nat]
      /\ \A p \in DOMAIN objects : applications[objects[p].name] = p
      /\ \A x \in Name :
           /\ (applications[x] = 0 <=> asDisk[x] = asNone)
           /\ (asDisk[x] # asNone =>
                 applications[x] \in DOMAIN objects /\ objects[applications[x]].name = x)
  BY <1>1 DEF ASIsRead
<1>3. DOMAIN asOperations = {} /\ DOMAIN asSaves = {}
  BY DEF ASIsRead
<1>4. ASTypes
  <2>1. asOperations \in [DOMAIN asOperations -> ASOperation] /\ DOMAIN asOperations \subseteq 1 .. asSpent
    BY <1>3
  <2>2. asSaves \in Seq(ASSave)
    BY DEF ASIsRead
  <2> QED
    BY <1>1, <1>2, <2>1, <2>2 DEF ASTypes, ASIsRead
<1>5. ASObjectInv
  <2>1. ASOperationsAreOn /\ ASUnbornIsNew /\ ASHolderIsBusy /\ ASNewIsReady
    BY <1>3 DEF ASOperationsAreOn, ASUnbornIsNew, ASHolderIsBusy, ASNewIsReady
  <2>2. ASInstalledIsThere
    BY <1>1, <1>2, <1>3 DEF ASInstalledIsThere, ASInstalls
  <2>3. ASOneObjectPerName /\ ASParentIsOther /\ ASFamilyTakesTurns
    BY <1>1, <1>2 DEF ASOneObjectPerName, ASParentIsOther, ASFamilyTakesTurns
  <2> QED
    BY <2>1, <2>2, <2>3 DEF ASObjectInv
<1>6. ASSaveInv
  <2>1. AS!SavedIsWhatRuns
    <3> SUFFICES ASSUME NEW x \in Name
                 PROVE  data[x] = IF applications[x] = 0 THEN asNone
                                  ELSE objects[applications[x]].settings
      BY DEF AS!SavedIsWhatRuns
    <3>1. data[x] = asDisk[x]
      BY DEF ASIsRead
    <3>2. CASE applications[x] = 0
      BY <1>2, <3>1, <3>2
    <3>3. CASE applications[x] # 0
      <4>1. applications[x] \in DOMAIN objects /\ objects[applications[x]].name = x
        BY <1>2, <3>3
      <4>2. objects[applications[x]].settings = asDisk[x]
        BY <1>1, <4>1
      <4> QED
        BY <3>1, <3>3, <4>2
    <3> QED
      BY <3>2, <3>3
  <2>2. ASLastSaveIsData /\ ASSavesAreOf
    BY <1>3 DEF ASLastSaveIsData, ASSavesAreOf, ASIsRead
  <2>3. ASAllAreAllowed
    BY <1>3 DEF ASAllAreAllowed, ASIsRead
  <2> QED
    BY <2>1, <2>2, <2>3 DEF ASSaveInv
<1> QED
  BY <1>4, <1>5, <1>6 DEF ASInv

LEMMA ASReadHoldsNext == (ASConstants /\ ASIsRead)' => ASInv'
BY ASReadHolds, PTL

LEMMA ASRestartStep ==
  ASSUME ASConstants, ASInv, AS!Restart
  PROVE  ASInv'
<1>1. /\ AS!EventMayHappen /\ asSpent' = AS!This /\ asDisk' = asDisk
      /\ objects' = AS!ReadState(asDisk) /\ applications' = [x \in Name |-> AS!ObjectOf(asDisk, x)]
      /\ asOperations' = <<>> /\ data' = asDisk /\ asSaves' = <<>>
      /\ UNCHANGED <<allowed, doubled, stale>>
  BY DEF AS!Restart, AS!Ghosts
<1>2. asSpent' \in Nat /\ asSpent' <= asMaxEvents
  BY <1>1 DEF ASInv, ASTypes, AS!EventMayHappen, AS!This, ASConstants
<1>3. asDisk \in [Name -> ASSaved] /\ allowed \in [Name -> [Setting -> SUBSET ASValues]] /\ ASAllows(asDisk)
  BY DEF ASInv, ASTypes, ASSaveInv, ASAllAreAllowed
<1>4. (ASConstants /\ ASIsRead)'
  BY <1>1, <1>2, <1>3 DEF ASIsRead, ASAllows, AS!SavedValue, ASConstants
<1> QED
  BY <1>4, ASReadHoldsNext

LEMMA ASInitHolds ==
  ASSUME ASConstants, AS!Init
  PROVE  ASInv
<1>1. asDisk \in [Name -> ASSaved]
  <2>1. [k \in Setting |-> 0] \in AS!Settings
    BY DEF AS!Settings, ASConstants
  <2> QED
    BY <2>1 DEF AS!Init, ASSaved
<1>2. allowed \in [Name -> [Setting -> SUBSET ASValues]]
  BY DEF AS!Init, ASValues
<1>3. ASAllows(asDisk)
  <2>1. [k \in Setting |-> 0] \in AS!Settings
    BY DEF AS!Settings, ASConstants
  <2>2. [k \in Setting |-> 0] # asNone
    BY <2>1 DEF ASConstants
  <2>3. ASSUME NEW x \in Name, NEW k \in Setting
        PROVE  AS!SavedValue(asDisk[x], k) \in allowed[x][k]
    <3>1. CASE x \in Installed
      <4>1. asDisk[x] = [i \in Setting |-> 0] /\ allowed[x][k] = {0}
        BY <3>1 DEF AS!Init
      <4> QED
        BY <2>2, <4>1 DEF AS!SavedValue
    <3>2. CASE x \notin Installed
      <4>1. asDisk[x] = asNone /\ allowed[x][k] = {asNone}
        BY <3>2 DEF AS!Init
      <4> QED
        BY <4>1 DEF AS!SavedValue
    <3> QED
      BY <3>1, <3>2
  <2> QED
    BY <2>3 DEF ASAllows
<1>4. /\ data = asDisk /\ asOperations = <<>> /\ asSaves = <<>> /\ objects = AS!ReadState(asDisk)
      /\ applications = [x \in Name |-> AS!ObjectOf(asDisk, x)] /\ asSpent = 0
  BY DEF AS!Init
<1>5. asSpent \in Nat /\ asSpent <= asMaxEvents
  BY <1>4 DEF ASConstants
<1>6. ASIsRead
  BY <1>1, <1>2, <1>3, <1>4, <1>5 DEF ASIsRead
<1> QED
  BY <1>6, ASReadHolds

LEMMA ASNextHolds ==
  ASSUME ASConstants, ASInv, AS!Next
  PROVE  ASInv'
<1>1. CASE AS!Adding
  BY <1>1, ASAddStep, ASAddGoesOnStep, ASAddFailsStep, ASAddInsertedStep DEF AS!Adding
<1>2. CASE AS!Changing
  <2>1. CASE \E name \in Name, keys \in AS!RequestedKeys : AS!ChangeSettings(name, keys) \/ AS!Update(name, keys)
    BY <2>1, ASChangeSettingsStep, ASUpdateStep
  <2>2. CASE \E name \in Name : AS!Remove_(name)
    BY <2>2, ASRemoveStep
  <2>3. CASE \E n \in DOMAIN asOperations :
               AS!WaitEnds(n) \/ AS!Proceeds(n) \/ AS!UpdateDownloaded(n) \/ AS!ApplyNewSettings(n)
               \/ AS!RemoveStopped(n) \/ AS!StepFails(n) \/ AS!Finishes(n)
    BY <2>3, ASEndingSteps, ASProceedsStep, ASUpdateDownloadedStep, ASApplyNewSettingsStep,
       ASRemoveStoppedStep
  <2> QED
    BY <1>2, <2>1, <2>2, <2>3 DEF AS!Changing
<1>3. CASE AS!Saving
  BY <1>3, ASSaveFinishesStep, ASSaveFailsStep, ASRestartStep, ASRegistersStep DEF AS!Saving
<1> QED
  BY <1>1, <1>2, <1>3 DEF AS!Next

LEMMA ASStays ==
  ASSUME ASInv, UNCHANGED asVars
  PROVE  ASInv'
<1>1. UNCHANGED <<objects, applications, asOperations, data, asDisk, asSaves, asSpent, allowed, doubled,
                  stale, joined>>
  BY DEF asVars
<1>2. asSpent' \in Nat /\ asSpent <= asSpent'
  BY <1>1 DEF ASInv, ASTypes
<1>3. ASObjectInv'
  BY <1>1, <1>2, ASOperationsRest DEF ASInv
<1>4. ASTypes'
  BY <1>1 DEF ASInv, ASTypes
<1>5. ASSaveInv'
  <2>1. AS!SavedIsWhatRuns' /\ ASLastSaveIsData'
    BY <1>1 DEF ASInv, ASSaveInv, AS!SavedIsWhatRuns, ASLastSaveIsData
  <2>2. ASSavesAreOf'
    BY <1>1 DEF ASInv, ASSaveInv, ASSavesAreOf, ASWrote
  <2>3. ASAllAreAllowed'
    BY <1>1 DEF ASInv, ASSaveInv, ASAllAreAllowed, ASAllows, AS!SavedValue
  <2> QED
    BY <2>1, <2>2, <2>3 DEF ASSaveInv
<1> QED
  BY <1>3, <1>4, <1>5 DEF ASInv

(* What the invariant says of the settings. *)
LEMMA ASHolds ==
  ASSUME ASConstants, ASInv
  PROVE  AS!ChangesAreKept /\ AS!SavedIsWhatRuns /\ AS!OneAtATime
<1>1. AS!SavedIsWhatRuns
  BY DEF ASInv, ASSaveInv
<1>2. AS!ChangesAreKept
  <2> SUFFICES ASSUME NEW x \in Name \ doubled, NEW k \in Setting, <<x, k>> \notin stale
               PROVE  AS!Value(x, k) \in allowed[x][k]
    BY DEF AS!ChangesAreKept
  <2>1. AS!SavedValue(data[x], k) \in allowed[x][k]
    BY DEF ASInv, ASSaveInv, ASAllAreAllowed, ASAllows
  <2>2. AS!SavedValue(data[x], k) = AS!Value(x, k)
    <3>1. CASE applications[x] = 0
      BY <1>1, <3>1 DEF AS!SavedIsWhatRuns, AS!SavedValue, AS!Value
    <3>2. CASE applications[x] # 0
      <4>1. applications[x] \in DOMAIN objects
        BY <3>2 DEF ASInv, ASObjectInv, ASInstalledIsThere, ASInstalls
      <4>2. objects[applications[x]] \in ASObject
        BY <4>1, ASDomainOf DEF ASInv, ASTypes
      <4>3. objects[applications[x]].settings # asNone
        BY <4>2 DEF ASObject, ASConstants
      <4> QED
        BY <1>1, <3>2, <4>3 DEF AS!SavedIsWhatRuns, AS!SavedValue, AS!Value
    <3> QED
      BY <3>1, <3>2
  <2> QED
    BY <2>1, <2>2
<1>3. AS!OneAtATime
  BY DEF AS!OneAtATime, ASInv, ASObjectInv, ASFamilyTakesTurns, ASHolderIsBusy, ASHolding
<1> QED
  BY <1>1, <1>2, <1>3
=============================================================================
