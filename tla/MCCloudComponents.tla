------------------------- MODULE MCCloudComponents -------------------------
(* Values for the components of CloudComponents. *)
EXTENDS CloudComponents

CONSTANTS c1, c2

(* KnownHosts: three AppManagers: 1 and 2 trust each other and are connected, 3 comes
   later and is asked by both but asks nobody. *)
TrustEachOther == {<<1, 2>>, <<2, 1>>, <<1, 3>>, <<2, 3>>}

(* AppLifecycle: three applications, each of which depends on all before it; the first is
   encrypted, the last stops when one before it fails. *)
OnAllBefore == {<<"b", "a">>, <<"c", "a">>, <<"c", "b">>}
ThreeCommands == {<<"stop", "b">>, <<"start", "b">>, <<"restart", "a">>}

(* UpdateEvents: two events of one update, one of another. *)
TwoUpdates == <<"u", "u", "v">>

(* VersionSync: two managers that synchronise from each other a version that is uploaded
   and tagged at the first one. *)
EachOther == {<<2, 1>>, <<1, 2>>}

(* RebootSchedule: a calendar of three months, the second of which is longer every other
   year; schedules of every kind, also with a day that no month has. *)
ThreeMonths == <<4, 3, 4>>
Schedules ==
  [month : {NoValue, 1, 2, 3}, day : {NoValue, 1, 3, 4, 5}, weekday : {NoValue}, hour : {NoValue, 1},
   minute : {NoValue, 0}]
  \union
  [month : {NoValue, 2, 3}, day : {NoValue}, weekday : {0, 2}, hour : {NoValue, 1},
   minute : {NoValue, 0}]

(* One state of the components that do not run, where they may start in several. *)
MCInit ==
  /\ component \in Components
  /\ RS!Init
  /\ component # "RebootSchedule" =>
       now = 0 /\ schedule = [f \in {"month", "day", "weekday", "hour", "minute"} |-> NoValue]
  /\ Init
  /\ component # "Backup" => bkLatest = source
  /\ component # "DiskSpace" => ~mounted

MCSpec == MCInit /\ [][Next]_vars /\ Fairness
=============================================================================
