---------------------------- MODULE RollingUpdate ----------------------------
(***************************************************************************)
(* What a one-at-a-time update promises for one release of one application *)
(* that runs in several places: the instances are updated in a fixed order *)
(* with no gap, at most one is down, and only the last one to have had its *)
(* turn can lose what it got.                                              *)
(***************************************************************************)
CONSTANTS
  Instance,  \* where the application runs
  Order      \* the pairs <<i, j>> in which i is to update before j

VARIABLE phase  \* of each instance: old, updating (it is down) or new

Earlier(i) == {j \in Instance : <<j, i>> \in Order}
Later(i) == {j \in Instance : <<i, j>> \in Order}

Init == phase = [i \in Instance |-> "old"]

(* An instance goes down once every earlier one has the release.            *)
Start(i) ==
  /\ phase[i] = "old"
  /\ \A j \in Earlier(i) : phase[j] = "new"
  /\ phase' = [phase EXCEPT ![i] = "updating"]

Finish(i) ==
  /\ phase[i] = "updating"
  /\ phase' = [phase EXCEPT ![i] = "new"]

(* The update failed, or was forgotten in a crash, before any later         *)
(* instance relied on it.                                                   *)
Revert(i) ==
  /\ phase[i] # "old"
  /\ \A j \in Later(i) : phase[j] = "old"
  /\ phase' = [phase EXCEPT ![i] = "old"]

Next == \E i \in Instance : Start(i) \/ Finish(i) \/ Revert(i)

Spec == Init /\ [][Next]_phase

(* The instances that have had their turn are the first ones, and all but   *)
(* the last of them have the release.                                       *)
Prefix ==
  \A i, j \in Instance : <<i, j>> \in Order /\ phase[j] # "old" => phase[i] = "new"
==============================================================================
