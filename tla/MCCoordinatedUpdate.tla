------------------------ MODULE MCCoordinatedUpdate ------------------------
(* Instances of CoordinatedUpdate for TLC. *)
EXTENDS CoordinatedUpdate

\* One application on every host.
OneKey == [a \in App |-> 1]
OneAtATimeType == [k \in Key |-> "OneAtATime"]
\* An application per key, of different types.
OwnKey == [a \in App |-> a]
MixedTypes == [k \in Key |-> IF k = 1 THEN "OneAtATime" ELSE "AllAtOnce"]
==============================================================================
