------------------------- MODULE MCKeyManagerServer -------------------------
(* Values of the constants of KeyManagerServer for TLC. *)
EXTENDS KeyManagerServer

(* The client of slot 1 asks server 1, that of slot 2 server 2. *)
OwnServer == [x \in Slot |-> {x}]
(* A client asks any server. *)
AnyServer == [x \in Slot |-> Server]
(* All clients ask one server. *)
ThirdServer == [x \in Slot |-> {3}]

(* What is started in each run, and where. *)
PoolOperations == {"RequestKey", "PreCreateKeys"} \X Server
EveryOperation == {"RequestKey", "PreCreateKeys", "RemovePreCreatedKeys",
                   "RemoveVerifiedHosts", "CopyKey", "ForceWriteDatabase"} \X {1}
OperationsAndSyncs == EveryOperation \cup ({"Connect"} \X Server)
OnePoolThreeServers == {<<"PreCreateKeys", 1>>, <<"RequestKey", 3>>}
RequestsAnywhere == {"RequestKey"} \X Server
=============================================================================
