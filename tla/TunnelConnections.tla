------------------------- MODULE TunnelConnections -------------------------
(* One connection through a tunnel: somebody connects to the port the client listens at
   (m_fNewConnection), the client has the server connect to the host behind the tunnel
   (f_OpenConnection), and each end hands the other one a functor to send data with.
   Dropping a functor is how an end tells the other one that it has closed. Either peer
   may close, and the connection between client and server may break, at any time. *)
EXTENDS Naturals

CONSTANT MaxCloses   \* bounds what closes, fails and breaks

VARIABLES
  client,      \* m_fNewConnection: "none", "opening", "accepting", "open", "over"
  theirs,      \* the client's entry in m_Connections: m_fSendData, m_Socket
  server,      \* f_OpenConnection: "none", "called", "accepting", "open", "over"
  ours,        \* the server's entry in m_Connections: m_Socket
  receive,     \* m_fOnReceive: "none", "held" by the server, "dropped" or "gone"
  send,        \* FSendBytes: "none", "sent", "held" by the client, "dropped" or "gone"
  reply,       \* of f_OpenConnection, on its way to the client
  linked,
  closes

vars == <<client, theirs, server, ours, receive, send, reply, linked, closes>>

NoEntry == [there |-> FALSE, send |-> FALSE, socket |-> FALSE]
Entry == [there : BOOLEAN, send : BOOLEAN, socket : BOOLEAN]

TypeOK ==
  /\ client \in {"none", "opening", "accepting", "open", "over"}
  /\ theirs \in Entry
  /\ server \in {"none", "called", "accepting", "open", "over"}
  /\ ours \in Entry
  /\ receive \in {"none", "held", "dropped", "gone"}
  /\ send \in {"none", "sent", "held", "dropped", "gone"}
  /\ reply \in {"none", "ok", "error"}
  /\ linked \in BOOLEAN
  /\ closes \in 0 .. MaxCloses

Init ==
  /\ client = "none" /\ theirs = NoEntry
  /\ server = "none" /\ ours = NoEntry
  /\ receive = "none" /\ send = "none" /\ reply = "none"
  /\ linked = TRUE /\ closes = 0

-----------------------------------------------------------------------------
Happens == closes < MaxCloses /\ closes' = closes + 1

(* The client's entry goes, and the functor in it. *)
ClientCloses ==
  /\ theirs' = NoEntry
  /\ send' = IF theirs.send THEN "dropped" ELSE send

(* f_CleanupConnection. *)
ServerCloses ==
  /\ ours' = NoEntry
  /\ receive' = IF ours.there THEN "dropped" ELSE receive

(* The answer of the server, if anybody waits for it any more. *)
Answer(r) == reply' = IF linked THEN r ELSE reply

-----------------------------------------------------------------------------
NewConnection ==
  /\ client = "none" /\ linked
  /\ client' = "opening"
  /\ theirs' = [NoEntry EXCEPT !.there = TRUE]
  /\ server' = "called" /\ receive' = "held"
  /\ UNCHANGED <<ours, send, reply, linked, closes>>

(* No permission, no such tunnel, or nobody at the host: the call ends with the functor
   it brought. *)
ConnectFails ==
  /\ server = "called"
  /\ Happens
  /\ server' = "over"
  /\ receive' = "dropped"
  /\ Answer("error")
  /\ UNCHANGED <<client, theirs, ours, send, linked>>

Connected ==
  /\ server = "called"
  /\ server' = "accepting"
  /\ ours' = [NoEntry EXCEPT !.there = TRUE, !.send = TRUE]
  /\ UNCHANGED <<client, theirs, receive, send, reply, linked, closes>>

(* The entry can be gone again: then the new socket goes as well. *)
ServerAccepts ==
  /\ server = "accepting"
  /\ IF ours.there
       THEN /\ ours' = [ours EXCEPT !.socket = TRUE]
            /\ server' = "open"
            /\ Answer("ok")
            /\ send' = IF linked THEN "sent" ELSE "dropped"
       ELSE /\ server' = "over"
            /\ Answer("error")
            /\ UNCHANGED <<ours, send>>
  /\ UNCHANGED <<client, theirs, receive, linked, closes>>

ServerAcceptFails ==
  /\ server = "accepting"
  /\ Happens
  /\ server' = "over"
  /\ ServerCloses
  /\ Answer("error")
  /\ UNCHANGED <<client, theirs, send, linked>>

-----------------------------------------------------------------------------
(* The connection can have been closed while it was opened. *)
MistakeOpened ==   \* the entry is not looked up again
  /\ client = "opening" /\ reply = "ok"
  /\ reply' = "none"
  /\ client' = "accepting"
  /\ theirs' = [NoEntry EXCEPT !.there = TRUE, !.send = TRUE]
  /\ send' = "held"
  /\ UNCHANGED <<server, ours, receive, linked, closes>>

Opened ==
  /\ client = "opening" /\ reply = "ok"
  /\ reply' = "none"
  /\ IF theirs.there
       THEN /\ client' = "accepting"
            /\ theirs' = [theirs EXCEPT !.send = TRUE]
            /\ send' = IF send = "sent" THEN "held" ELSE send
       ELSE /\ client' = "over"
            /\ send' = IF send = "sent" THEN "dropped" ELSE send
            /\ UNCHANGED theirs
  /\ UNCHANGED <<server, ours, receive, linked, closes>>

OpenFailed ==
  /\ client = "opening" /\ reply = "error"
  /\ reply' = "none"
  /\ client' = "over"
  /\ ClientCloses
  /\ UNCHANGED <<server, ours, receive, linked, closes>>

(* The connection can have been closed while it was accepted. *)
ClientAccepts ==
  /\ client = "accepting"
  /\ client' = IF theirs.there THEN "open" ELSE "over"
  /\ theirs' = IF theirs.there THEN [theirs EXCEPT !.socket = TRUE] ELSE theirs
  /\ UNCHANGED <<server, ours, receive, send, reply, linked, closes>>

ClientAcceptFails ==
  /\ client = "accepting"
  /\ Happens
  /\ client' = "over"
  /\ ClientCloses
  /\ UNCHANGED <<server, ours, receive, reply, linked>>

-----------------------------------------------------------------------------
(* The sockets report that a peer has closed from f_Accept on. *)
ClientPeerCloses ==
  /\ client \in {"accepting", "open"} /\ theirs.there
  /\ Happens
  /\ ClientCloses
  /\ client' = IF client = "open" THEN "over" ELSE client
  /\ UNCHANGED <<server, ours, receive, reply, linked>>

ServerPeerCloses ==
  /\ server \in {"accepting", "open"} /\ ours.there
  /\ Happens
  /\ ServerCloses
  /\ server' = IF server = "open" THEN "over" ELSE server
  /\ UNCHANGED <<client, theirs, send, reply, linked>>

(* A functor that was dropped tells the end it came from. *)
ReceiveDropped ==
  /\ receive = "dropped"
  /\ receive' = "gone"
  /\ ClientCloses
  /\ client' = IF client = "open" THEN "over" ELSE client
  /\ UNCHANGED <<server, ours, reply, linked, closes>>

SendDropped ==
  /\ send = "dropped"
  /\ send' = "gone"
  /\ ServerCloses
  /\ server' = IF server = "open" THEN "over" ELSE server
  /\ UNCHANGED <<client, theirs, reply, linked, closes>>

(* The connection breaks: whoever waits for an answer gets an error, and each end hears
   that the other one has dropped what it held. *)
Break ==
  /\ linked
  /\ Happens
  /\ linked' = FALSE
  /\ reply' = IF client = "opening" THEN "error" ELSE "none"
  /\ receive' = IF receive = "held" THEN "dropped" ELSE receive
  /\ send' = IF send \in {"sent", "held"} THEN "dropped" ELSE send
  /\ UNCHANGED <<client, theirs, server, ours>>

Next ==
  \/ NewConnection \/ ConnectFails \/ Connected \/ ServerAccepts \/ ServerAcceptFails
  \/ Opened \/ OpenFailed \/ ClientAccepts \/ ClientAcceptFails
  \/ ClientPeerCloses \/ ServerPeerCloses \/ ReceiveDropped \/ SendDropped \/ Break

Spec == Init /\ [][Next]_vars

-----------------------------------------------------------------------------
Settled ==
  /\ client \in {"none", "open", "over"} /\ server \in {"none", "open", "over"}
  /\ reply = "none" /\ receive # "dropped" /\ send # "dropped"

(* When nothing is under way either both ends have the connection, whole, or neither
   has anything of it, whoever closed first and wherever the other one was: opening,
   accepting, or waiting for an answer that was lost. *)
BothOrNeither ==
  Settled =>
    /\ theirs \in {NoEntry, [there |-> TRUE, send |-> TRUE, socket |-> TRUE]}
    /\ theirs = ours
    /\ theirs.there => receive = "held" /\ send = "held"
=============================================================================
