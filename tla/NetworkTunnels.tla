--------------------------- MODULE NetworkTunnels ---------------------------
(* One tunnel name: the TunnelProxyManagers that publish it as their configuration says
   (fp_ReloadConfig, CNetworkTunnelsServer), and one CNetworkTunnelsClient that has
   tunnels of that name open and points each of them at a server that has it. The
   client subscribes to every server it is connected to and may connect to all tunnels
   (ConnectAll). TunnelConnections models what goes through a tunnel. *)
EXTENDS Naturals, Sequences, FiniteSets

CONSTANTS
  Server,
  Tunnel,
  Wants,       \* [Tunnel -> SUBSET Server]: those with the host ID it was opened for
  MaxEvents    \* bounds reloads, breaks and restarts together, and tunnels closed

None == 0
Host == {1, 2}            \* where a published tunnel leads; None when there is none

VARIABLES
  config,      \* the Publish configuration
  entry,       \* mp_Publications: the host, and whether there is a subscription
  step,        \* fp_ReloadConfig and f_PublishNetworkTunnel: where they are
  published,   \* m_NetworkTunnels of the server
  up,          \* whether the client is connected
  subscribed,  \* m_ChangeSubscriptions: "none", "checking" permissions, or "yes"
  wire,        \* changes on their way to the client
  state,       \* m_NetworkTunnelsState of the client: none, or whether it has the tunnel
  available,   \* m_AvailableOnNetworkTunnels
  opened,
  actor,       \* m_TunnelActor
  events,
  failed       \* publications that could not register their permission

vars == <<config, entry, step, published, up, subscribed, wire, state, available, opened, actor,
          events, failed>>

Steps == {"idle", "unregister", "query remove", "sent remove", "publish", "register",
          "query add", "sent add"}
Changes == {"initial with", "initial without", "add", "remove"}

TypeOK ==
  /\ config \in [Server -> Host \cup {None}]
  /\ entry \in [Server -> [host : Host \cup {None}, held : BOOLEAN]]
  /\ step \in [Server -> Steps]
  /\ published \in [Server -> Host \cup {None}]
  /\ up \in [Server -> BOOLEAN]
  /\ subscribed \in [Server -> {"none", "checking", "yes"}]
  /\ \A s \in Server : \A i \in 1 .. Len(wire[s]) : wire[s][i] \in Changes
  /\ state \in [Server -> {"none", "with", "without"}]
  /\ available \in SUBSET Server
  /\ opened \in SUBSET Tunnel
  /\ \A t \in Tunnel : actor[t] \in Server \cup {None}
  /\ events \in 0 .. MaxEvents
  /\ failed \in SUBSET Server

(* The TunnelProxyManagers have started. *)
Init ==
  /\ config = [s \in Server |-> 1]
  /\ entry = [s \in Server |-> [host |-> 1, held |-> TRUE]]
  /\ step = [s \in Server |-> "idle"]
  /\ published = config
  /\ up = [s \in Server |-> FALSE] /\ subscribed = [s \in Server |-> "none"]
  /\ wire = [s \in Server |-> <<>>] /\ state = [s \in Server |-> "none"]
  /\ available = {} /\ opened = {} /\ actor = [t \in Tunnel |-> None]
  /\ events = 0 /\ failed = {}

-----------------------------------------------------------------------------
Happens == events < MaxEvents /\ events' = events + 1

clientVars == <<state, available, opened, actor>>
linkVars == <<up, subscribed, wire>>

To(s, where) == step' = [step EXCEPT ![s] = where]

(* fp_ReloadConfig after the configuration changed, one at a time: a tunnel that is
   there with the same host is left alone. *)
Reload(s, host) ==
  /\ step[s] = "idle" /\ host # config[s]
  /\ Happens
  /\ config' = [config EXCEPT ![s] = host]
  /\ IF host = entry[s].host
       THEN UNCHANGED <<step, entry>>
       ELSE /\ To(s, IF entry[s].held THEN "unregister"
                     ELSE IF host = None THEN "idle" ELSE "publish")
            /\ entry' = [entry EXCEPT ![s] =
                           IF host = None THEN [host |-> None, held |-> FALSE]
                           ELSE [@ EXCEPT !.held = FALSE]]
  /\ UNCHANGED <<published, linkVars, clientVars, failed>>

(* The subscription of a publication is destroyed: the permission goes, then the tunnel. *)
Unpublish(s) ==
  /\ step[s] = "unregister"
  /\ published' = [published EXCEPT ![s] = None]
  /\ To(s, IF subscribed[s] # "none" THEN "query remove"
           ELSE IF config[s] = None THEN "idle" ELSE "publish")
  /\ UNCHANGED <<config, entry, linkVars, clientVars, events, failed>>

(* f_PublishNetworkTunnel: the tunnel is there before its permission is. *)
Publish(s) ==
  /\ step[s] = "publish" /\ published[s] = None
  /\ published' = [published EXCEPT ![s] = config[s]]
  /\ To(s, "register")
  /\ UNCHANGED <<config, entry, linkVars, clientVars, events, failed>>

(* An error, of one server at a time, leaves the tunnel there, with nobody to remove it,
   and the publication is not kept. *)
Registered(s) ==
  /\ step[s] = "register"
  /\ \/ /\ To(s, IF subscribed[s] # "none" THEN "query add" ELSE "idle")
        /\ entry' = IF subscribed[s] # "none" THEN entry
                    ELSE [entry EXCEPT ![s] = [host |-> config[s], held |-> TRUE]]
        /\ UNCHANGED failed
     \/ /\ failed = {}
        /\ To(s, "idle")
        /\ failed' = {s}
        /\ UNCHANGED entry
  /\ UNCHANGED <<config, published, linkVars, clientVars, events>>

(* A tunnel that a failed publication left behind: the name is taken. *)
Refused(s) ==
  /\ step[s] = "publish" /\ published[s] # None
  /\ To(s, "idle")
  /\ UNCHANGED <<config, entry, published, linkVars, clientVars, events, failed>>

(* f_SendChange asks for the permissions of who was subscribed, and sends to those that
   still are. *)
SendChange(s) ==
  /\ step[s] \in {"query remove", "query add"}
  /\ LET change == IF step[s] = "query add" THEN "add" ELSE "remove"
     IN /\ wire' = IF subscribed[s] = "none" THEN wire
                   ELSE [wire EXCEPT ![s] = Append(@, change)]
        /\ To(s, IF change = "add" THEN "sent add" ELSE "sent remove")
  /\ UNCHANGED <<config, entry, published, up, subscribed, clientVars, events, failed>>

(* The answer of the subscriber has come, or the connection is gone. *)
ChangeSent(s) ==
  /\ wire[s] = <<>>
  /\ \/ /\ step[s] = "sent add"
        /\ entry' = [entry EXCEPT ![s] = [host |-> config[s], held |-> TRUE]]
        /\ To(s, "idle")
     \/ /\ step[s] = "sent remove"
        /\ To(s, IF config[s] = None THEN "idle" ELSE "publish")
        /\ UNCHANGED entry
  /\ UNCHANGED <<config, published, linkVars, clientVars, events, failed>>

-----------------------------------------------------------------------------
(* f_OnActor: the client expects changes from now on and subscribes. Its subscription
   is there before its permissions are checked. *)
Connect(s) ==
  /\ ~up[s] /\ state[s] = "none"
  /\ up' = [up EXCEPT ![s] = TRUE]
  /\ state' = [state EXCEPT ![s] = "without"]
  /\ subscribed' = [subscribed EXCEPT ![s] = "checking"]
  /\ UNCHANGED <<config, entry, step, published, wire, available, opened, actor, events, failed>>

SendInitial(s) ==
  /\ subscribed[s] = "checking"
  /\ subscribed' = [subscribed EXCEPT ![s] = "yes"]
  /\ wire' = [wire EXCEPT ![s] =
       Append(@, IF published[s] = None THEN "initial without" ELSE "initial with")]
  /\ UNCHANGED <<config, entry, step, published, up, clientVars, events, failed>>

Disconnect(s) ==
  /\ up[s]
  /\ Happens
  /\ up' = [up EXCEPT ![s] = FALSE]
  /\ subscribed' = [subscribed EXCEPT ![s] = "none"]
  /\ wire' = [wire EXCEPT ![s] = <<>>]
  /\ UNCHANGED <<config, entry, step, published, clientVars, failed>>

(* The TunnelProxyManager restarts and publishes what is configured. *)
Restart(s) ==
  /\ Happens
  /\ up' = [up EXCEPT ![s] = FALSE]
  /\ subscribed' = [subscribed EXCEPT ![s] = "none"]
  /\ wire' = [wire EXCEPT ![s] = <<>>]
  /\ published' = [published EXCEPT ![s] = None]
  /\ entry' = [entry EXCEPT ![s] = [host |-> None, held |-> FALSE]]
  /\ To(s, IF config[s] = None THEN "idle" ELSE "publish")
  /\ failed' = failed \ {s}
  /\ UNCHANGED <<config, clientVars>>

-----------------------------------------------------------------------------
(* f_GetFirstAvailableTunnelActor. *)
First(t, servers) ==
  IF servers \cap Wants[t] = {} THEN None ELSE CHOOSE s \in servers \cap Wants[t] : TRUE

(* f_RemoveTunnelByName. *)
MistakeWithout(s, actors) == [t \in Tunnel |-> IF actors[t] = s THEN None ELSE actors[t]]
Without(s, actors) ==
  [t \in Tunnel |-> IF actors[t] = s THEN First(t, available \ {s}) ELSE actors[t]]

(* fAddByName. *)
With(s, actors) == [t \in Tunnel |-> IF t \in opened /\ s \in Wants[t] THEN s ELSE actors[t]]

(* m_fOnTunnelChange. A change that has come is the answer to it as well. *)
Deliver(s) ==
  /\ wire[s] # <<>> /\ state[s] # "none"
  /\ LET change == Head(wire[s])
         removed == IF state[s] = "with" \/ change = "remove" THEN Without(s, actor) ELSE actor
     IN \/ /\ change = "add"
           /\ available' = available \cup {s}
           /\ actor' = With(s, actor)
           /\ state' = [state EXCEPT ![s] = "with"]
        \/ /\ change = "initial with"
           /\ available' = available \cup {s}
           /\ actor' = With(s, removed)
           /\ state' = [state EXCEPT ![s] = "with"]
        \/ /\ change \in {"remove", "initial without"}
           /\ available' = available \ {s}
           /\ actor' = removed
           /\ state' = [state EXCEPT ![s] = "without"]
  /\ wire' = [wire EXCEPT ![s] = Tail(@)]
  /\ UNCHANGED <<config, entry, step, published, up, subscribed, opened, events, failed>>

(* The client hears that the actor is gone. *)
RemoveActor(s) ==
  /\ ~up[s] /\ state[s] # "none"
  /\ actor' = IF state[s] = "with" THEN Without(s, actor) ELSE actor
  /\ available' = available \ {s}
  /\ state' = [state EXCEPT ![s] = "none"]
  /\ UNCHANGED <<config, entry, step, published, linkVars, opened, events, failed>>

OpenTunnel(t) ==
  /\ t \notin opened
  /\ opened' = opened \cup {t}
  /\ actor' = [actor EXCEPT ![t] = First(t, available)]
  /\ UNCHANGED <<config, entry, step, published, linkVars, state, available, events, failed>>

CloseTunnel(t) ==
  /\ t \in opened
  /\ Happens
  /\ opened' = opened \ {t}
  /\ actor' = [actor EXCEPT ![t] = None]
  /\ UNCHANGED <<config, entry, step, published, linkVars, state, available, failed>>

Next ==
  \/ \E s \in Server :
       \/ \E host \in Host \cup {None} : Reload(s, host)
       \/ Unpublish(s) \/ Publish(s) \/ Registered(s) \/ Refused(s) \/ SendChange(s) \/ ChangeSent(s)
       \/ Connect(s) \/ SendInitial(s) \/ Disconnect(s) \/ Restart(s)
       \/ Deliver(s) \/ RemoveActor(s)
  \/ \E t \in Tunnel : OpenTunnel(t) \/ CloseTunnel(t)

Spec == Init /\ [][Next]_vars

-----------------------------------------------------------------------------
Quiet(s) ==
  /\ step[s] = "idle" /\ wire[s] = <<>> /\ subscribed[s] # "checking"
  /\ ~up[s] => state[s] = "none"

(* Once the changes under way have come, an open tunnel leads to a server that has the
   tunnel published where its configuration says, and leads nowhere only when no server
   of the right host has it, whatever was published, moved, removed, restarted and
   disconnected in between. A publication that failed is not covered: the tunnel it
   leaves behind cannot be published again until the restart. *)
TunnelsLead ==
  (\A s \in Server : Quiet(s)) =>
    /\ \A s \in Server \ failed : published[s] = config[s]
    /\ \A t \in opened :
         IF actor[t] = None
           THEN \A s \in Wants[t] \ failed : ~up[s] \/ published[s] = None
           ELSE up[actor[t]] /\ published[actor[t]] # None /\ actor[t] \in Wants[t]
=============================================================================
