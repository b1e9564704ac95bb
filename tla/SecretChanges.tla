--------------------------- MODULE SecretChanges ---------------------------
(***************************************************************************)
(* What a subscriber of a SecretsManager believes the secrets that match   *)
(* its subscription to be. Each change waits for a check of permissions    *)
(* before it is sent, and so does the full list a subscription starts with *)
(* and gets again when permissions change.                                 *)
(***************************************************************************)
EXTENDS Naturals, Sequences

CONSTANTS
  Secret,      \* the IDs of secrets
  Stored,      \* those that are stored and match the subscription at the start
  MaxChanges,  \* bounds changes of secrets
  MaxResends   \* bounds subscriptions, and changes of permissions

VARIABLES
  secrets,     \* mp_Database.m_Secrets: a version, or None
  matches,     \* the secrets with the semantic ID, name and tags subscribed to
  subscribed,  \* mp_ChangeSubscriptions has the subscription
  checks,      \* changes that wait for their permissions
  initial,     \* the call of fp_SendSubscriptionInitial that waits for permissions
  wire,        \* calls of m_fOnChanges under way
  view,        \* what the subscriber believes
  version, resends,
  lost         \* secrets whose last change the subscriber was not, or wrongly, told of

vars == <<secrets, matches, subscribed, checks, initial, wire, view, version, resends, lost>>

None == 0
NoInitial == [on |-> FALSE, allowed |-> {}]
Matching == {s \in Secret : secrets[s] # None /\ s \in matches}
Visible(s) == IF s \in Matching THEN secrets[s] ELSE None

Init ==
  /\ secrets = [s \in Secret |-> IF s \in Stored THEN 1 ELSE None]
  /\ matches = Stored
  /\ subscribed = FALSE /\ checks = {} /\ initial = NoInitial /\ wire = <<>>
  /\ view = [s \in Secret |-> None]
  /\ version = 1 /\ resends = 0 /\ lost = {}

-----------------------------------------------------------------------------
(* Mistake: a removal is left to the next full list, as long as one is under way. *)
MistakeUpdated(s, v, match) ==
  /\ checks' = IF subscribed /\ match /\ ~(v = None /\ initial.on)
               THEN checks \cup {[secret |-> s, version |-> v, at |-> version']} ELSE checks
  /\ lost' = IF subscribed /\ ~match /\ s \in matches THEN lost \cup {s}
             ELSE IF match THEN lost \ {s} ELSE lost
(* fp_SecretUpdated: only a secret that matches, as it is now, is sent, so the
   subscriber is not told of one that no longer does. *)
Updated(s, v, match) ==
  /\ checks' = IF subscribed /\ match
               THEN checks \cup {[secret |-> s, version |-> v, at |-> version']} ELSE checks
  /\ lost' = IF subscribed /\ ~match /\ s \in matches THEN lost \cup {s}
             ELSE IF match THEN lost \ {s} ELSE lost

(* f_SetSecretProperties, f_ModifyTags, f_SetMetadata, f_RemoveMetadata *)
SetSecret(s, match) ==
  /\ version <= MaxChanges
  /\ version' = version + 1
  /\ secrets' = [secrets EXCEPT ![s] = version']
  /\ matches' = IF match THEN matches \cup {s} ELSE matches \ {s}
  /\ Updated(s, version', match)
  /\ UNCHANGED <<subscribed, initial, wire, view, resends>>
RemoveSecret(s) ==
  /\ version <= MaxChanges /\ secrets[s] # None
  /\ version' = version + 1
  /\ secrets' = [secrets EXCEPT ![s] = None]
  /\ Updated(s, None, s \in matches)
  /\ UNCHANGED <<matches, subscribed, initial, wire, view, resends>>

(* A change is sent when its permissions have been found, not in the order of the
   changes: one that comes after a later change of its secret is out of date. *)
Checked(c) ==
  /\ checks' = checks \ {c}
  /\ wire' = Append(wire, [full |-> FALSE, changed |-> [s \in {c.secret} |-> c.version]])
  /\ lost' = IF \E d \in checks : d.secret = c.secret /\ d.at < c.at
             THEN lost \cup {c.secret}
             ELSE IF initial.on /\ c.version # None /\ c.secret \notin initial.allowed
                  THEN lost \cup {c.secret}      \* the full list will not have it
                  ELSE lost
  /\ UNCHANGED <<secrets, matches, subscribed, initial, view, version, resends>>

(* f_SubscribeToChanges, and fp_UpdateSubscriptionsForChangedPermissions. *)
SendInitial ==
  /\ ~initial.on /\ resends < MaxResends
  /\ resends' = resends + 1
  /\ subscribed' = TRUE
  /\ initial' = [on |-> TRUE, allowed |-> Matching]
  /\ UNCHANGED <<secrets, matches, checks, wire, view, version, lost>>

(* The list has the secrets as they are after the check, of those that were checked. *)
Listed == [s \in initial.allowed \cap Matching |-> secrets[s]]
InitialSent ==
  /\ initial.on
  /\ wire' = Append(wire, [full |-> TRUE, changed |-> Listed])
  /\ initial' = NoInitial
  /\ UNCHANGED <<secrets, matches, subscribed, checks, view, version, resends, lost>>

Receive ==
  /\ wire # <<>>
  /\ wire' = Tail(wire)
  /\ LET m == Head(wire)
     IN view' = [s \in Secret |-> IF s \in DOMAIN m.changed THEN m.changed[s]
                                  ELSE IF m.full THEN None ELSE view[s]]
  /\ UNCHANGED <<secrets, matches, subscribed, checks, initial, version, resends, lost>>

Next ==
  \/ \E s \in Secret : RemoveSecret(s) \/ \E match \in BOOLEAN : SetSecret(s, match)
  \/ \E c \in checks : Checked(c)
  \/ SendInitial \/ InitialSent \/ Receive

Spec == Init /\ [][Next]_vars

-----------------------------------------------------------------------------
Versions == 0..MaxChanges + 1
TypeOK ==
  /\ secrets \in [Secret -> Versions] /\ matches \subseteq Secret
  /\ subscribed \in BOOLEAN
  /\ checks \subseteq [secret : Secret, version : Versions, at : Versions]
  /\ initial \in [on : BOOLEAN, allowed : SUBSET Secret]
  /\ view \in [Secret -> Versions]
  /\ lost \subseteq Secret

(* When nothing is under way the subscriber has each matching secret as it is, and
   no other, although changes are sent while the full list waits for its permissions.
   Left out are secrets that stopped matching, whose changes were sent out of order,
   or that appeared while the list was being checked: a list that is sent after their
   change takes them away again. *)
SubscriberIsRight ==
  subscribed /\ checks = {} /\ ~initial.on /\ wire = <<>> =>
    \A s \in Secret \ lost : view[s] = Visible(s)
=============================================================================
