--------------------------- MODULE RelaySessions ---------------------------
(***************************************************************************)
(* The relay's websocket side (relay/src): challenge-response              *)
(* authentication, the challenge store with its expiry and its cap, and    *)
(* the registry of authenticated sessions.                                 *)
(*                                                                         *)
(* The relay is one Node process and every handler below is synchronous,   *)
(* so a handler is one action.  What interleaves is the peers: several     *)
(* sockets of one persona, responses to challenges issued elsewhere,       *)
(* messages on a socket the relay is already closing, close events that    *)
(* come long after the session they end was replaced, and a response that  *)
(* ends the process.                                                       *)
(***************************************************************************)
EXTENDS Integers, FiniteSets

CONSTANTS
  Key,            \* what peers give as public keys
  Malformed,      \* those that decode to no Ed25519 key
  Socket,         \* websocket connections, each with a fresh random id
  NoKey,
  NoSocket,
  MaxRecords,     \* auth.maxChallengeRecords
  MaxChallenges   \* bound: challenges ever issued

ASSUME MalformedKeys == Malformed \subseteq Key
ASSUME NoValues == NoKey \notin Key /\ NoSocket \notin Socket
ASSUME PositiveRecords == MaxRecords \in Nat \ {0}
ASSUME ChallengeBound == MaxChallenges \in Nat

VARIABLES
  link,      \* state of each connection as the relay process sees it
  auth,      \* RelayWsAuthState of each connection
  issued,    \* challenges issued so far, numbered in createdAt order
  owner,     \* publicKeyBase32 of each issued challenge
  expired,   \* challenges 1..expired are past their expiresAt
  stored,    \* ids in challengesById
  used,      \* the stored records that carry a usedAt
  registry,  \* RelaySessionRegistry: its three indexes
  provedBy   \* history: the challenge that authenticated each connection

store       == <<issued, owner, expired, stored, used>>
sessionVars == <<link, auth, store, registry, provedBy>>

Challenge == 1 .. MaxChallenges
Role      == {"inbound", "outbound"}

NoIdentity == [key |-> NoKey, role |-> "unset"]
NoAuth     == [ok |-> FALSE, key |-> NoKey, role |-> "unset"]

\* The relay still dispatches the messages of a socket it has called close on.
Receiving(s) == link[s] \in {"open", "closing"}

-----------------------------------------------------------------------------
(* The challenge store. *)

NewestOf(C) == {c \in C : Cardinality({d \in C : d > c}) < MaxRecords}

\* Expired records go, unless they were used; then the oldest beyond the cap.
Swept(C) == NewestOf({c \in C : c > expired \/ c \in used})

\* verifyRelayChallengeResponse: found, issued for this key, not used, not
\* expired.
Matches(k, c) == c \in stored /\ owner[c] = k /\ c \notin used /\ c > expired

\* Wrong variant: a used challenge is accepted again.
AcceptsAgain(k, c, signed) ==
  c \in stored /\ owner[c] = k /\ c > expired /\ k \notin Malformed /\ signed

\* Wrong variant: the key of the response is not compared with the record's.
AcceptsAnyKey(k, c, signed) ==
  c \in stored /\ c \notin used /\ c > expired /\ k \notin Malformed /\ signed

\* ... and signed by this key.
Accepts(k, c, signed) == Matches(k, c) /\ k \notin Malformed /\ signed

\* The signature is verified with a key object, which a malformed key does not
\* give: the conversion throws, and nothing on the way to the event catches it.
Throws(k, c) == Matches(k, c) /\ k \in Malformed

-----------------------------------------------------------------------------
(* The session registry. *)

\* Wrong variant: the outbound branch returns before it forgets the socket.
RemovedEarlyReturn(reg, s) ==
  LET id == reg.identity[s]
  IN [inbound  |-> [k \in Key |-> IF id.role = "inbound" /\ k = id.key /\ reg.inbound[k] = s
                                  THEN NoSocket ELSE reg.inbound[k]],
      outbound |-> [k \in Key |-> IF id.role = "outbound" /\ k = id.key
                                  THEN reg.outbound[k] \ {s} ELSE reg.outbound[k]],
      identity |-> IF id.role = "outbound" THEN reg.identity
                   ELSE [reg.identity EXCEPT ![s] = NoIdentity]]

\* Wrong variant: the inbound session goes by the key the socket proved,
\* whoever holds it now.
RemovedByKey(reg, s) ==
  [inbound  |-> [k \in Key |-> IF auth[s].ok /\ auth[s].role = "inbound" /\ auth[s].key = k
                               THEN NoSocket ELSE reg.inbound[k]],
   outbound |-> [k \in Key |-> reg.outbound[k] \ {s}],
   identity |-> [reg.identity EXCEPT ![s] = NoIdentity]]

\* removeRelaySessionBySocketId; no effect on a socket without an identity.
Removed(reg, s) ==
  LET id == reg.identity[s]
  IN [inbound  |-> [k \in Key |-> IF id.role = "inbound" /\ k = id.key /\ reg.inbound[k] = s
                                  THEN NoSocket ELSE reg.inbound[k]],
      outbound |-> [k \in Key |-> IF id.role = "outbound" /\ k = id.key
                                  THEN reg.outbound[k] \ {s} ELSE reg.outbound[k]],
      identity |-> [reg.identity EXCEPT ![s] = NoIdentity]]

\* activateRelaySession: what the socket held before goes; an inbound session
\* takes the place of the persona's other one, whose identity is forgotten.
Activated(reg, s, k, r) ==
  LET base == Removed(reg, s)
      mine == [key |-> k, role |-> r]
  IN IF r = "outbound"
     THEN [base EXCEPT !.outbound[k] = @ \cup {s}, !.identity[s] = mine]
     ELSE [base EXCEPT !.inbound[k] = s,
                       !.identity = [t \in Socket |-> CASE t = s -> mine
                                                        [] t # s /\ t = base.inbound[k] -> NoIdentity
                                                        [] OTHER -> base.identity[t]]]

\* The socket that an inbound activation closes with code 4400.
Replaced(s, k, r) == IF r = "inbound" THEN {registry.inbound[k]} \ {s, NoSocket} ELSE {}

-----------------------------------------------------------------------------
NoSessions == [inbound  |-> [k \in Key |-> NoSocket],
               outbound |-> [k \in Key |-> {}],
               identity |-> [s \in Socket |-> NoIdentity]]

SessionInit ==
  /\ link = [s \in Socket |-> "unused"]
  /\ auth = [s \in Socket |-> NoAuth]
  /\ issued = 0
  /\ owner = [c \in Challenge |-> NoKey]
  /\ expired = 0
  /\ stored = {}
  /\ used = {}
  /\ registry = NoSessions
  /\ provedBy = [s \in Socket |-> 0]

\* A websocket upgrade is accepted and its listeners attached.
Connect(s) ==
  /\ link[s] = "unused"
  /\ link' = [link EXCEPT ![s] = "open"]
  /\ UNCHANGED <<auth, store, registry, provedBy>>

\* A control message that the rate limiter refuses or that does not parse, or
\* a tunnel frame of an authenticated socket that does not: an error is sent
\* and the relay calls close.  The session stays registered until the close
\* event.
Refuse(s) ==
  /\ Receiving(s)
  /\ link' = [link EXCEPT ![s] = "closing"]
  /\ UNCHANGED <<auth, store, registry, provedBy>>

\* auth_challenge_request: save a record, sweep the store, remember the key
\* and the role on the connection.
RequestChallenge(s, k, r) ==
  /\ Receiving(s) /\ ~auth[s].ok
  /\ issued < MaxChallenges
  /\ issued' = issued + 1
  /\ owner' = [owner EXCEPT ![issued + 1] = k]
  /\ stored' = Swept(stored \cup {issued + 1})
  /\ used' = used \cap stored'
  /\ auth' = [auth EXCEPT ![s] = [ok |-> FALSE, key |-> k, role |-> r]]
  /\ UNCHANGED <<link, expired, registry, provedBy>>

\* Wrong variant: a response without a role on a fresh connection has none.
RoleAsGiven(s, r) == IF r = "unset" THEN auth[s].role ELSE r

\* The role of the response, else the one requested before, else inbound.
RoleOf(s, r) ==
  CASE r # "unset" -> r
    [] r = "unset" /\ auth[s].role # "unset" -> auth[s].role
    [] OTHER -> "inbound"

\* auth_challenge_response accepted: the record is marked used, the session is
\* activated, and the persona's other inbound socket is closed.
Authenticate(s, k, c, role) ==
  /\ used' = used \cup {c}
  /\ registry' = Activated(registry, s, k, role)
  /\ link' = [t \in Socket |-> IF t \in Replaced(s, k, role) /\ link[t] \in {"open", "silent"}
                               THEN "closing" ELSE link[t]]
  /\ auth' = [auth EXCEPT ![s] = [ok |-> TRUE, key |-> k, role |-> role]]
  /\ provedBy' = [provedBy EXCEPT ![s] = c]
  /\ UNCHANGED <<issued, owner, expired, stored>>

\* auth_challenge_response.  The challenge need not have been issued on this
\* connection; once authenticated, every message is read as a tunnel frame.
Respond(s, k, c, r, signed) ==
  /\ Receiving(s) /\ ~auth[s].ok /\ c <= issued
  /\ \/ Accepts(k, c, signed) /\ Authenticate(s, k, c, RoleOf(s, r))
     \/ /\ ~Accepts(k, c, signed) /\ ~Throws(k, c)
        /\ link' = [link EXCEPT ![s] = "closing"]
        /\ UNCHANGED <<auth, store, registry, provedBy>>

\* auth_challenge_response with a malformed key: the relay process ends, with
\* its connections, its challenges and its registry, and is started again.
RelayDies(s, k, c) ==
  /\ Receiving(s) /\ ~auth[s].ok /\ c <= issued
  /\ Throws(k, c)
  /\ link' = [t \in Socket |-> IF link[t] = "unused" THEN "unused" ELSE "closed"]
  /\ stored' = {} /\ used' = {}
  /\ registry' = NoSessions
  /\ UNCHANGED <<auth, issued, owner, expired, provedBy>>

\* The close event: the peer closed, the transport failed, or the close the
\* relay asked for completed.
Close(s) ==
  /\ link[s] \in {"open", "silent", "closing"}
  /\ link' = [link EXCEPT ![s] = "closed"]
  /\ registry' = Removed(registry, s)
  /\ UNCHANGED <<auth, store, provedBy>>

\* The peer is gone and its transport says nothing.
FallSilent(s) ==
  /\ link[s] = "open"
  /\ link' = [link EXCEPT ![s] = "silent"]
  /\ UNCHANGED <<auth, store, registry, provedBy>>

\* Time passes: the oldest challenge that has not expired does.
Expire ==
  /\ expired < issued
  /\ expired' = expired + 1
  /\ UNCHANGED <<link, auth, issued, owner, stored, used, registry, provedBy>>

\* The garbage collection interval.
Sweep ==
  /\ stored' = Swept(stored)
  /\ used' = used \cap stored'
  /\ UNCHANGED <<link, auth, issued, owner, expired, registry, provedBy>>

SessionNext ==
  \/ Expire
  \/ Sweep
  \/ \E s \in Socket :
       \/ Connect(s)
       \/ Refuse(s)
       \/ Close(s)
       \/ FallSilent(s)
       \/ \E k \in Key, r \in Role : RequestChallenge(s, k, r)
       \/ \E k \in Key, c \in Challenge, r \in Role \cup {"unset"}, signed \in BOOLEAN :
            Respond(s, k, c, r, signed)

-----------------------------------------------------------------------------
Registry ==
  [inbound  : [Key -> Socket \cup {NoSocket}],
   outbound : [Key -> SUBSET Socket],
   identity : [Socket -> [key : Key, role : Role] \cup {NoIdentity}]]

SessionTypeOK ==
  /\ link \in [Socket -> {"unused", "open", "silent", "closing", "closed"}]
  /\ auth \in [Socket -> [ok : BOOLEAN, key : Key \cup {NoKey}, role : Role \cup {"unset"}]]
  /\ issued \in 0 .. MaxChallenges
  /\ owner \in [Challenge -> Key \cup {NoKey}]
  /\ expired \in 0 .. issued
  /\ stored \subseteq 1 .. issued
  /\ used \subseteq stored
  /\ registry \in Registry
  /\ provedBy \in [Socket -> 0 .. issued]

\* The three indexes say the same: a socket has an identity exactly when the
\* index of its role holds it under its key (activateRelaySession,
\* removeRelaySessionBySocketId).
RegistryConsistent ==
  \A s \in Socket, k \in Key :
     /\ registry.inbound[k] = s <=> registry.identity[s] = [key |-> k, role |-> "inbound"]
     /\ s \in registry.outbound[k] <=> registry.identity[s] = [key |-> k, role |-> "outbound"]

\* Whatever is registered authenticated with that key and that role, and its
\* close event has not come: neither mail nor a delivery result is ever routed
\* to a socket that is gone or that is somebody else's.
RegisteredIsAuthenticated ==
  \A s \in Socket : registry.identity[s] # NoIdentity =>
     /\ link[s] \in {"open", "silent", "closing"}
     /\ auth[s] = [ok |-> TRUE, key |-> registry.identity[s].key, role |-> registry.identity[s].role]

\* A challenge opens one session at most, through replays, other sockets,
\* expiry, and eviction of the record that says it was used.
OneSessionPerChallenge ==
  \A s, t \in Socket : provedBy[s] # 0 /\ provedBy[s] = provedBy[t] => s = t

\* A session's key answered a challenge that was issued for that very key.
KeyWasChallenged ==
  \A s \in Socket : auth[s].ok => provedBy[s] # 0 /\ owner[provedBy[s]] = auth[s].key

\* A persona's inbound session ends only with its own socket: the late close of
\* a replaced socket does not take down the session that replaced it.
EndsWithItsSocket ==
  [][\A k \in Key, s \in Socket :
        registry.inbound[k] = s /\ registry'.inbound[k] = NoSocket => link'[s] = "closed"]_sessionVars
=============================================================================
