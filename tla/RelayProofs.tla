---------------------------- MODULE RelayProofs ----------------------------
(***************************************************************************)
(* What TLAPS proves about the relay for every set of personas,            *)
(* connections and mail transactions and every bound.                      *)
(***************************************************************************)
EXTENDS RelayIngress, TLAPS

-----------------------------------------------------------------------------
(* Facts about the registry operators. *)

\* A registry whose three indexes agree (RegistryConsistent of one value).
Agree(reg) ==
  \A s \in Socket, k \in Key :
     /\ reg.inbound[k] = s <=> reg.identity[s] = [key |-> k, role |-> "inbound"]
     /\ s \in reg.outbound[k] <=> reg.identity[s] = [key |-> k, role |-> "outbound"]

\* removeRelaySessionBySocketId yields a registry.
LEMMA RemovedIsRegistry ==
  ASSUME NEW reg \in Registry, NEW s \in Socket
  PROVE  /\ Removed(reg, s) \in Registry
         /\ Removed(reg, s).identity = [reg.identity EXCEPT ![s] = NoIdentity]
BY DEF Registry, Removed, NoIdentity

\* removeRelaySessionBySocketId leaves the indexes in agreement.
LEMMA RemovedAgrees ==
  ASSUME NEW reg \in Registry, NEW s \in Socket, Agree(reg)
  PROVE  Agree(Removed(reg, s))
<1> DEFINE new == Removed(reg, s)
<1> SUFFICES ASSUME NEW t \in Socket, NEW k \in Key
             PROVE  /\ new.inbound[k] = t <=> new.identity[t] = [key |-> k, role |-> "inbound"]
                    /\ t \in new.outbound[k] <=> new.identity[t] = [key |-> k, role |-> "outbound"]
  BY DEF Agree
<1>1. /\ reg.inbound[k] = t <=> reg.identity[t] = [key |-> k, role |-> "inbound"]
      /\ t \in reg.outbound[k] <=> reg.identity[t] = [key |-> k, role |-> "outbound"]
      /\ reg.inbound[k] = s <=> reg.identity[s] = [key |-> k, role |-> "inbound"]
      /\ s \in reg.outbound[k] <=> reg.identity[s] = [key |-> k, role |-> "outbound"]
  BY DEF Agree
<1>2. NoIdentity # [key |-> k, role |-> "inbound"] /\ NoIdentity # [key |-> k, role |-> "outbound"]
  BY NoValues DEF NoIdentity
<1>3. CASE t = s
  BY <1>1, <1>2, <1>3, NoValues DEF Removed, Registry
<1>4. CASE t # s
  <2>1. new.identity[t] = reg.identity[t]
    BY <1>4 DEF Removed, Registry
  <2>2. new.inbound[k] = t <=> reg.inbound[k] = t
    BY <1>4, NoValues DEF Removed, Registry
  <2>3. t \in new.outbound[k] <=> t \in reg.outbound[k]
    BY <1>4 DEF Removed, Registry
  <2> QED BY <1>1, <2>1, <2>2, <2>3
<1> QED BY <1>3, <1>4

\* activateRelaySession yields a registry.
LEMMA ActivatedIsRegistry ==
  ASSUME NEW reg \in Registry, NEW s \in Socket, NEW k \in Key, NEW r \in Role
  PROVE  Activated(reg, s, k, r) \in Registry
<1> DEFINE base == Removed(reg, s)
<1>1. base \in Registry
  BY RemovedIsRegistry
<1> HIDE DEF base
<1>2. [key |-> k, role |-> r] \in [key : Key, role : Role]
  OBVIOUS
<1>3. CASE r = "outbound"
  BY <1>1, <1>2, <1>3, ZenonT(30) DEF Activated, Registry, base
<1>4. CASE r # "outbound"
  BY <1>1, <1>2, <1>4 DEF Activated, Registry, base
<1> QED BY <1>3, <1>4

\* activateRelaySession leaves the indexes in agreement: it forgets what the
\* socket held before and the identity of the inbound session it replaces.
LEMMA ActivatedAgrees ==
  ASSUME NEW reg \in Registry, NEW s \in Socket, NEW k \in Key, NEW r \in Role, Agree(reg)
  PROVE  Agree(Activated(reg, s, k, r))
<1> DEFINE base == Removed(reg, s)
           new  == Activated(reg, s, k, r)
<1>1. base \in Registry /\ Agree(base) /\ base.identity[s] = NoIdentity
  <2>1. base \in Registry /\ base.identity = [reg.identity EXCEPT ![s] = NoIdentity]
    BY RemovedIsRegistry
  <2>2. DOMAIN reg.identity = Socket
    BY DEF Registry
  <2>3. Agree(base)
    BY RemovedAgrees
  <2> QED BY <2>1, <2>2, <2>3
<1> SUFFICES ASSUME NEW t \in Socket, NEW h \in Key
             PROVE  /\ new.inbound[h] = t <=> new.identity[t] = [key |-> h, role |-> "inbound"]
                    /\ t \in new.outbound[h] <=> new.identity[t] = [key |-> h, role |-> "outbound"]
  BY DEF Agree
<1>2. /\ base.inbound[h] = t <=> base.identity[t] = [key |-> h, role |-> "inbound"]
      /\ t \in base.outbound[h] <=> base.identity[t] = [key |-> h, role |-> "outbound"]
      /\ base.inbound[k] = t <=> base.identity[t] = [key |-> k, role |-> "inbound"]
  <2>1. Agree(base)
    BY <1>1
  <2> HIDE DEF base
  <2> QED BY ONLY <2>1, t \in Socket, h \in Key, k \in Key DEF Agree
<1>3. NoIdentity # [key |-> h, role |-> "inbound"] /\ NoIdentity # [key |-> h, role |-> "outbound"]
  BY NoValues DEF NoIdentity
<1>4. base.inbound[h] # s /\ s \notin base.outbound[h]
  BY <1>1, <1>3 DEF Agree
<1>5. CASE r = "outbound"
  <2>1. /\ new.inbound = base.inbound
        /\ new.outbound = [base.outbound EXCEPT ![k] = @ \cup {s}]
        /\ new.identity = [base.identity EXCEPT ![s] = [key |-> k, role |-> r]]
    BY <1>1, <1>5 DEF Activated, Registry
  <2> HIDE DEF new, base
  <2>2. CASE t = s
    BY <1>1, <1>2, <1>3, <1>5, <1>4, <2>1, <2>2 DEF Registry
  <2>3. CASE t # s
    BY <1>1, <1>2, <2>1, <2>3 DEF Registry
  <2> QED BY <2>2, <2>3
<1>6. CASE r # "outbound"
  <2>1. /\ r = "inbound"
        /\ new.inbound = [base.inbound EXCEPT ![k] = s]
        /\ new.outbound = base.outbound
        /\ new.identity = [u \in Socket |-> CASE u = s -> [key |-> k, role |-> r]
                                              [] u # s /\ u = base.inbound[k] -> NoIdentity
                                              [] OTHER -> base.identity[u]]
    BY <1>1, <1>6 DEF Activated, Registry, Role
  <2> HIDE DEF new, base
  <2>2. CASE t = s
    BY <1>1, <1>2, <1>3, <1>4, <2>1, <2>2 DEF Registry
  <2>3. CASE t # s /\ t = base.inbound[k]
    <3>1. new.identity[t] = NoIdentity
      BY <2>1, <2>3
    <3>2. base.identity[t] = [key |-> k, role |-> "inbound"]
      BY <1>2, <2>3
    <3>3. new.inbound[h] # t
      BY <1>1, <1>2, <1>4, <2>1, <2>3, <3>2 DEF Registry
    <3>4. t \notin new.outbound[h]
      BY <1>2, <2>1, <3>2
    <3> QED BY <1>3, <3>1, <3>3, <3>4
  <2>4. CASE t # s /\ t # base.inbound[k]
    <3>1. new.identity[t] = base.identity[t]
      BY <2>1, <2>4
    <3>2. new.inbound[h] = t <=> base.inbound[h] = t
      BY <1>1, <2>1, <2>4 DEF Registry
    <3> QED BY <1>2, <2>1, <3>1, <3>2
  <2> QED BY <2>2, <2>3, <2>4
<1> QED BY <1>5, <1>6

\* activateRelaySession gives the socket its new identity and changes no other
\* identity but the one it forgets.
LEMMA ActivatedIdentity ==
  ASSUME NEW reg \in Registry, NEW s \in Socket, NEW k \in Key, NEW r \in Role
  PROVE  /\ Activated(reg, s, k, r).identity[s] = [key |-> k, role |-> r]
         /\ \A t \in Socket : t # s =>
              Activated(reg, s, k, r).identity[t] \in {reg.identity[t], NoIdentity}
<1> DEFINE base == Removed(reg, s)
<1>1. base \in Registry /\ base.identity = [reg.identity EXCEPT ![s] = NoIdentity]
  BY RemovedIsRegistry
<1>2. DOMAIN reg.identity = Socket /\ DOMAIN base.identity = Socket
  BY <1>1 DEF Registry
<1> HIDE DEF base
<1>3. CASE r = "outbound"
  <2>1. Activated(reg, s, k, r).identity = [base.identity EXCEPT ![s] = [key |-> k, role |-> r]]
    BY <1>1, <1>3 DEF Activated, Registry, base
  <2> QED BY <1>1, <1>2, <2>1
<1>4. CASE r # "outbound"
  <2>1. Activated(reg, s, k, r).identity =
          [t \in Socket |-> CASE t = s -> [key |-> k, role |-> r]
                             [] t # s /\ t = base.inbound[k] -> NoIdentity
                             [] OTHER -> base.identity[t]]
    BY <1>1, <1>4 DEF Activated, Registry, base
  <2> QED BY <1>1, <1>2, <2>1
<1> QED BY <1>3, <1>4

-----------------------------------------------------------------------------
(* Type correctness. *)

\* The relay's state keeps its type (SessionTypeOK and the mail variables).
THEOREM TypeCorrect == Spec => []TypeOK
<1>1. Init => TypeOK
  BY ChallengeBound DEF Init, SessionInit, NoSessions, TypeOK, SessionTypeOK, Registry, NoIdentity, NoAuth,
        Role, Challenge
<1>2. TypeOK /\ [Next]_ingressVars => TypeOK'
  <2> SUFFICES ASSUME TypeOK, [Next]_ingressVars PROVE TypeOK'
    OBVIOUS
  <2> USE DEF TypeOK
  <2>1. CASE MailNext
    <3>1. SessionTypeOK'
      BY <2>1 DEF MailNext, Recipient, Data, RejectData, FanOut, SessionTypeOK, sessionVars, store,
                  Registry
    <3>2. ASSUME NEW m \in Mail, FanOut(m) PROVE TypeOK'
      <4>1. SessionsOf(m) \subseteq Socket
        BY DEF SessionsOf, SessionTypeOK, Registry
      <4>2. Verdict(m) \in {"accepted", "rejected"}
        BY DEF Verdict
      <4> QED BY <3>1, <3>2, <4>1, <4>2 DEF FanOut
    <3>3. ASSUME NEW m \in Mail, (\E k \in Key : Recipient(m, k)) \/ Data(m) \/ RejectData(m)
          PROVE TypeOK'
      BY <3>1, <3>3 DEF Recipient, Data, RejectData
    <3> QED BY <2>1, <3>2, <3>3 DEF MailNext
  <2>2. CASE SessionNext /\ UNCHANGED mailVars
    <3> USE DEF SessionTypeOK
    <3>1. (phase \in [Mail -> {"rcpt", "reading", "accepted", "rejected"}] /\ rcpt \in [Mail -> SUBSET Key]
           /\ written \in [Mail -> SUBSET Socket] /\ reached \in [Mail -> SUBSET Socket])'
      BY <2>2 DEF mailVars
    <3>2. CASE Expire
      BY <3>1, <3>2 DEF Expire, Registry
    <3>3. CASE Sweep
      BY <3>1, <3>3 DEF Sweep, Swept, NewestOf, Registry
    <3>4. ASSUME NEW s \in Socket, Connect(s) \/ Refuse(s) \/ FallSilent(s) PROVE TypeOK'
      BY <3>1, <3>4 DEF Connect, Refuse, FallSilent, Receiving, store
    <3>5. ASSUME NEW s \in Socket, Close(s) PROVE TypeOK'
      BY <3>1, <3>5, RemovedIsRegistry DEF Close, store
    <3>6. ASSUME NEW s \in Socket, NEW k \in Key, NEW r \in Role, RequestChallenge(s, k, r)
          PROVE TypeOK'
      <4>1. issued' = issued + 1 /\ issued + 1 \in Challenge /\ issued' \in 0 .. MaxChallenges
        BY <3>6, ChallengeBound DEF RequestChallenge, Challenge
      <4>2. stored' \subseteq stored \cup {issued + 1} /\ used' \subseteq stored'
        BY <3>6 DEF RequestChallenge, Swept, NewestOf
      <4>3. stored' \subseteq 1 .. issued'
        <5>1. stored \cup {issued + 1} \subseteq 1 .. issued + 1
          OBVIOUS
        <5> QED BY <4>1, <4>2, <5>1
      <4>7. expired' \in 0 .. issued'
        BY <3>6, <4>1 DEF RequestChallenge
      <4>4. provedBy' \in [Socket -> 0 .. issued']
        BY <3>6, <4>1 DEF RequestChallenge
      <4>5. auth' \in [Socket -> [ok : BOOLEAN, key : Key \cup {NoKey}, role : Role \cup {"unset"}]]
        BY <3>6 DEF RequestChallenge
      <4>6. owner' \in [Challenge -> Key \cup {NoKey}]
        BY <3>6 DEF RequestChallenge
      <4> QED BY <3>1, <3>6, <4>1, <4>2, <4>3, <4>4, <4>5, <4>6, <4>7 DEF RequestChallenge
    <3>7. ASSUME NEW s \in Socket, NEW k \in Key, NEW c \in Challenge,
                 NEW r \in Role \cup {"unset"}, NEW signed \in BOOLEAN, Respond(s, k, c, r, signed)
          PROVE TypeOK'
      <4>1. RoleOf(s, r) \in Role
        BY DEF RoleOf, Role
      <4>2. CASE Authenticate(s, k, c, RoleOf(s, r)) /\ Accepts(k, c, signed)
        <5>1. registry' \in Registry
          BY <4>1, <4>2, ActivatedIsRegistry DEF Authenticate
        <5>2. c \in stored /\ c \in 0 .. issued
          BY <4>2 DEF Accepts, Matches
        <5>3. link' \in [Socket -> {"unused", "open", "silent", "closing", "closed"}]
          BY <4>2 DEF Authenticate
        <5>4. auth' \in [Socket -> [ok : BOOLEAN, key : Key \cup {NoKey}, role : Role \cup {"unset"}]]
          BY <4>1, <4>2 DEF Authenticate
        <5>5. provedBy' \in [Socket -> 0 .. issued]
          BY <4>2, <5>2 DEF Authenticate
        <5> QED BY <3>1, <4>2, <5>1, <5>2, <5>3, <5>4, <5>5 DEF Authenticate
      <4>3. CASE ~Accepts(k, c, signed)
        BY <3>1, <3>7, <4>3 DEF Respond, store
      <4> QED BY <3>7, <4>2, <4>3 DEF Respond
    <3> QED BY <2>2, <3>2, <3>3, <3>4, <3>5, <3>6, <3>7 DEF SessionNext
  <2>3. CASE UNCHANGED ingressVars
    BY <2>3 DEF ingressVars, sessionVars, mailVars, store, SessionTypeOK, Registry
  <2>4. CASE Die
    <3>1. /\ link' \in [Socket -> {"unused", "open", "silent", "closing", "closed"}]
          /\ registry' \in Registry /\ stored' = {} /\ used' = {}
          /\ UNCHANGED <<auth, issued, owner, expired, provedBy>>
      BY <2>4 DEF Die, RelayDies, NoSessions, Registry, SessionTypeOK
    <3>2. /\ phase' \in [Mail -> {"rcpt", "reading", "accepted", "rejected"}]
          /\ UNCHANGED <<rcpt, written, reached>>
      BY <2>4 DEF Die
    <3> QED BY <3>1, <3>2 DEF SessionTypeOK
  <2> QED BY <2>1, <2>2, <2>3, <2>4 DEF Next
<1> QED BY <1>1, <1>2, PTL DEF Spec

-----------------------------------------------------------------------------
(* The registry and the history of authentication. *)

\* What makes OneSessionPerChallenge inductive: a challenge that opened a
\* session is marked used for as long as its record is kept.
ProvedIsUsed == \A s \in Socket : provedBy[s] \in stored => provedBy[s] \in used

\* Without the authenticated flag a connection proved nothing yet.
UnprovedUntilOk == \A s \in Socket : ~auth[s].ok => provedBy[s] = 0

SessionInv ==
  /\ RegistryConsistent
  /\ RegisteredIsAuthenticated
  /\ OneSessionPerChallenge
  /\ KeyWasChallenged
  /\ ProvedIsUsed
  /\ UnprovedUntilOk

\* The registry invariants only read the registry, the links and the flags.
LEMMA RegistryOnly ==
  ASSUME registry' = registry,
         \A s \in Socket : registry.identity[s] # NoIdentity =>
            auth'[s] = auth[s] /\ link'[s] \in {"open", "silent", "closing"}
  PROVE  /\ RegistryConsistent => RegistryConsistent'
         /\ RegisteredIsAuthenticated => RegisteredIsAuthenticated'
BY DEF RegistryConsistent, RegisteredIsAuthenticated

\* Marking, adding and sweeping records keeps the history facts, as long as
\* the connections' flags and proofs stay and used records are swept whole.
LEMMA HistoryOnly ==
  ASSUME SessionTypeOK, SessionInv,
         provedBy' = provedBy,
         \A s \in Socket : auth'[s].ok = auth[s].ok /\ (auth[s].ok => auth'[s] = auth[s]),
         \A c \in 1 .. issued : owner'[c] = owner[c],
         \A c \in 1 .. issued : c \in stored' => c \in stored /\ (c \in used => c \in used'),
         \A c \in stored' : c \in Nat \ {0}
  PROVE  OneSessionPerChallenge' /\ KeyWasChallenged' /\ ProvedIsUsed' /\ UnprovedUntilOk'
<1>1. \A s \in Socket : provedBy[s] \in 0 .. issued
  BY DEF SessionTypeOK
<1>2. OneSessionPerChallenge'
  BY DEF SessionInv, OneSessionPerChallenge
<1>3. KeyWasChallenged'
  BY <1>1 DEF SessionInv, KeyWasChallenged
<1>4. ProvedIsUsed'
  BY <1>1 DEF SessionInv, ProvedIsUsed
<1>5. UnprovedUntilOk'
  BY DEF SessionInv, UnprovedUntilOk
<1> QED BY <1>2, <1>3, <1>4, <1>5

\* An accepted response keeps everything: the challenge it consumes opened no
\* session before, and was issued for the key that signed.
LEMMA AuthenticateKeeps ==
  ASSUME SessionTypeOK, SessionInv, NEW s \in Socket, NEW k \in Key, NEW c \in Challenge,
         NEW role \in Role, NEW signed \in BOOLEAN,
         Receiving(s), ~auth[s].ok, Accepts(k, c, signed), Authenticate(s, k, c, role)
  PROVE  SessionInv'
<1> USE DEF SessionTypeOK
<1>1. registry \in Registry /\ Agree(registry)
  BY DEF SessionInv, RegistryConsistent, Agree
<1>2. Agree(registry') /\ registry' \in Registry
  BY <1>1, ActivatedAgrees, ActivatedIsRegistry DEF Authenticate
<1>3. RegistryConsistent'
  BY <1>2 DEF RegistryConsistent, Agree
<1>4. registry.identity[s] = NoIdentity
  BY DEF SessionInv, RegisteredIsAuthenticated
<1>5. \A t \in Socket : t # s => registry'.identity[t] \in {registry.identity[t], NoIdentity}
  BY <1>1, ActivatedIdentity DEF Authenticate
<1>6. registry'.identity[s] = [key |-> k, role |-> role]
  BY <1>1, ActivatedIdentity DEF Authenticate
<1>7. /\ auth' = [auth EXCEPT ![s] = [ok |-> TRUE, key |-> k, role |-> role]]
      /\ provedBy' = [provedBy EXCEPT ![s] = c]
      /\ used' = used \cup {c} /\ UNCHANGED <<issued, owner, stored>>
  BY DEF Authenticate
<1>8. \A t \in Socket : link[t] \in {"open", "silent", "closing"}
                          => link'[t] \in {"open", "silent", "closing"}
  BY DEF Authenticate
<1>9. RegisteredIsAuthenticated'
  <2> SUFFICES ASSUME NEW t \in Socket, registry'.identity[t] # NoIdentity
               PROVE  /\ link'[t] \in {"open", "silent", "closing"}
                      /\ auth'[t] = [ok |-> TRUE, key |-> registry'.identity[t].key,
                                     role |-> registry'.identity[t].role]
    BY DEF RegisteredIsAuthenticated
  <2>1. CASE t = s
    <3>1. link'[s] \in {"open", "silent", "closing"}
      BY <1>8 DEF Receiving
    <3>2. auth'[s] = [ok |-> TRUE, key |-> k, role |-> role]
      BY <1>7
    <3>3. registry'.identity[s].key = k /\ registry'.identity[s].role = role
      BY <1>6
    <3> QED BY <2>1, <3>1, <3>2, <3>3
  <2>2. CASE t # s
    BY <1>5, <1>7, <1>8, <2>2 DEF SessionInv, RegisteredIsAuthenticated
  <2> QED BY <2>1, <2>2
<1>10. c \in stored /\ c \notin used /\ c # 0 /\ owner[c] = k
  BY DEF Accepts, Matches, Challenge
<1>11. \A t \in Socket : provedBy[t] # c
  BY <1>10 DEF SessionInv, ProvedIsUsed
<1>12. OneSessionPerChallenge'
  BY <1>7, <1>11 DEF SessionInv, OneSessionPerChallenge
<1>13. KeyWasChallenged'
  BY <1>7, <1>10 DEF SessionInv, KeyWasChallenged
<1>14. ProvedIsUsed'
  BY <1>7 DEF SessionInv, ProvedIsUsed
<1>15. UnprovedUntilOk'
  BY <1>7 DEF SessionInv, UnprovedUntilOk
<1> QED BY <1>3, <1>9, <1>12, <1>13, <1>14, <1>15 DEF SessionInv

\* Every step of the websocket side keeps the invariant.
LEMMA SessionStep ==
  ASSUME SessionTypeOK, SessionInv, SessionNext
  PROVE  SessionInv'
<1> USE DEF SessionTypeOK
<1>1. CASE Expire
  <2>1. UNCHANGED <<link, auth, issued, owner, stored, used, registry, provedBy>>
    BY <1>1 DEF Expire
  <2> QED BY <2>1 DEF SessionInv, RegistryConsistent, RegisteredIsAuthenticated,
             OneSessionPerChallenge, KeyWasChallenged, ProvedIsUsed, UnprovedUntilOk
<1>2. CASE Sweep
  <2>1. stored' \subseteq stored /\ used' = used \cap stored'
    BY <1>2 DEF Sweep, Swept, NewestOf
  <2>2. UNCHANGED <<link, auth, issued, owner, registry, provedBy>>
    BY <1>2 DEF Sweep
  <2>3. RegistryConsistent' /\ RegisteredIsAuthenticated'
    BY <2>2, RegistryOnly DEF SessionInv, RegisteredIsAuthenticated
  <2>4. OneSessionPerChallenge' /\ KeyWasChallenged' /\ ProvedIsUsed' /\ UnprovedUntilOk'
    BY <2>1, <2>2, HistoryOnly
  <2> QED BY <2>3, <2>4 DEF SessionInv
<1>3. ASSUME NEW s \in Socket, Connect(s) \/ Refuse(s) \/ FallSilent(s) PROVE SessionInv'
  <2>1. UNCHANGED <<auth, store, registry, provedBy>>
    BY <1>3 DEF Connect, Refuse, FallSilent
  <2>2. \A t \in Socket : link[t] \in {"open", "silent", "closing"}
                            => link'[t] \in {"open", "silent", "closing"}
    BY <1>3 DEF Connect, Refuse, FallSilent
  <2>3. RegistryConsistent' /\ RegisteredIsAuthenticated'
    BY <2>1, <2>2, RegistryOnly DEF SessionInv, RegisteredIsAuthenticated
  <2>4. OneSessionPerChallenge' /\ KeyWasChallenged' /\ ProvedIsUsed' /\ UnprovedUntilOk'
    BY <2>1, HistoryOnly DEF store
  <2> QED BY <2>3, <2>4 DEF SessionInv
<1>4. ASSUME NEW s \in Socket, Close(s) PROVE SessionInv'
  <2>1. UNCHANGED <<auth, store, provedBy>> /\ registry' = Removed(registry, s)
        /\ link' = [link EXCEPT ![s] = "closed"]
    BY <1>4 DEF Close
  <2>2. registry \in Registry /\ Agree(registry)
    BY DEF SessionTypeOK, SessionInv, RegistryConsistent, Agree
  <2>3. registry'.identity = [registry.identity EXCEPT ![s] = NoIdentity] /\ Agree(registry')
    BY <2>1, <2>2, RemovedIsRegistry, RemovedAgrees
  <2>4. RegisteredIsAuthenticated'
    BY <2>1, <2>2, <2>3 DEF SessionInv, RegisteredIsAuthenticated, Registry, SessionTypeOK
  <2>5. OneSessionPerChallenge' /\ KeyWasChallenged' /\ ProvedIsUsed' /\ UnprovedUntilOk'
    BY <2>1, HistoryOnly DEF store
  <2> QED BY <2>3, <2>4, <2>5 DEF SessionInv, RegistryConsistent, Agree
<1>5. ASSUME NEW s \in Socket, NEW k \in Key, NEW r \in Role, RequestChallenge(s, k, r)
      PROVE SessionInv'
  <2>1. stored' \subseteq stored \cup {issued + 1} /\ used' = used \cap stored'
    BY <1>5 DEF RequestChallenge, Swept, NewestOf
  <2>2. /\ UNCHANGED <<link, registry, provedBy>> /\ ~auth[s].ok
        /\ auth' = [auth EXCEPT ![s] = [ok |-> FALSE, key |-> k, role |-> r]]
        /\ owner' = [owner EXCEPT ![issued + 1] = k]
    BY <1>5 DEF RequestChallenge
  <2>3. \A t \in Socket : auth'[t].ok = auth[t].ok /\ (auth[t].ok => auth'[t] = auth[t])
    BY <2>2 DEF SessionTypeOK
  <2>4. RegistryConsistent' /\ RegisteredIsAuthenticated'
    BY <2>2, <2>3, RegistryOnly DEF SessionInv, RegisteredIsAuthenticated
  <2>5. \A c \in 1 .. issued : owner'[c] = owner[c]
    BY <2>2, ChallengeBound DEF Challenge, SessionTypeOK
  <2>6. /\ \A c \in 1 .. issued : c \in stored' => c \in stored /\ (c \in used => c \in used')
        /\ \A c \in stored' : c \in Nat \ {0}
    BY <2>1 DEF SessionTypeOK
  <2>7. OneSessionPerChallenge' /\ KeyWasChallenged' /\ ProvedIsUsed' /\ UnprovedUntilOk'
    BY <2>2, <2>3, <2>5, <2>6, HistoryOnly
  <2> QED BY <2>4, <2>7 DEF SessionInv
<1>6. ASSUME NEW s \in Socket, NEW k \in Key, NEW c \in Challenge,
             NEW r \in Role \cup {"unset"}, NEW signed \in BOOLEAN, Respond(s, k, c, r, signed)
      PROVE SessionInv'
  <2>1. RoleOf(s, r) \in Role
    BY DEF RoleOf, Role
  <2>2. CASE Accepts(k, c, signed) /\ Authenticate(s, k, c, RoleOf(s, r))
    BY <1>6, <2>1, <2>2, AuthenticateKeeps DEF Respond
  <2>3. CASE ~Accepts(k, c, signed)
    <3>1. UNCHANGED <<auth, store, registry, provedBy>> /\ link' = [link EXCEPT ![s] = "closing"]
      BY <1>6, <2>3 DEF Respond
    <3>2. RegistryConsistent' /\ RegisteredIsAuthenticated'
      BY <3>1, RegistryOnly DEF SessionInv, RegisteredIsAuthenticated
    <3>3. OneSessionPerChallenge' /\ KeyWasChallenged' /\ ProvedIsUsed' /\ UnprovedUntilOk'
      BY <3>1, HistoryOnly DEF store
    <3> QED BY <3>2, <3>3 DEF SessionInv
  <2> QED BY <1>6, <2>2, <2>3 DEF Respond
<1> HIDE DEF SessionTypeOK
<1> QED BY <1>1, <1>2, <1>3, <1>4, <1>5, <1>6 DEF SessionNext

\* The end of the process keeps it too: what is left is history.
LEMMA DeathKeeps ==
  ASSUME SessionTypeOK, SessionInv, NEW s \in Socket, NEW k \in Key, NEW c \in Challenge,
         RelayDies(s, k, c)
  PROVE  SessionInv'
<1>1. /\ registry' = NoSessions /\ stored' = {}
      /\ UNCHANGED <<auth, owner, provedBy>>
  BY DEF RelayDies
<1>2. RegistryConsistent' /\ RegisteredIsAuthenticated'
  BY <1>1, NoValues DEF NoSessions, RegistryConsistent, RegisteredIsAuthenticated, NoIdentity
<1>3. OneSessionPerChallenge' /\ KeyWasChallenged' /\ ProvedIsUsed' /\ UnprovedUntilOk'
  BY <1>1 DEF SessionInv, OneSessionPerChallenge, KeyWasChallenged, ProvedIsUsed, UnprovedUntilOk
<1> QED BY <1>2, <1>3 DEF SessionInv

\* What a connection proved, and for which key, is never revised.
LEMMA ProofsStay ==
  ASSUME SessionTypeOK, SessionInv, SessionNext, NEW s \in Socket, provedBy[s] # 0
  PROVE  provedBy'[s] = provedBy[s] /\ owner'[provedBy[s]] = owner[provedBy[s]]
<1> USE DEF SessionTypeOK
<1>1. auth[s].ok /\ provedBy[s] \in 1 .. issued
  BY DEF SessionInv, UnprovedUntilOk
<1>2. ASSUME NEW t \in Socket, NEW k \in Key, NEW r \in Role, RequestChallenge(t, k, r)
      PROVE provedBy'[s] = provedBy[s] /\ owner'[provedBy[s]] = owner[provedBy[s]]
  BY <1>1, <1>2, ChallengeBound DEF RequestChallenge, Challenge
<1>3. ASSUME NEW t \in Socket, NEW k \in Key, NEW c \in Challenge,
             NEW r \in Role \cup {"unset"}, NEW signed \in BOOLEAN, Respond(t, k, c, r, signed)
      PROVE provedBy'[s] = provedBy[s] /\ owner'[provedBy[s]] = owner[provedBy[s]]
  BY <1>1, <1>3 DEF Respond, Authenticate, store
<1>4. CASE Expire \/ Sweep
  BY <1>4 DEF Expire, Sweep
<1>5. ASSUME NEW t \in Socket, Connect(t) \/ Refuse(t) \/ Close(t) \/ FallSilent(t)
      PROVE provedBy'[s] = provedBy[s] /\ owner'[provedBy[s]] = owner[provedBy[s]]
  BY <1>5 DEF Connect, Refuse, Close, FallSilent, store
<1> HIDE DEF SessionTypeOK
<1> QED BY <1>2, <1>3, <1>4, <1>5 DEF SessionNext

-----------------------------------------------------------------------------
(* The composition with SMTP ingress. *)

RelayInv == TypeOK /\ SessionInv /\ OnlyToRecipients

\* A fan-out writes to sockets that proved the key of an accepted recipient.
LEMMA FanOutIsolated ==
  ASSUME RelayInv, NEW m \in Mail, NEW s \in SessionsOf(m)
  PROVE  s \in Socket /\ provedBy[s] # 0 /\ \E k \in rcpt[m] : owner[provedBy[s]] = k
<1>1. PICK k \in rcpt[m] : s = registry.inbound[k] /\ s # NoSocket
  BY DEF SessionsOf
<1>2. k \in Key /\ s \in Socket
  BY <1>1 DEF RelayInv, TypeOK, SessionTypeOK, Registry
<1>3. registry.identity[s] = [key |-> k, role |-> "inbound"]
  BY <1>1, <1>2 DEF RelayInv, SessionInv, RegistryConsistent
<1>4. registry.identity[s] # NoIdentity
  BY <1>3 DEF NoIdentity
<1>5. auth[s] = [ok |-> TRUE, key |-> registry.identity[s].key, role |-> registry.identity[s].role]
  BY <1>2, <1>4 DEF RelayInv, SessionInv, RegisteredIsAuthenticated
<1>6. auth[s].ok /\ auth[s].key = k
  BY <1>3, <1>5
<1> QED BY <1>1, <1>2, <1>6 DEF RelayInv, SessionInv, KeyWasChallenged

\* Every step of an SMTP transaction keeps the mail properties.
LEMMA MailStep ==
  ASSUME RelayInv, MailNext
  PROVE  SessionInv' /\ OnlyToRecipients'
<1>1. UNCHANGED sessionVars
  BY DEF MailNext, Recipient, Data, RejectData, FanOut
<1>2. SessionInv'
  BY <1>1 DEF RelayInv, SessionInv, RegistryConsistent, RegisteredIsAuthenticated,
             OneSessionPerChallenge, KeyWasChallenged, ProvedIsUsed, UnprovedUntilOk,
             sessionVars, store
<1>3. UNCHANGED <<provedBy, owner>>
  BY <1>1 DEF sessionVars, store
<1>4. ASSUME NEW m \in Mail, NEW k \in Key, Recipient(m, k)
      PROVE OnlyToRecipients'
  <2>1. UNCHANGED <<phase, written>> /\ rcpt' = [rcpt EXCEPT ![m] = @ \cup {k}]
    BY <1>4 DEF Recipient
  <2>2. \A n \in Mail : rcpt[n] \subseteq rcpt'[n]
    BY <2>1 DEF RelayInv, TypeOK
  <2> QED BY <1>3, <2>1, <2>2 DEF RelayInv, OnlyToRecipients
<1>5. ASSUME NEW m \in Mail, Data(m) \/ RejectData(m)
      PROVE OnlyToRecipients'
  <2>1. UNCHANGED <<rcpt, written>> /\ phase[m] # "accepted"
        /\ \E p \in {"reading", "rejected"} : phase' = [phase EXCEPT ![m] = p]
    BY <1>5 DEF Data, RejectData
  <2> QED BY <1>3, <2>1 DEF RelayInv, TypeOK, OnlyToRecipients
<1>6. ASSUME NEW m \in Mail, FanOut(m) PROVE OnlyToRecipients'
  <2>1. /\ rcpt' = rcpt
        /\ written' = [written EXCEPT ![m] = SessionsOf(m)]
        /\ phase' = [phase EXCEPT ![m] = Verdict(m)]
    BY <1>6 DEF FanOut
  <2>2. OnlyToRecipients'
    BY <1>3, <2>1, FanOutIsolated DEF RelayInv, TypeOK, OnlyToRecipients
  <2> QED BY <2>2
<1> QED BY <1>2, <1>4, <1>5, <1>6 DEF MailNext

\* RelayInv is inductive.
LEMMA RelayInvHolds == Spec => []RelayInv
<1>1. Init => SessionInv /\ OnlyToRecipients
  BY NoValues DEF Init, SessionInit, NoSessions, SessionInv, RegistryConsistent, RegisteredIsAuthenticated,
        OneSessionPerChallenge, KeyWasChallenged, ProvedIsUsed, UnprovedUntilOk, NoIdentity, NoAuth,
        OnlyToRecipients
<1>2. TypeOK /\ TypeOK' /\ (SessionInv /\ OnlyToRecipients) /\ [Next]_ingressVars
        => (SessionInv /\ OnlyToRecipients)'
  <2> SUFFICES ASSUME RelayInv, [Next]_ingressVars
               PROVE (SessionInv /\ OnlyToRecipients)'
    BY DEF RelayInv
  <2>1. CASE MailNext
    BY <2>1, MailStep
  <2>2. CASE SessionNext /\ UNCHANGED mailVars
    <3>1. SessionInv'
      BY <2>2, SessionStep DEF RelayInv, TypeOK
    <3>2. \A s \in Socket : provedBy[s] # 0 =>
             provedBy'[s] = provedBy[s] /\ owner'[provedBy[s]] = owner[provedBy[s]]
      BY <2>2, ProofsStay DEF RelayInv, TypeOK
    <3>3. OnlyToRecipients'
      BY <2>2, <3>2 DEF mailVars, RelayInv, TypeOK, OnlyToRecipients
    <3> QED BY <2>2, <3>1, <3>3 DEF mailVars, RelayInv
  <2>3. CASE UNCHANGED ingressVars
    BY <2>3 DEF ingressVars, sessionVars, mailVars, store, RelayInv, SessionInv, RegistryConsistent,
         RegisteredIsAuthenticated, OneSessionPerChallenge, KeyWasChallenged, ProvedIsUsed,
         UnprovedUntilOk, OnlyToRecipients
  <2>4. CASE Die
    <3> PICK s \in Socket, k \in Key, c \in Challenge : RelayDies(s, k, c)
      BY <2>4 DEF Die
    <3>1. SessionInv'
      BY DeathKeeps DEF RelayInv, TypeOK
    <3>2. UNCHANGED <<provedBy, owner, rcpt, written>>
      BY <2>4 DEF Die, RelayDies
    <3> QED BY <3>1, <3>2 DEF RelayInv, OnlyToRecipients
  <2> QED BY <2>1, <2>2, <2>3, <2>4 DEF Next
<1> QED BY <1>1, <1>2, TypeCorrect, PTL DEF Spec, RelayInv

-----------------------------------------------------------------------------
\* The three indexes of the registry always agree.
THEOREM RegistryHolds == Spec => []RegistryConsistent
<1>1. RelayInv => RegistryConsistent
  BY DEF RelayInv, SessionInv
<1> QED BY <1>1, RelayInvHolds, PTL

\* Whatever is registered authenticated so and has not closed.
THEOREM RegisteredHolds == Spec => []RegisteredIsAuthenticated
<1>1. RelayInv => RegisteredIsAuthenticated
  BY DEF RelayInv, SessionInv
<1> QED BY <1>1, RelayInvHolds, PTL

\* No challenge ever opens two sessions.
THEOREM ChallengeOpensOne == Spec => []OneSessionPerChallenge
<1>1. RelayInv => OneSessionPerChallenge
  BY DEF RelayInv, SessionInv
<1> QED BY <1>1, RelayInvHolds, PTL

\* Every session's key answered a challenge issued for it.
THEOREM KeyHolds == Spec => []KeyWasChallenged
<1>1. RelayInv => KeyWasChallenged
  BY DEF RelayInv, SessionInv
<1> QED BY <1>1, RelayInvHolds, PTL

\* Mail is only written to sockets that proved a recipient's key.
THEOREM DeliveryIsolated == Spec => []OnlyToRecipients
<1>1. RelayInv => OnlyToRecipients
  BY DEF RelayInv
<1> QED BY <1>1, RelayInvHolds, PTL

\* An inbound session ends only when the socket that holds it closes: not when
\* a socket it replaced does, and not by anybody else's authentication.
THEOREM EndsHolds == Spec => EndsWithItsSocket
<1> DEFINE Ends == \A k \in Key, s \in Socket :
                     registry.inbound[k] = s /\ registry'.inbound[k] = NoSocket => link'[s] = "closed"
<1>2. ASSUME RelayInv, Die PROVE Ends
  <2> SUFFICES ASSUME NEW k \in Key, NEW s \in Socket, registry.inbound[k] = s
               PROVE  link'[s] = "closed"
    OBVIOUS
  <2>1. link[s] # "unused"
    <3>1. registry.identity[s] = [key |-> k, role |-> "inbound"]
      BY <1>2 DEF RelayInv, SessionInv, RegistryConsistent
    <3>2. registry.identity[s] # NoIdentity
      BY <3>1 DEF NoIdentity
    <3>3. RegisteredIsAuthenticated
      BY <1>2 DEF RelayInv, SessionInv
    <3> QED BY <3>2, <3>3 DEF RegisteredIsAuthenticated
  <2> QED BY <1>2, <2>1 DEF Die, RelayDies
<1>1. ASSUME RelayInv, [Next]_ingressVars PROVE [Ends]_sessionVars
  <2> SUFFICES ASSUME SessionNext, NEW k \in Key, NEW s \in Socket,
                      registry.inbound[k] = s, registry'.inbound[k] = NoSocket
               PROVE  link'[s] = "closed"
    BY <1>1, <1>2 DEF Next, MailNext, Recipient, Data, RejectData, FanOut, ingressVars
  <2>1. registry \in Registry /\ link \in [Socket -> {"unused", "open", "silent", "closing", "closed"}]
    BY <1>1 DEF RelayInv, TypeOK, SessionTypeOK
  <2>2. registry' # registry
    BY NoValues
  <2>3. ASSUME NEW t \in Socket, Close(t) PROVE link'[s] = "closed"
    <3>1. t = s
      BY <2>3, <2>1, NoValues DEF Close, Removed, Registry
    <3> QED BY <2>3, <2>1, <3>1 DEF Close
  <2>4. ASSUME NEW t \in Socket, NEW h \in Key, NEW c \in Challenge,
               NEW r \in Role \cup {"unset"}, NEW signed \in BOOLEAN, Respond(t, h, c, r, signed)
        PROVE FALSE
    <3>1. PICK role : registry' = Activated(registry, t, h, role)
      BY <2>2, <2>4 DEF Respond, Authenticate
    <3>2. registry.identity[t] = NoIdentity
      <4>1. ~auth[t].ok
        BY <2>4 DEF Respond
      <4>2. RegisteredIsAuthenticated
        BY <1>1 DEF RelayInv, SessionInv
      <4>3. registry.identity[t] # NoIdentity => auth[t] =
              [ok |-> TRUE, key |-> registry.identity[t].key, role |-> registry.identity[t].role]
        BY <4>2 DEF RegisteredIsAuthenticated
      <4> QED BY <4>1, <4>3
    <3>3. Removed(registry, t).inbound[k] = s
      BY <2>1, <3>2 DEF Removed, NoIdentity
    <3>4. Removed(registry, t) \in Registry
      BY <2>1, RemovedIsRegistry
    <3>5. registry'.inbound[k] \in {s, t}
      BY <3>1, <3>3, <3>4 DEF Activated, Registry
    <3> QED BY <3>5, NoValues
  <2> QED BY <2>2, <2>3, <2>4 DEF SessionNext, Expire, Sweep, Connect, Refuse, FallSilent,
                                   RequestChallenge
<1> QED BY <1>1, RelayInvHolds, PTL DEF Spec, EndsWithItsSocket
=============================================================================
