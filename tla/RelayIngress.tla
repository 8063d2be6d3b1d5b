---------------------------- MODULE RelayIngress ----------------------------
(***************************************************************************)
(* SMTP ingress of the relay (relay/src/smtp-server.ts, smtp-ingress.ts)   *)
(* composed with its websocket sessions: recipients are checked against    *)
(* the registry at RCPT, the message is read and evaluated asynchronously, *)
(* and the registry is read again when it is fanned out.                   *)
(***************************************************************************)
EXTENDS RelaySessions

CONSTANTS
  Mail,           \* SMTP transactions
  MaxRecipients   \* smtp.maxRecipients

ASSUME PositiveRecipients == MaxRecipients \in Nat \ {0}

VARIABLES
  phase,     \* how far each transaction is
  rcpt,      \* the recipients accepted at RCPT
  written,   \* the sockets the message was sent to
  reached    \* those of them that were not closing, where send takes effect

mailVars    == <<phase, rcpt, written, reached>>
ingressVars == <<sessionVars, mailVars>>

Init ==
  /\ SessionInit
  /\ phase = [m \in Mail |-> "rcpt"]
  /\ rcpt = [m \in Mail |-> {}]
  /\ written = [m \in Mail |-> {}]
  /\ reached = [m \in Mail |-> {}]

\* RCPT TO is accepted below the recipient cap when the persona has an inbound
\* session; otherwise it is refused (452, 450 or 550) and nothing changes.
Recipient(m, k) ==
  /\ phase[m] = "rcpt" /\ k \notin rcpt[m]
  /\ Cardinality(rcpt[m]) < MaxRecipients
  /\ registry.inbound[k] # NoSocket
  /\ rcpt' = [rcpt EXCEPT ![m] = @ \cup {k}]
  /\ UNCHANGED <<sessionVars, phase, written, reached>>

\* DATA within the message rate: the stream is read.
Data(m) ==
  /\ phase[m] = "rcpt" /\ rcpt[m] # {}
  /\ phase' = [phase EXCEPT ![m] = "reading"]
  /\ UNCHANGED <<sessionVars, rcpt, written, reached>>

\* 451 or 552 before any send: rate limited at DATA, too large, the stream
\* failed, or its authentication signals could not be evaluated.
RejectData(m) ==
  /\ \/ phase[m] = "rcpt" /\ rcpt[m] # {}
     \/ phase[m] = "reading"
  /\ phase' = [phase EXCEPT ![m] = "rejected"]
  /\ UNCHANGED <<sessionVars, rcpt, written, reached>>

\* Wrong variant: the inbound sessions of all personas.
SessionsOfAll(m) == {registry.inbound[k] : k \in Key} \ {NoSocket}

\* The inbound sessions that the accepted recipients have now.
SessionsOf(m) == {registry.inbound[k] : k \in rcpt[m]} \ {NoSocket}

\* 250 when one recipient at least was routed, 451 when none was.
Verdict(m) == IF SessionsOf(m) = {} THEN "rejected" ELSE "accepted"

\* The message was read and evaluated: send it to the session of each accepted
\* recipient.  A send on a closing socket is dropped without an error.
FanOut(m) ==
  /\ phase[m] = "reading"
  /\ phase' = [phase EXCEPT ![m] = Verdict(m)]
  /\ written' = [written EXCEPT ![m] = SessionsOf(m)]
  /\ reached' = [reached EXCEPT ![m] = {s \in SessionsOf(m) : link[s] # "closing"}]
  /\ UNCHANGED <<sessionVars, rcpt>>

MailNext ==
  \E m \in Mail :
    \/ \E k \in Key : Recipient(m, k)
    \/ Data(m)
    \/ RejectData(m)
    \/ FanOut(m)

\* The relay process ends: transactions under way break off, and their senders
\* take that for a refusal.
Die ==
  /\ \E s \in Socket, k \in Key, c \in Challenge : RelayDies(s, k, c)
  /\ phase' = [m \in Mail |-> IF phase[m] \in {"rcpt", "reading"} /\ rcpt[m] # {}
                              THEN "rejected" ELSE phase[m]]
  /\ UNCHANGED <<rcpt, written, reached>>

Next == MailNext \/ (SessionNext /\ UNCHANGED mailVars) \/ Die

Spec == Init /\ [][Next]_ingressVars

-----------------------------------------------------------------------------
TypeOK ==
  /\ SessionTypeOK
  /\ phase \in [Mail -> {"rcpt", "reading", "accepted", "rejected"}]
  /\ rcpt \in [Mail -> SUBSET Key]
  /\ written \in [Mail -> SUBSET Socket]
  /\ reached \in [Mail -> SUBSET Socket]

\* Mail for a persona is only ever written to sockets that proved, by a
\* challenge issued for it, the key of a recipient accepted at RCPT, although
\* sessions are replaced and close between RCPT and the fan-out.
OnlyToRecipients ==
  \A m \in Mail : \A s \in written[m] :
     provedBy[s] # 0 /\ \E k \in rcpt[m] : owner[provedBy[s]] = k

\* "If no recipients are deliverable at DATA, relay rejects the transaction with
\* 451" (relay README, recipient semantics 6): an accepted message reached a
\* session whose socket takes it.
AcceptedReached ==
  \A m \in Mail : phase[m] = "accepted" => reached[m] # {}
=============================================================================
