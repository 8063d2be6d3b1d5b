--------------------------- MODULE RelayDelivery ---------------------------
(***************************************************************************)
(* One email.send of the gateway, from the runtime action to the           *)
(* recipients' mail servers (gateway/outbound.ts, relay/src/outbound.ts):  *)
(* through the SMTP transport when one is configured, else as one tunnel   *)
(* stream per recipient on the persona's relay client.  The relay retries  *)
(* each stream towards the recipient's MX and reports the result on the    *)
(* websocket; the gateway waits for the reports, with a timeout, and       *)
(* repeats the whole send when an attempt fails.                           *)
(*                                                                         *)
(* The relay keeps nothing on disk, reports are not acknowledged, and the  *)
(* mail server's answer can be lost after it took the message.             *)
(***************************************************************************)
EXTENDS RelayClient, FiniteSets

CONSTANTS
  Recipient,     \* envelope recipients (to, cc and bcc, without duplicates)
  MaxAttempts,   \* retryPolicy.maxAttempts of the gateway
  RelayTries,    \* retryPolicy.maxAttempts of the relay
  ManyCopies     \* bound: copies are counted up to this number

ASSUME SomeRecipient == Recipient # {} /\ IsFiniteSet(Recipient)
ASSUME AttemptBounds == MaxAttempts \in Nat \ {0} /\ RelayTries \in Nat \ {0}
ASSUME CopiesCounted == ManyCopies \in Nat /\ ManyCopies > 1

\* The stream of a recipient in an attempt; its id is a fresh UUID.
Stream == (1 .. MaxAttempts) \X Recipient

VARIABLES
  route,     \* "smtp" with a transport, "relay" with a relay client
  call,      \* where the send stands, and at last its result
  attempt,
  waiters,   \* relayPendingSignalsByClient: streams whose report is awaited
  awaited,   \* streams whose waiter was handed to Promise.all
  answer,    \* what came of each waiter
  wire,      \* streams on their way to the relay
  job,       \* the relay's delivery of each stream
  tries,     \* attempts of that delivery
  lane,      \* streams that reached the relay over the current connection
  reports,   \* results on their way to the gateway
  copies,    \* copies each recipient's server took
  doubted,   \* recipients whose server took a copy the sender saw fail
  up         \* the gateway process lives

gatewayVars == <<route, call, attempt, waiters, awaited, answer, up>>
relayVars   == <<wire, job, tries, lane, reports>>
mxVars      == <<copies, doubted>>
vars        == <<clientVars, gatewayVars, relayVars, mxVars>>

StreamsOf(n) == {n} \X Recipient

More(n) == IF n < ManyCopies THEN n + 1 ELSE n

Init ==
  /\ ClientInit
  /\ route \in {"smtp", "relay"}
  /\ call = "ready" /\ attempt = 1
  /\ waiters = {} /\ awaited = {}
  /\ answer = [s \in Stream |-> "none"]
  /\ wire = {} /\ lane = {} /\ reports = {}
  /\ job = [s \in Stream |-> "none"]
  /\ tries = [s \in Stream |-> 0]
  /\ copies = [r \in Recipient |-> 0]
  /\ doubted = {}
  /\ up = TRUE

-----------------------------------------------------------------------------
(* The gateway's side. *)

\* Wrong variant: there is always another attempt.
ThrownAgain == "backoff"

\* The end of an attempt that threw.
Thrown == IF attempt >= MaxAttempts THEN "failed" ELSE "backoff"

\* Every frame of every stream is written in one go.  The guard of the relay
\* client is its authenticated flag: on a socket that is closing or broken the
\* frames are dropped without an error.
SendStreams ==
  /\ up /\ call = "ready" /\ route = "relay" /\ authenticated
  /\ call' = "waiting"
  /\ waiters' = waiters \cup StreamsOf(attempt)
  /\ awaited' = awaited \cup StreamsOf(attempt)
  /\ wire' = IF Carries THEN wire \cup StreamsOf(attempt) ELSE wire
  /\ UNCHANGED <<clientVars, route, attempt, answer, up, job, tries, lane, reports, mxVars>>

\* Without a session the first frame throws, when the waiter of its stream was
\* already registered.
SendThrows ==
  /\ up /\ call = "ready" /\ route = "relay" /\ ~authenticated
  /\ \E s \in StreamsOf(attempt) : waiters' = waiters \cup {s}
  /\ call' = Thrown
  /\ UNCHANGED <<clientVars, route, attempt, awaited, answer, up, relayVars, mxVars>>

\* Rendering the message fails, for one because an attachment is gone.
RenderThrows ==
  /\ up /\ call = "ready"
  /\ call' = Thrown
  /\ UNCHANGED <<clientVars, route, attempt, waiters, awaited, answer, up, relayVars, mxVars>>

\* transport.sendMail: it resolves when the server took the message for some
\* recipient, and rejects when it took it for none or its answer was lost.
SendBySmtp ==
  /\ up /\ call = "ready" /\ route = "smtp"
  /\ \E taken \in SUBSET Recipient, told \in BOOLEAN :
       /\ taken = {} => ~told
       /\ call' = IF told THEN "sent" ELSE Thrown
       /\ copies' = [r \in Recipient |-> IF r \in taken THEN More(copies[r]) ELSE copies[r]]
       /\ doubted' = IF told THEN doubted ELSE doubted \cup taken
  /\ UNCHANGED <<clientVars, route, attempt, waiters, awaited, answer, up, relayVars>>

Retry ==
  /\ up /\ call = "backoff"
  /\ call' = "ready" /\ attempt' = attempt + 1
  /\ UNCHANGED <<clientVars, route, waiters, awaited, answer, up, relayVars, mxVars>>

\* Wrong variant: a failed report counts as an answer like any other.
ResultOfAnswers(a) == IF \E s \in StreamsOf(attempt) : a[s] = "none" THEN "waiting" ELSE "sent"

\* Promise.all over the waiters of the attempt, then the search for a failure.
ResultOf(a) ==
  CASE \E s \in StreamsOf(attempt) : a[s] = "none" -> "waiting"
    [] \A s \in StreamsOf(attempt) : a[s] = "sent" -> "sent"
    [] OTHER -> Thrown

\* A report reaches the client: the waiter of its stream, if there still is
\* one, resolves; the client passes every control message on.
Report(s) ==
  /\ up /\ Events /\ peer = "alive"
  /\ \E status \in {"sent", "failed"} :
       /\ <<s, status>> \in reports
       /\ reports' = reports \ {<<s, status>>}
       /\ IF s \in waiters
          THEN /\ waiters' = waiters \ {s}
               /\ answer' = [answer EXCEPT ![s] = status]
               /\ call' = IF call = "waiting" /\ s \in StreamsOf(attempt)
                          THEN ResultOf(answer') ELSE call
          ELSE UNCHANGED <<waiters, answer, call>>
  /\ UNCHANGED <<clientVars, route, attempt, awaited, up, wire, job, tries, lane, mxVars>>

\* Wrong variant: a timeout fails the attempt.
TimeoutThrows(s) ==
  /\ up /\ s \in waiters /\ s \in awaited
  /\ waiters' = waiters \ {s}
  /\ answer' = [answer EXCEPT ![s] = "timeout"]
  /\ call' = IF call = "waiting" /\ s \in StreamsOf(attempt) THEN Thrown ELSE call
  /\ UNCHANGED <<clientVars, route, attempt, awaited, up, relayVars, mxVars>>

\* Wrong variant: the waiter goes without an answer.
TimeoutForgets(s) ==
  /\ up /\ s \in waiters /\ s \in awaited
  /\ waiters' = waiters \ {s}
  /\ UNCHANGED <<clientVars, route, call, attempt, awaited, answer, up, relayVars, mxVars>>

\* A waiter's timer: Promise.all rejects at once, and the send is taken for
\* queued.  Waiters of an attempt that is over reject unnoticed.
Timeout(s) ==
  /\ up /\ s \in waiters /\ s \in awaited
  /\ waiters' = waiters \ {s}
  /\ answer' = [answer EXCEPT ![s] = "timeout"]
  /\ call' = IF call = "waiting" /\ s \in StreamsOf(attempt) THEN "queued" ELSE call
  /\ UNCHANGED <<clientVars, route, attempt, awaited, up, relayVars, mxVars>>

\* The timer of a waiter that nothing awaits: its rejection is unhandled, and
\* the process, which installs no handler for it, ends.
OrphanTimeout(s) ==
  /\ up /\ s \in waiters \ awaited
  /\ up' = FALSE
  /\ waiters' = {}
  /\ UNCHANGED <<clientVars, route, call, attempt, awaited, answer, relayVars, mxVars>>

-----------------------------------------------------------------------------
(* The relay's side. *)

\* The last frame of a stream arrives: its delivery begins.
StreamEnds(s) ==
  /\ s \in wire /\ Carries
  /\ wire' = wire \ {s}
  /\ lane' = lane \cup {s}
  /\ job' = [job EXCEPT ![s] = "sending"]
  /\ UNCHANGED <<clientVars, gatewayVars, tries, reports, mxVars>>

\* The result goes to the socket the stream came from, while it is registered;
\* what is written to a broken connection is lost.
Reported(s, status) ==
  IF s \in lane /\ Carries THEN reports \cup {<<s, status>>} ELSE reports

\* sendMail succeeded.
Delivered(s) ==
  /\ job[s] = "sending"
  /\ job' = [job EXCEPT ![s] = "sent"]
  /\ copies' = [copies EXCEPT ![s[2]] = More(@)]
  /\ reports' = Reported(s, "sent")
  /\ UNCHANGED <<clientVars, gatewayVars, wire, tries, lane, doubted>>

\* Wrong variant: the first failure is reported.
TryFailsAtOnce(s) ==
  /\ job[s] = "sending"
  /\ tries' = [tries EXCEPT ![s] = @ + 1]
  /\ \/ UNCHANGED mxVars
     \/ /\ copies' = [copies EXCEPT ![s[2]] = More(@)]
        /\ doubted' = doubted \cup {s[2]}
  /\ job' = [job EXCEPT ![s] = "failed"]
  /\ reports' = Reported(s, "failed")
  /\ UNCHANGED <<clientVars, gatewayVars, wire, lane>>

\* sendMail failed, before or after the server took the message.  The last
\* failure is reported.
TryFails(s) ==
  /\ job[s] = "sending"
  /\ tries' = [tries EXCEPT ![s] = @ + 1]
  /\ \/ UNCHANGED mxVars
     \/ /\ copies' = [copies EXCEPT ![s[2]] = More(@)]
        /\ doubted' = doubted \cup {s[2]}
  /\ IF tries'[s] < RelayTries
     THEN UNCHANGED <<job, reports>>
     ELSE /\ job' = [job EXCEPT ![s] = "failed"]
          /\ reports' = Reported(s, "failed")
  /\ UNCHANGED <<clientVars, gatewayVars, wire, lane>>

\* The relay process dies: its deliveries die with it.
RelayDies ==
  /\ Fault /\ peer' = "gone"
  /\ job' = [s \in Stream |-> IF job[s] = "sending" THEN "lost" ELSE job[s]]
  /\ wire' = {} /\ lane' = {} /\ reports' = {}
  /\ UNCHANGED <<gatewayVars, tries, mxVars>>

-----------------------------------------------------------------------------
\* A step of the client; what the old connection carried is lost with it: what
\* still gets through after a break might as well have come before it.
ClientStep ==
  /\ up /\ ClientNext
  /\ IF Carries /\ (phase' # "open" \/ peer' # "alive")
     THEN wire' = {} /\ lane' = {} /\ reports' = {}
     ELSE UNCHANGED <<wire, lane, reports>>
  /\ UNCHANGED <<gatewayVars, job, tries, mxVars>>

GatewayStep ==
  \/ SendStreams \/ SendThrows \/ RenderThrows \/ SendBySmtp \/ Retry
  \/ \E s \in Stream : Report(s) \/ Timeout(s) \/ OrphanTimeout(s)

RelayStep == \E s \in Stream : StreamEnds(s) \/ Delivered(s) \/ TryFails(s)

Next == GatewayStep \/ RelayStep \/ ClientStep \/ RelayDies

Spec == Init /\ [][Next]_vars

\* Timers fire, promises that are settled are continued, the relay's own SMTP
\* tries end, and the client keeps reconnecting.
FairSpec ==
  /\ Spec
  /\ WF_vars(SendStreams \/ SendThrows \/ SendBySmtp \/ Retry)
  /\ \A s \in Stream : WF_vars(Timeout(s)) /\ WF_vars(Delivered(s) \/ TryFails(s))
  /\ WF_vars(ClientStep /\ ClientProgress)

-----------------------------------------------------------------------------
TypeOK ==
  /\ ClientTypeOK
  /\ route \in {"smtp", "relay"}
  /\ call \in {"ready", "waiting", "backoff", "sent", "queued", "failed"}
  /\ attempt \in 1 .. MaxAttempts
  /\ waiters \subseteq Stream /\ awaited \subseteq Stream
  /\ answer \in [Stream -> {"none", "sent", "failed", "timeout"}]
  /\ wire \subseteq Stream /\ lane \subseteq Stream
  /\ job \in [Stream -> {"none", "sending", "sent", "failed", "lost"}]
  /\ tries \in [Stream -> 0 .. RelayTries]
  /\ reports \subseteq Stream \X {"sent", "failed"}
  /\ copies \in [Recipient -> 0 .. ManyCopies]
  /\ doubted \subseteq Recipient
  /\ up \in BOOLEAN

\* A send that is reported as sent through the relay was taken by the mail
\* server of every recipient, through retries of both sides, late reports of
\* earlier attempts and reconnections (gateway README, relay note 7: strict
\* send success).
SentMeansDelivered ==
  call = "sent" /\ route = "relay" => \A r \in Recipient : copies[r] > 0

\* Through the relay a recipient gets a second copy only because a mail server
\* took one and its answer was lost, or because another recipient's delivery
\* failed for good and the whole send was repeated; never because a report was
\* late or lost (gateway README, relay note 8).
DuplicatesHaveCause ==
  route = "relay" =>
    \A r \in Recipient : copies[r] > 1 =>
       r \in doubted \/ \E s \in Stream : s[2] # r /\ job[s] = "failed"

\* A send through the relay fails only if in its last attempt some delivery
\* failed every try of the relay, or nothing of it left the gateway: a missing
\* report alone is never taken for a failure.
FailureIsReal ==
  call = "failed" /\ route = "relay" =>
    \/ \E s \in StreamsOf(attempt) : job[s] = "failed" /\ tries[s] = RelayTries
    \/ \A s \in StreamsOf(attempt) : job[s] = "none" /\ s \notin wire

\* Once an awaited report timed out, no frame of this send is ever written
\* again (gateway README, relay note 8, "to avoid duplicate outbound resends").
NoResendAfterTimeout ==
  [][(\E s \in awaited : answer[s] = "timeout") => wire' \subseteq wire /\ attempt' = attempt]_vars

\* The send ends, or its process does.
CallEnds == <>(call \in {"sent", "queued", "failed"} \/ ~up)

\* Until it is stopped the client ends up authenticated again, whatever fails
\* or stalls meanwhile, as long as its process lives (relay-client.ts,
\* "reconnect behavior").
SessionReturns == (~authenticated /\ ~stopped) ~> (authenticated \/ stopped \/ ~up)

\* A send that cannot be made is an error for the tool call and nothing more:
\* it does not take the gateway down (ADR-0029, "Tool-call failures are
\* surfaced back to the model as structured tool-error results, not immediate
\* terminal run failures").
GatewaySurvives == up
=============================================================================
