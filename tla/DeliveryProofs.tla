--------------------------- MODULE DeliveryProofs ---------------------------
(***************************************************************************)
(* What TLAPS proves about one email.send for every set of recipients and  *)
(* every number of attempts, tries and connection faults.                  *)
(***************************************************************************)
EXTENDS RelayDelivery, TLAPS

-----------------------------------------------------------------------------
(* The client by itself. *)

ClientInv == ClientTypeOK /\ NeverStranded

\* Every step of the client keeps its type and its way back.
LEMMA ClientKeeps ==
  ASSUME ClientInv, [ClientNext]_clientVars
  PROVE  ClientInv'
<1> USE FaultBound DEF ClientInv, ClientTypeOK, NeverStranded
<1>1. CASE Opened BY <1>1 DEF Opened
<1>2. CASE Challenged BY <1>2 DEF Challenged, Events
<1>3. CASE Granted BY <1>3 DEF Granted
<1>4. CASE Refused BY <1>4 DEF Refused
<1>5. CASE Fault BY <1>5 DEF Fault
<1>6. CASE HeartbeatFires
  <2>1. faults' \in 0 .. MaxFaults
    BY <1>6 DEF HeartbeatFires
  <2>2. phase' = "closed" <=> phase = "closed"
    BY <1>6 DEF HeartbeatFires
  <2> QED BY <1>6, <2>1, <2>2 DEF HeartbeatFires
<1>7. CASE Closed BY <1>7 DEF Closed
<1>8. CASE ReconnectFires BY <1>8 DEF ReconnectFires
<1>9. CASE Stop BY <1>9 DEF Stop
<1>10. CASE UNCHANGED clientVars BY <1>10 DEF clientVars
<1> QED BY <1>1, <1>2, <1>3, <1>4, <1>5, <1>6, <1>7, <1>8, <1>9, <1>10 DEF ClientNext

\* The relay's death is a fault of the connection.
LEMMA ClientSide ==
  ASSUME [Next]_vars
  PROVE  [ClientNext]_clientVars
<1>1. CASE GatewayStep
  BY <1>1 DEF GatewayStep, SendStreams, SendThrows, RenderThrows, SendBySmtp, Retry, Report,
              Timeout, OrphanTimeout
<1>2. CASE RelayStep
  BY <1>2 DEF RelayStep, StreamEnds, Delivered, TryFails
<1>3. CASE ClientStep BY <1>3 DEF ClientStep
<1>4. CASE RelayDies BY <1>4 DEF RelayDies, ClientNext
<1>5. CASE UNCHANGED vars BY <1>5 DEF vars, clientVars
<1> QED BY <1>1, <1>2, <1>3, <1>4, <1>5 DEF Next

-----------------------------------------------------------------------------
(* Type correctness. *)

\* Copies are only ever added, up to the bound.
LEMMA MoreIsMore ==
  ASSUME NEW n \in 0 .. ManyCopies
  PROVE  More(n) \in 0 .. ManyCopies /\ More(n) > 0 /\ More(n) >= n /\ (n = 0 => More(n) = 1)
BY CopiesCounted DEF More

\* Promise.all and the search for a failure give one of these results.
LEMMA ResultTypes ==
  ASSUME NEW a
  PROVE  /\ ResultOf(a) \in {"waiting", "sent", "failed", "backoff"}
         /\ Thrown \in {"failed", "backoff"}
BY DEF ResultOf, Thrown

\* Only an attempt that is not the last is followed by another.
BackoffLeft == call = "backoff" => attempt < MaxAttempts

\* A delivery counts its failed tries, and gives up at the last.
JobTries ==
  \A s \in Stream :
    /\ job[s] = "none" => tries[s] = 0
    /\ job[s] = "sending" => tries[s] < RelayTries
    /\ job[s] = "failed" => tries[s] = RelayTries

\* The steps of the gateway keep the type of its state.
LEMMA GatewayTypes ==
  ASSUME TypeOK, BackoffLeft, GatewayStep, ClientTypeOK'
  PROVE  TypeOK'
<1> USE AttemptBounds DEF TypeOK
<1>1. StreamsOf(attempt) \subseteq Stream
  BY DEF StreamsOf, Stream
<1>2. CASE SendStreams BY <1>1, <1>2 DEF SendStreams, mxVars
<1>3. CASE SendThrows BY <1>1, <1>3, ResultTypes DEF SendThrows, relayVars, mxVars
<1>4. CASE RenderThrows BY <1>4, ResultTypes DEF RenderThrows, relayVars, mxVars
<1>5. CASE SendBySmtp
  <2>1. copies' \in [Recipient -> 0 .. ManyCopies]
    <3>1. \A r \in Recipient : More(copies[r]) \in 0 .. ManyCopies
      BY MoreIsMore
    <3> QED BY <1>5, <3>1 DEF SendBySmtp
  <2> QED BY <1>5, <2>1, ResultTypes DEF SendBySmtp, relayVars
<1>6. CASE Retry
  <2>1. attempt + 1 \in 1 .. MaxAttempts
    BY <1>6 DEF Retry, BackoffLeft
  <2> QED BY <1>6, <2>1 DEF Retry, relayVars, mxVars
<1>7. ASSUME NEW s \in Stream, Report(s) PROVE TypeOK'
  <2>1. waiters' \subseteq Stream /\ reports' \subseteq Stream \X {"sent", "failed"}
    BY <1>7 DEF Report
  <2>2. call' \in {"ready", "waiting", "backoff", "sent", "queued", "failed"}
    BY <1>7, ResultTypes DEF Report
  <2>3. answer' \in [Stream -> {"none", "sent", "failed", "timeout"}]
    BY <1>7 DEF Report
  <2> QED BY <1>7, <2>1, <2>2, <2>3 DEF Report, mxVars
<1>8. ASSUME NEW s \in Stream, Timeout(s) PROVE TypeOK'
  BY <1>8 DEF Timeout, relayVars, mxVars
<1>9. ASSUME NEW s \in Stream, OrphanTimeout(s) PROVE TypeOK'
  BY <1>9 DEF OrphanTimeout, relayVars, mxVars
<1> QED BY <1>2, <1>3, <1>4, <1>5, <1>6, <1>7, <1>8, <1>9 DEF GatewayStep

\* The steps of the relay keep it.
LEMMA RelayTypes ==
  ASSUME TypeOK, JobTries, RelayStep
  PROVE  TypeOK'
<1> USE AttemptBounds DEF TypeOK
<1> SUFFICES ASSUME NEW s \in Stream, StreamEnds(s) \/ Delivered(s) \/ TryFails(s)
             PROVE  TypeOK'
  BY DEF RelayStep
<1>1. s[2] \in Recipient /\ copies[s[2]] \in 0 .. ManyCopies
  BY DEF Stream
<1>2. [copies EXCEPT ![s[2]] = More(@)] \in [Recipient -> 0 .. ManyCopies]
  BY <1>1, MoreIsMore
<1>3. \A x \in {"sent", "failed"} : Reported(s, x) \subseteq Stream \X {"sent", "failed"}
  BY DEF Reported
<1>4. UNCHANGED <<clientVars, gatewayVars>> => ClientTypeOK'
  BY DEF clientVars, ClientTypeOK
<1>5. CASE StreamEnds(s)
  BY <1>4, <1>5 DEF StreamEnds, gatewayVars, mxVars
<1>6. CASE Delivered(s)
  BY <1>2, <1>3, <1>4, <1>6 DEF Delivered, gatewayVars
<1>7. CASE TryFails(s)
  <2>1. tries[s] + 1 \in 0 .. RelayTries
    BY <1>7 DEF TryFails, JobTries
  <2>4. tries' \in [Stream -> 0 .. RelayTries]
    BY <1>7, <2>1 DEF TryFails
  <2>2. copies' \in [Recipient -> 0 .. ManyCopies] /\ doubted' \subseteq Recipient
    BY <1>1, <1>2, <1>7 DEF TryFails, mxVars
  <2>3. /\ job' \in [Stream -> {"none", "sending", "sent", "failed", "lost"}]
        /\ reports' \subseteq Stream \X {"sent", "failed"}
    BY <1>3, <1>7 DEF TryFails
  <2> QED BY <1>4, <1>7, <2>2, <2>3, <2>4 DEF TryFails, gatewayVars
<1> QED BY <1>5, <1>6, <1>7

\* The type and the client's way back hold initially.
LEMMA InitTypes == Init => TypeOK /\ NeverStranded
<1> SUFFICES ASSUME Init PROVE TypeOK /\ NeverStranded
  OBVIOUS
<1>1. ClientTypeOK /\ NeverStranded
  <2>1. ClientInit /\ 0 \in 0 .. MaxFaults
    BY FaultBound DEF Init
  <2>2. ClientTypeOK
    BY ONLY <2>1 DEF ClientInit, ClientTypeOK
  <2>3. reconnect = FALSE /\ phase # "closed"
    BY ONLY <2>1 DEF ClientInit
  <2> QED BY <2>2, <2>3 DEF NeverStranded
<1>2. attempt \in 1 .. MaxAttempts /\ 0 \in 0 .. RelayTries /\ 0 \in 0 .. ManyCopies
  BY AttemptBounds, CopiesCounted DEF Init
<1>3. tries \in [Stream -> 0 .. RelayTries] /\ copies \in [Recipient -> 0 .. ManyCopies]
  BY <1>2 DEF Init
<1> QED BY <1>1, <1>2, <1>3 DEF Init, TypeOK

\* The remaining steps keep the type.
LEMMA ConnectionTypes ==
  ASSUME TypeOK, ClientTypeOK', ClientStep \/ RelayDies \/ UNCHANGED vars
  PROVE  TypeOK'
<1> USE DEF TypeOK
<1>1. CASE ClientStep BY <1>1 DEF ClientStep, gatewayVars, mxVars
<1>2. CASE RelayDies BY <1>2 DEF RelayDies, gatewayVars, mxVars
<1>3. CASE UNCHANGED vars
  BY <1>3 DEF vars, gatewayVars, relayVars, mxVars
<1> QED BY <1>1, <1>2, <1>3

-----------------------------------------------------------------------------
(* What a send may conclude: the strengthening of the safety invariants. *)

\* A stream on its way was not delivered yet.
WireFresh == \A s \in wire : job[s] = "none"

\* A report, on its way or received, says what became of the delivery.
ReportsTrue ==
  \A s \in Stream, x \in {"sent", "failed"} : <<s, x>> \in reports => job[s] = x

AnswersTrue ==
  \A s \in Stream, x \in {"sent", "failed"} : answer[s] = x => job[s] = x

\* A delivered stream left a copy with its recipient.
SentTaken == \A s \in Stream : job[s] = "sent" => copies[s[2]] > 0

\* What comes later of the send is untouched.
FutureUnused ==
  \A s \in Stream : s[1] > attempt \/ (s[1] = attempt /\ call = "ready") =>
    /\ job[s] = "none" /\ answer[s] = "none"
    /\ s \notin wire /\ s \notin awaited /\ s \notin waiters

\* A waiter has no answer; one that is awaited belongs to the attempt that
\* runs, or ran when the send was taken for queued.
WaitersOpen ==
  /\ \A s \in waiters : answer[s] = "none"
  /\ \A s \in waiters \cap awaited : s[1] = attempt /\ call \in {"waiting", "queued"}

\* Promise.all waits for every stream of the attempt, and its first timeout
\* ends the send.
Awaiting ==
  /\ call = "waiting" => StreamsOf(attempt) \subseteq awaited
  /\ \A s \in awaited : answer[s] = "timeout" => call = "queued"

\* A send through the relay is sent by the reports of its last attempt.
SentAnswered ==
  call = "sent" /\ route = "relay" => \A s \in StreamsOf(attempt) : answer[s] = "sent"

\* An attempt that is over was either not begun, or a delivery of it failed.
Left(n) == n < attempt \/ (n = attempt /\ call \in {"backoff", "failed"})

LeftCause ==
  \A n \in 1 .. MaxAttempts : Left(n) =>
    \/ \A s \in StreamsOf(n) : job[s] = "none" /\ s \notin wire
    \/ \E s \in StreamsOf(n) : job[s] = "failed"

\* Unless a server's answer was lost, every copy has a delivery of its own.
CopiesFound ==
  route = "relay" => \A r \in Recipient \ doubted :
    /\ copies[r] > 0 => \E n \in 1 .. MaxAttempts : job[<<n, r>>] = "sent"
    /\ copies[r] > 1 => \E n, m \in 1 .. MaxAttempts :
         n < m /\ job[<<n, r>>] = "sent" /\ job[<<m, r>>] = "sent"

Evidence == JobTries /\ WireFresh /\ ReportsTrue /\ AnswersTrue /\ SentTaken /\ CopiesFound

Progress ==
  BackoffLeft /\ FutureUnused /\ WaitersOpen /\ Awaiting /\ SentAnswered /\ LeftCause

SendInv == Evidence /\ Progress

\* Initially nothing was sent.
LEMMA InitEvidence == Init => SendInv
<1> SUFFICES ASSUME Init PROVE SendInv
  OBVIOUS
<1>1. Evidence
  BY AttemptBounds DEF Init, Evidence, JobTries, WireFresh, ReportsTrue, AnswersTrue, SentTaken,
                       CopiesFound
<1>2. Progress
  BY AttemptBounds DEF Init, Progress, BackoffLeft, FutureUnused, WaitersOpen, Awaiting,
                       SentAnswered, LeftCause, Left, StreamsOf, Stream
<1> QED BY <1>1, <1>2 DEF SendInv

\* Losing frames, reports, deliveries and waiters is no evidence of anything.
LEMMA LosingKeeps ==
  ASSUME TypeOK, SendInv,
         UNCHANGED <<route, call, attempt, awaited, answer, tries, copies, doubted>>,
         wire' \subseteq wire, reports' \subseteq reports, waiters' \subseteq waiters,
         job' = job \/ job' = [s \in Stream |-> IF job[s] = "sending" THEN "lost" ELSE job[s]]
  PROVE  SendInv'
<1>1. \A s \in Stream : /\ job'[s] = job[s] \/ (job[s] = "sending" /\ job'[s] = "lost")
  BY DEF TypeOK
<1>2. \A s \in Stream, x \in {"none", "sent", "failed"} : job'[s] = x <=> job[s] = x
  BY <1>1
<1>3. \A s \in Stream : job'[s] = "sending" => job[s] = "sending"
  BY <1>1
<1>4. wire \subseteq Stream /\ attempt \in Nat
  BY DEF TypeOK
<1>5. \A n \in 1 .. MaxAttempts, r \in Recipient : <<n, r>> \in Stream
  BY DEF Stream
<1>6. JobTries' /\ WireFresh' /\ ReportsTrue' /\ AnswersTrue' /\ SentTaken'
  BY <1>2, <1>3, <1>4 DEF SendInv, Evidence, JobTries, WireFresh, ReportsTrue, AnswersTrue, SentTaken
<1>7. CopiesFound'
  BY <1>2, <1>5 DEF SendInv, Evidence, CopiesFound
<1>8. BackoffLeft' /\ FutureUnused' /\ WaitersOpen' /\ Awaiting' /\ SentAnswered'
  BY <1>2 DEF SendInv, Progress, BackoffLeft, FutureUnused, WaitersOpen, Awaiting, SentAnswered,
              StreamsOf
<1>9. LeftCause'
  <2> SUFFICES ASSUME NEW n \in 1 .. MaxAttempts, Left(n)
               PROVE  \/ \A s \in StreamsOf(n) : job'[s] = "none" /\ s \notin wire'
                      \/ \E s \in StreamsOf(n) : job'[s] = "failed"
    BY DEF LeftCause, Left, StreamsOf
  <2>1. StreamsOf(n) \subseteq Stream
    BY DEF StreamsOf, Stream
  <2> QED BY <1>2, <2>1 DEF SendInv, Progress, LeftCause
<1> QED BY <1>6, <1>7, <1>8, <1>9 DEF SendInv, Evidence, Progress

\* Evidence that is not touched stays; answers may only repeat reports.
LEMMA EvidenceStays ==
  ASSUME TypeOK, SendInv,
         UNCHANGED <<route, job, tries, copies, doubted>>,
         \A s \in wire' : s \in wire \/ job[s] = "none",
         reports' \subseteq reports,
         \A s \in Stream, x \in {"sent", "failed"} :
            answer'[s] = x => answer[s] = x \/ <<s, x>> \in reports
  PROVE  Evidence'
BY DEF SendInv, Evidence, JobTries, WireFresh, ReportsTrue, AnswersTrue, SentTaken, CopiesFound

\* An attempt that was over stays over for the same reason, as long as the
\* wire takes nothing for it.
LEMMA LeftStays ==
  ASSUME TypeOK, SendInv, NEW n \in 1 .. MaxAttempts, Left(n),
         \A s \in Stream : job[s] \in {"none", "failed"} =>
            job'[s] = job[s] \/ s \in wire,
         \A s \in StreamsOf(n) : s \in wire' => s \in wire
  PROVE  \/ \A s \in StreamsOf(n) : job'[s] = "none" /\ s \notin wire'
         \/ \E s \in StreamsOf(n) : job'[s] = "failed"
<1>1. StreamsOf(n) \subseteq Stream
  BY DEF StreamsOf, Stream
<1>2. CASE \A s \in StreamsOf(n) : job[s] = "none" /\ s \notin wire
  BY <1>1, <1>2
<1>3. CASE \E s \in StreamsOf(n) : job[s] = "failed"
  <2>1. PICK s \in StreamsOf(n) : job[s] = "failed"
    BY <1>3
  <2>2. s \notin wire
    BY <2>1 DEF SendInv, Evidence, WireFresh
  <2> QED BY <1>1, <2>1, <2>2
<1> QED BY <1>2, <1>3 DEF SendInv, Progress, LeftCause

\* An attempt that throws before it wrote a frame leaves nothing behind.
LEMMA ThrowKeeps ==
  ASSUME TypeOK, SendInv, call = "ready", call' = Thrown,
         UNCHANGED <<route, attempt, awaited, answer, wire, job, tries, reports, copies, doubted>>,
         \A s \in waiters' : s \in waiters \/ s \in StreamsOf(attempt)
  PROVE  SendInv'
<1> USE DEF SendInv, Progress
<1>1. call' \in {"failed", "backoff"} /\ (call' = "backoff" => attempt < MaxAttempts)
  BY AttemptBounds DEF Thrown, TypeOK
<1>2. Evidence'
  BY EvidenceStays
<1>3. \A s \in StreamsOf(attempt) :
        s \in Stream /\ s[1] = attempt /\ job[s] = "none" /\ answer[s] = "none"
        /\ s \notin wire /\ s \notin awaited
  BY DEF FutureUnused, StreamsOf, Stream, TypeOK
<1>4. BackoffLeft' /\ SentAnswered'
  BY <1>1 DEF BackoffLeft, SentAnswered
<1>5. FutureUnused'
  BY <1>1, <1>3 DEF FutureUnused, TypeOK
<1>6. WaitersOpen' /\ Awaiting'
  BY <1>1, <1>3 DEF WaitersOpen, Awaiting
<1>7. LeftCause'
  <2> SUFFICES ASSUME NEW n \in 1 .. MaxAttempts, Left(n)'
               PROVE  \/ \A s \in StreamsOf(n) : job'[s] = "none" /\ s \notin wire'
                      \/ \E s \in StreamsOf(n) : job'[s] = "failed"
    BY DEF LeftCause, StreamsOf
  <2>1. n = attempt \/ Left(n)
    BY DEF Left
  <2> QED BY <1>3, <2>1, LeftStays
<1> QED BY <1>2, <1>4, <1>5, <1>6, <1>7

\* Writing the streams of an attempt.
LEMMA SendKeeps ==
  ASSUME TypeOK, SendInv, SendStreams
  PROVE  SendInv'
<1> USE DEF SendInv, Progress
<1> DEFINE mine == StreamsOf(attempt)
<1>1. /\ call = "ready" /\ call' = "waiting"
      /\ waiters' = waiters \cup mine /\ awaited' = awaited \cup mine
      /\ wire' \in {wire, wire \cup mine}
      /\ UNCHANGED <<route, attempt, answer, job, tries, reports, copies, doubted>>
  BY DEF SendStreams, mxVars
<1>2. \A s \in mine :
        s \in Stream /\ s[1] = attempt /\ job[s] = "none" /\ answer[s] = "none"
        /\ s \notin wire /\ s \notin awaited
  BY <1>1 DEF FutureUnused, StreamsOf, Stream, TypeOK
<1>3. Evidence'
  BY <1>1, <1>2, EvidenceStays
<1>4. BackoffLeft' /\ SentAnswered'
  BY <1>1 DEF BackoffLeft, SentAnswered
<1>5. FutureUnused'
  BY <1>1, <1>2 DEF FutureUnused, TypeOK
<1>6. WaitersOpen' /\ Awaiting'
  BY <1>1, <1>2 DEF WaitersOpen, Awaiting, StreamsOf
<1>7. LeftCause'
  <2> SUFFICES ASSUME NEW n \in 1 .. MaxAttempts, Left(n)'
               PROVE  \/ \A s \in StreamsOf(n) : job'[s] = "none" /\ s \notin wire'
                      \/ \E s \in StreamsOf(n) : job'[s] = "failed"
    BY DEF LeftCause, StreamsOf
  <2>1. n < attempt /\ Left(n)
    BY <1>1 DEF Left
  <2>2. \A s \in StreamsOf(n) : s[1] = n /\ s \notin mine
    BY <1>2, <2>1 DEF StreamsOf, TypeOK
  <2> QED BY <1>1, <2>1, <2>2, LeftStays
<1> QED BY <1>3, <1>4, <1>5, <1>6, <1>7

\* The SMTP transport adds copies and never reads the relay's state.
LEMMA SmtpKeeps ==
  ASSUME TypeOK, SendInv, SendBySmtp
  PROVE  SendInv'
<1> USE DEF SendInv, Progress
<1>1. /\ call = "ready" /\ route = "smtp"
      /\ UNCHANGED <<route, attempt, waiters, awaited, answer, wire, job, tries, reports>>
  BY DEF SendBySmtp, relayVars
<1>2. \A r \in Recipient : copies'[r] >= copies[r] /\ copies'[r] \in Nat
  <2>1. \A r \in Recipient :
          copies[r] \in 0 .. ManyCopies /\ More(copies[r]) >= copies[r] /\ More(copies[r]) \in Nat
    BY MoreIsMore DEF TypeOK
  <2>2. \A r \in Recipient : copies'[r] \in {copies[r], More(copies[r])}
    BY DEF SendBySmtp
  <2> QED BY <2>1, <2>2, CopiesCounted
<1>3. SentTaken'
  <2>1. \A s \in Stream : s[2] \in Recipient /\ copies[s[2]] \in Nat
    BY CopiesCounted DEF Stream, TypeOK
  <2> QED BY <1>1, <1>2, <2>1 DEF Evidence, SentTaken
<1>4. Evidence'
  BY <1>1, <1>3 DEF Evidence, JobTries, WireFresh, ReportsTrue, AnswersTrue, CopiesFound
<1>5. call' \in {"sent", "failed", "backoff"} /\ (call' = "backoff" => attempt < MaxAttempts)
  BY AttemptBounds DEF Thrown, TypeOK, SendBySmtp
<1>6. BackoffLeft' /\ SentAnswered'
  BY <1>1, <1>5 DEF BackoffLeft, SentAnswered
<1>7. FutureUnused'
  BY <1>1, <1>5 DEF FutureUnused
<1>8. WaitersOpen' /\ Awaiting'
  BY <1>1, <1>5 DEF WaitersOpen, Awaiting
<1>9. LeftCause'
  <2> SUFFICES ASSUME NEW n \in 1 .. MaxAttempts, Left(n)'
               PROVE  \/ \A s \in StreamsOf(n) : job'[s] = "none" /\ s \notin wire'
                      \/ \E s \in StreamsOf(n) : job'[s] = "failed"
    BY DEF LeftCause, StreamsOf
  <2>1. n = attempt \/ Left(n)
    BY <1>1 DEF Left
  <2>2. \A s \in StreamsOf(attempt) : job[s] = "none" /\ s \notin wire
    BY <1>1 DEF FutureUnused, StreamsOf, Stream, TypeOK
  <2> QED BY <1>1, <2>1, <2>2, LeftStays
<1> QED BY <1>4, <1>6, <1>7, <1>8, <1>9

\* The next attempt.
LEMMA RetryKeeps ==
  ASSUME TypeOK, SendInv, Retry
  PROVE  SendInv'
<1> USE DEF SendInv, Progress
<1>1. /\ call = "backoff" /\ call' = "ready" /\ attempt' = attempt + 1 /\ attempt \in Nat
      /\ UNCHANGED <<route, waiters, awaited, answer, wire, job, tries, reports, copies, doubted>>
  BY DEF Retry, relayVars, mxVars, TypeOK
<1>2. Evidence'
  BY <1>1, EvidenceStays
<1>3. BackoffLeft' /\ SentAnswered'
  BY <1>1 DEF BackoffLeft, SentAnswered
<1>4. FutureUnused'
  <2>1. \A s \in Stream : s[1] \in Nat
    BY DEF Stream
  <2> QED BY <1>1, <2>1 DEF FutureUnused
<1>5. WaitersOpen' /\ Awaiting'
  BY <1>1 DEF WaitersOpen, Awaiting
<1>6. LeftCause'
  <2> SUFFICES ASSUME NEW n \in 1 .. MaxAttempts, Left(n)'
               PROVE  \/ \A s \in StreamsOf(n) : job'[s] = "none" /\ s \notin wire'
                      \/ \E s \in StreamsOf(n) : job'[s] = "failed"
    BY DEF LeftCause, StreamsOf
  <2>1. Left(n)
    BY <1>1 DEF Left
  <2> QED BY <1>1, <2>1, LeftStays
<1> QED BY <1>2, <1>3, <1>4, <1>5, <1>6

\* A report reaches its waiter, or finds none.
LEMMA ReportKeeps ==
  ASSUME TypeOK, SendInv, NEW s \in Stream, Report(s)
  PROVE  SendInv'
<1> USE DEF SendInv, Progress
<1>1. UNCHANGED <<route, attempt, awaited, wire, job, tries, copies, doubted>>
  BY DEF Report, mxVars
<1>2. PICK x \in {"sent", "failed"} :
        /\ <<s, x>> \in reports /\ reports' = reports \ {<<s, x>>}
        /\ IF s \in waiters
           THEN /\ waiters' = waiters \ {s}
                /\ answer' = [answer EXCEPT ![s] = x]
                /\ call' = IF call = "waiting" /\ s \in StreamsOf(attempt)
                           THEN ResultOf(answer') ELSE call
           ELSE UNCHANGED <<waiters, answer, call>>
  BY DEF Report
<1>3. CASE s \notin waiters
  BY <1>1, <1>2, <1>3, LosingKeeps
<1>4. CASE s \in waiters
  <2>1. /\ waiters' = waiters \ {s} /\ answer'[s] = x
        /\ \A u \in Stream : u # s => answer'[u] = answer[u]
    BY <1>2, <1>4 DEF TypeOK
  <2>2. Evidence'
    BY <1>1, <1>2, <2>1, EvidenceStays
  <2>3. CASE call = "waiting" /\ s \in StreamsOf(attempt)
    <3>1. call' = ResultOf(answer')
      BY <1>2, <1>4, <2>3
    <3>2. StreamsOf(attempt) \subseteq awaited /\ StreamsOf(attempt) \subseteq Stream
      BY <2>3 DEF Awaiting, TypeOK
    <3>3. \A u \in StreamsOf(attempt) : answer'[u] # "timeout"
      BY <2>1, <2>3, <3>2 DEF Awaiting
    <3>4. \/ call' = "waiting"
          \/ call' = "sent" /\ \A u \in StreamsOf(attempt) : answer'[u] = "sent"
          \/ /\ call' = Thrown
             /\ \E u \in StreamsOf(attempt) : answer'[u] = "failed"
             /\ \A u \in StreamsOf(attempt) : answer'[u] # "none"
      <4>1. answer' \in [Stream -> {"none", "sent", "failed", "timeout"}]
        BY <1>2, <1>4 DEF TypeOK
      <4> QED BY <1>1, <3>1, <3>2, <3>3, <4>1 DEF ResultOf
    <3>5. call' \in {"waiting", "sent", "failed", "backoff"}
          /\ (call' = "backoff" => attempt < MaxAttempts)
      BY <3>4, AttemptBounds DEF Thrown, TypeOK
    <3>6. BackoffLeft' /\ SentAnswered'
      BY <1>1, <3>4, <3>5, AttemptBounds DEF BackoffLeft, SentAnswered, StreamsOf, Thrown
    <3>7. FutureUnused'
      <4>1. s[1] = attempt
        BY <2>3 DEF StreamsOf
      <4>2. \A u \in Stream : u[1] > attempt => u # s
        BY <4>1 DEF TypeOK
      <4> QED BY <1>1, <2>1, <3>5, <4>2 DEF FutureUnused
    <3>8. WaitersOpen'
      <4>1. \A u \in waiters' : answer'[u] = "none"
        BY <2>1 DEF WaitersOpen, TypeOK
      <4>2. \A u \in waiters' \cap awaited : u \in StreamsOf(attempt)
        BY <2>1 DEF WaitersOpen, StreamsOf, Stream, TypeOK
      <4>3. CASE call' = "waiting"
        BY <1>1, <2>1, <4>1, <4>3 DEF WaitersOpen
      <4>4. CASE \A u \in StreamsOf(attempt) : answer'[u] # "none"
        BY <1>1, <4>1, <4>2, <4>4 DEF WaitersOpen
      <4> QED BY <3>4, <4>3, <4>4
    <3>9. Awaiting'
      <4>1. \A u \in awaited : answer'[u] # "timeout"
        BY <2>1, <2>3 DEF Awaiting, TypeOK
      <4> QED BY <1>1, <3>2, <4>1 DEF Awaiting, StreamsOf
    <3>10. LeftCause'
      <4> SUFFICES ASSUME NEW n \in 1 .. MaxAttempts, Left(n)'
                   PROVE  \/ \A u \in StreamsOf(n) : job'[u] = "none" /\ u \notin wire'
                          \/ \E u \in StreamsOf(n) : job'[u] = "failed"
        BY DEF LeftCause, StreamsOf
      <4>1. CASE Left(n)
        BY <1>1, <4>1, LeftStays
      <4>2. CASE ~Left(n)
        <5>1. n = attempt /\ call' \in {"backoff", "failed"}
          BY <1>1, <4>2 DEF Left
        <5>2. PICK u \in StreamsOf(attempt) : answer'[u] = "failed"
          BY <3>4, <5>1
        <5>3. job'[u] = "failed"
          BY <2>2, <3>2, <5>2 DEF Evidence, AnswersTrue
        <5> QED BY <5>1, <5>2, <5>3
      <4> QED BY <4>1, <4>2
    <3> QED BY <2>2, <3>6, <3>7, <3>8, <3>9, <3>10
  <2>4. CASE ~(call = "waiting" /\ s \in StreamsOf(attempt))
    <3>1. call' = call
      BY <1>2, <1>4, <2>4
    <3>2. SentAnswered' /\ FutureUnused' /\ BackoffLeft'
      <4>1. s \notin {u \in Stream : u[1] > attempt \/ (u[1] = attempt /\ call = "ready")}
        BY <1>4 DEF FutureUnused
      <4>2. StreamsOf(attempt) \subseteq Stream
        BY DEF StreamsOf, Stream, TypeOK
      <4>3. call = "sent" /\ route = "relay" => s \notin StreamsOf(attempt)
        BY <1>4 DEF SentAnswered, WaitersOpen
      <4> QED BY <1>1, <2>1, <3>1, <4>1, <4>2, <4>3
              DEF SentAnswered, FutureUnused, BackoffLeft, StreamsOf
    <3>3. WaitersOpen' /\ Awaiting'
      BY <1>1, <2>1, <3>1 DEF WaitersOpen, Awaiting, StreamsOf, TypeOK
    <3>4. LeftCause'
      <4> SUFFICES ASSUME NEW n \in 1 .. MaxAttempts, Left(n)
                   PROVE  \/ \A u \in StreamsOf(n) : job'[u] = "none" /\ u \notin wire'
                          \/ \E u \in StreamsOf(n) : job'[u] = "failed"
        BY <1>1, <3>1 DEF LeftCause, StreamsOf, Left
      <4> QED BY <1>1, LeftStays
    <3> QED BY <2>2, <3>2, <3>3, <3>4
  <2> QED BY <2>3, <2>4
<1> QED BY <1>3, <1>4

\* An awaited waiter times out: the send counts as queued.
LEMMA TimeoutKeeps ==
  ASSUME TypeOK, SendInv, NEW s \in Stream, Timeout(s)
  PROVE  SendInv'
<1> USE DEF SendInv, Progress
<1>1. /\ s \in waiters /\ s \in awaited /\ waiters' = waiters \ {s}
      /\ UNCHANGED <<route, attempt, awaited, wire, job, tries, reports, copies, doubted>>
  BY DEF Timeout, relayVars, mxVars
<1>2. answer'[s] = "timeout" /\ \A u \in Stream : u # s => answer'[u] = answer[u]
  BY DEF Timeout, TypeOK
<1>3. s[1] = attempt /\ call \in {"waiting", "queued"} /\ call' = "queued"
  <2>1. s[1] = attempt /\ call \in {"waiting", "queued"}
    BY <1>1 DEF WaitersOpen
  <2>2. s \in StreamsOf(attempt)
    BY <2>1 DEF StreamsOf, Stream
  <2> QED BY <2>1, <2>2 DEF Timeout
<1>4. Evidence'
  BY <1>1, <1>2, EvidenceStays
<1>5. BackoffLeft' /\ SentAnswered' /\ FutureUnused'
  BY <1>1, <1>2, <1>3 DEF BackoffLeft, SentAnswered, FutureUnused, TypeOK
<1>6. WaitersOpen' /\ Awaiting'
  BY <1>1, <1>2, <1>3 DEF WaitersOpen, Awaiting, TypeOK
<1>7. LeftCause'
  <2> SUFFICES ASSUME NEW n \in 1 .. MaxAttempts, Left(n)'
               PROVE  \/ \A u \in StreamsOf(n) : job'[u] = "none" /\ u \notin wire'
                      \/ \E u \in StreamsOf(n) : job'[u] = "failed"
    BY DEF LeftCause, StreamsOf
  <2>1. Left(n)
    BY <1>1, <1>3 DEF Left
  <2> QED BY <1>1, <2>1, LeftStays
<1> QED BY <1>4, <1>5, <1>6, <1>7

\* What the relay does with a stream of its own keeps the gateway's progress,
\* when the stream had been sent and had no final result.
LEMMA RelayProgress ==
  ASSUME TypeOK, SendInv, NEW s \in Stream, s \in wire \/ job[s] = "sending",
         UNCHANGED gatewayVars, wire' \subseteq wire,
         \A u \in Stream : u # s => job'[u] = job[u]
  PROVE  Progress'
<1> USE DEF SendInv, Progress, gatewayVars
<1>1. BackoffLeft' /\ SentAnswered' /\ WaitersOpen' /\ Awaiting'
  BY DEF BackoffLeft, SentAnswered, WaitersOpen, Awaiting, StreamsOf
<1>2. ~(s[1] > attempt \/ (s[1] = attempt /\ call = "ready"))
  BY DEF FutureUnused
<1>3. FutureUnused'
  BY <1>2 DEF FutureUnused
<1>4. LeftCause'
  <2> SUFFICES ASSUME NEW n \in 1 .. MaxAttempts, Left(n)
               PROVE  \/ \A u \in StreamsOf(n) : job'[u] = "none" /\ u \notin wire'
                      \/ \E u \in StreamsOf(n) : job'[u] = "failed"
    BY DEF LeftCause, StreamsOf, Left
  <2>1. \A u \in Stream : job[u] \in {"none", "failed"} => job'[u] = job[u] \/ u \in wire
    OBVIOUS
  <2> QED BY <2>1, LeftStays
<1> QED BY <1>1, <1>3, <1>4

\* A stream arrives: its delivery begins.
LEMMA StreamEndsKeeps ==
  ASSUME TypeOK, SendInv, NEW s \in Stream, StreamEnds(s)
  PROVE  SendInv'
<1>1. /\ s \in wire /\ wire' = wire \ {s} /\ job' = [job EXCEPT ![s] = "sending"]
      /\ UNCHANGED <<gatewayVars, tries, reports, copies, doubted>>
  BY DEF StreamEnds, mxVars
<1>2. job[s] = "none"
  BY <1>1 DEF SendInv, Evidence, WireFresh
<1>3. job'[s] = "sending" /\ \A u \in Stream : u # s => job'[u] = job[u]
  BY <1>1 DEF TypeOK
<1>4. \A u \in Stream, x \in {"sent", "failed"} : job'[u] = x <=> job[u] = x
  BY <1>2, <1>3
<1>5. JobTries'
  <2>1. tries[s] = 0 /\ tries[s] < RelayTries
    BY <1>2, AttemptBounds DEF SendInv, Evidence, JobTries
  <2> QED BY <1>1, <1>3, <2>1 DEF SendInv, Evidence, JobTries
<1>6. WireFresh' /\ ReportsTrue' /\ AnswersTrue' /\ SentTaken'
  BY <1>1, <1>3, <1>4 DEF SendInv, Evidence, WireFresh, ReportsTrue, AnswersTrue, SentTaken,
                          gatewayVars, TypeOK
<1>7. CopiesFound'
  <2>1. \A n \in 1 .. MaxAttempts, r \in Recipient : <<n, r>> \in Stream
    BY DEF Stream
  <2> QED BY <1>1, <1>4, <2>1 DEF SendInv, Evidence, CopiesFound, gatewayVars
<1> QED BY <1>1, <1>3, <1>5, <1>6, <1>7, RelayProgress DEF SendInv, Evidence

\* A delivery that ends leaves true evidence: of a copy when it succeeded, of
\* a doubted copy when its answer was lost.
LEMMA OutcomeKeeps ==
  ASSUME TypeOK, SendInv, NEW s \in Stream, job[s] = "sending",
         NEW x \in {"sending", "sent", "failed"}, job' = [job EXCEPT ![s] = x],
         UNCHANGED <<gatewayVars, wire>>,
         \/ reports' = reports
         \/ x \in {"sent", "failed"} /\ reports' \subseteq reports \cup {<<s, x>>},
         JobTries',
         \/ x # "sent" /\ UNCHANGED <<copies, doubted>>
         \/ /\ copies' = [copies EXCEPT ![s[2]] = More(@)]
            /\ IF x = "sent" THEN doubted' = doubted ELSE doubted' = doubted \cup {s[2]}
  PROVE  SendInv'
<1> USE DEF SendInv, Evidence
<1>1. job'[s] = x /\ \A u \in Stream : u # s => job'[u] = job[u]
  BY DEF TypeOK
<1>2. \A u \in Stream : job[u] \in {"none", "sent", "failed"} => job'[u] = job[u]
  BY <1>1
<1>3. WireFresh' /\ AnswersTrue'
  BY <1>2 DEF WireFresh, AnswersTrue, gatewayVars, TypeOK
<1>4. ReportsTrue'
  BY <1>1, <1>2 DEF ReportsTrue
<1>5. s[2] \in Recipient /\ \A r \in Recipient : copies[r] \in Nat /\ More(copies[r]) >= copies[r]
                                              /\ More(copies[r]) \in Nat /\ More(copies[r]) > 0
  BY MoreIsMore, CopiesCounted DEF Stream, TypeOK
<1>6. SentTaken'
  <2> SUFFICES ASSUME NEW u \in Stream, job'[u] = "sent" PROVE copies'[u[2]] > 0
    BY DEF SentTaken
  <2>1. u[2] \in Recipient
    BY DEF Stream
  <2>2. CASE u = s
    BY <1>1, <1>5, <2>2 DEF TypeOK
  <2>3. CASE u # s
    <3>1. copies[u[2]] > 0
      BY <1>1, <2>3 DEF SentTaken
    <3> QED BY <1>5, <2>1, <3>1 DEF TypeOK
  <2> QED BY <2>2, <2>3
<1>7. CopiesFound'
  <2> SUFFICES ASSUME route = "relay", NEW r \in Recipient, r \notin doubted'
               PROVE  /\ copies'[r] > 0 => \E n \in 1 .. MaxAttempts : job'[<<n, r>>] = "sent"
                      /\ copies'[r] > 1 => \E n, m \in 1 .. MaxAttempts :
                           n < m /\ job'[<<n, r>>] = "sent" /\ job'[<<m, r>>] = "sent"
    BY DEF CopiesFound, gatewayVars
  <2>1. r \notin doubted /\ \A n \in 1 .. MaxAttempts : <<n, r>> \in Stream
    BY DEF Stream
  <2>2. /\ copies[r] > 0 => \E n \in 1 .. MaxAttempts : job[<<n, r>>] = "sent"
        /\ copies[r] > 1 => \E n, m \in 1 .. MaxAttempts :
             n < m /\ job[<<n, r>>] = "sent" /\ job[<<m, r>>] = "sent"
    BY <2>1 DEF CopiesFound
  <2>3. CASE copies'[r] = copies[r]
    BY <1>2, <2>1, <2>2, <2>3
  <2>4. CASE copies'[r] # copies[r]
    <3>1. x = "sent" /\ s[2] = r /\ copies'[r] = More(copies[r])
      BY <1>5, <2>1, <2>4 DEF TypeOK
    <3>2. s[1] \in 1 .. MaxAttempts /\ s = <<s[1], r>>
      BY <3>1 DEF Stream
    <3>3. job'[<<s[1], r>>] = "sent"
      BY <1>1, <3>1, <3>2
    <3>4. CASE copies[r] = 0
      <4>1. copies'[r] = 1
        BY <3>1, <3>4, CopiesCounted DEF More
      <4> QED BY <3>2, <3>3, <4>1
    <3>5. CASE copies[r] # 0
      <4>1. PICK n \in 1 .. MaxAttempts : job[<<n, r>>] = "sent"
        BY <1>5, <2>2, <3>5
      <4>2. job'[<<n, r>>] = "sent" /\ <<n, r>> # s
        BY <1>2, <2>1, <4>1
      <4>3. n < s[1] \/ s[1] < n
        BY <3>2, <4>2
      <4> QED BY <3>2, <3>3, <4>2, <4>3
    <3> QED BY <3>4, <3>5
  <2> QED BY <2>3, <2>4
<1>8. Progress'
  BY <1>1, RelayProgress
<1> QED BY <1>3, <1>4, <1>6, <1>7, <1>8

\* The end of a delivery, and a failed try.
LEMMA DeliveryKeeps ==
  ASSUME TypeOK, SendInv, NEW s \in Stream, Delivered(s) \/ TryFails(s)
  PROVE  SendInv'
<1>1. job[s] = "sending" /\ UNCHANGED <<gatewayVars, wire>>
  BY DEF Delivered, TryFails
<1>2. \A x \in {"sent", "failed"} : Reported(s, x) \subseteq reports \cup {<<s, x>>}
  BY DEF Reported
<1>3. CASE Delivered(s)
  <2>1. JobTries'
    BY <1>1, <1>3 DEF Delivered, SendInv, Evidence, JobTries, TypeOK
  <2> QED BY <1>1, <1>2, <1>3, <2>1, OutcomeKeeps DEF Delivered
<1>4. CASE TryFails(s)
  <2>1. tries[s] \in 0 .. RelayTries /\ tries[s] < RelayTries /\ tries'[s] = tries[s] + 1
    BY <1>1, <1>4 DEF TryFails, SendInv, Evidence, JobTries, TypeOK
  <2>2. \A u \in Stream : u # s => tries'[u] = tries[u]
    BY <1>4 DEF TryFails, TypeOK
  <2>3. \/ UNCHANGED <<copies, doubted>>
        \/ copies' = [copies EXCEPT ![s[2]] = More(@)] /\ doubted' = doubted \cup {s[2]}
    BY <1>4 DEF TryFails, mxVars
  <2>4. CASE tries'[s] < RelayTries
    <3>1. reports' = reports /\ job' = [job EXCEPT ![s] = "sending"]
      BY <1>1, <1>4, <2>4 DEF TryFails, TypeOK
    <3>2. JobTries'
      BY <1>1, <2>2, <2>4, <3>1 DEF SendInv, Evidence, JobTries, TypeOK
    <3> QED BY <1>1, <2>3, <3>1, <3>2, OutcomeKeeps
  <2>5. CASE ~(tries'[s] < RelayTries)
    <3>1. reports' = Reported(s, "failed") /\ job' = [job EXCEPT ![s] = "failed"]
      BY <1>4, <2>5 DEF TryFails
    <3>2. tries'[s] = RelayTries
      BY ONLY <2>1, <2>5, AttemptBounds
    <3>3. JobTries'
      BY <1>1, <2>2, <3>1, <3>2 DEF SendInv, Evidence, JobTries, TypeOK
    <3> QED BY <1>1, <1>2, <2>3, <3>1, <3>3, OutcomeKeeps
  <2> QED BY <2>4, <2>5
<1> QED BY <1>3, <1>4

-----------------------------------------------------------------------------
(* The theorems. *)

\* Everything above in one inductive invariant.
Inv == TypeOK /\ NeverStranded /\ SendInv

LEMMA Inductive == Inv /\ [Next]_vars => Inv'
<1> SUFFICES ASSUME Inv, [Next]_vars PROVE Inv'
  OBVIOUS
<1>0. TypeOK /\ NeverStranded /\ SendInv
  BY DEF Inv
<1>1. ClientTypeOK' /\ NeverStranded'
  BY <1>0, ClientSide, ClientKeeps DEF ClientInv, TypeOK
<1>2. TypeOK'
  BY <1>0, <1>1, GatewayTypes, RelayTypes, ConnectionTypes DEF Next, SendInv, Evidence, Progress
<1>3. SendInv'
  <2>1. CASE SendThrows
    BY <1>0, <2>1, ThrowKeeps DEF SendThrows, relayVars, mxVars
  <2>2. CASE RenderThrows
    BY <1>0, <2>2, ThrowKeeps DEF RenderThrows, relayVars, mxVars
  <2>3. ASSUME NEW s \in Stream, OrphanTimeout(s) PROVE SendInv'
    BY <1>0, <2>3, LosingKeeps DEF OrphanTimeout, relayVars, mxVars
  <2>4. CASE GatewayStep
    BY <1>0, <2>1, <2>2, <2>3, <2>4, SendKeeps, SmtpKeeps, RetryKeeps, ReportKeeps, TimeoutKeeps
       DEF GatewayStep
  <2>5. CASE RelayStep
    BY <1>0, <2>5, StreamEndsKeeps, DeliveryKeeps DEF RelayStep
  <2>6. CASE ClientStep
    BY <1>0, <2>6, LosingKeeps DEF ClientStep, gatewayVars, mxVars
  <2>7. CASE RelayDies
    BY <1>0, <2>7, LosingKeeps DEF RelayDies, gatewayVars, mxVars
  <2>8. CASE UNCHANGED vars
    BY <1>0, <2>8, LosingKeeps DEF vars, gatewayVars, relayVars, mxVars
  <2> QED BY <2>4, <2>5, <2>6, <2>7, <2>8 DEF Next
<1> QED BY <1>1, <1>2, <1>3 DEF Inv

LEMMA Invariant == Spec => []Inv
<1>1. Init => Inv
  BY InitTypes, InitEvidence DEF Inv
<1> QED BY <1>1, Inductive, PTL DEF Spec

\* The state of a send, of the relay and of the client keeps its type.
THEOREM TypeCorrect == Spec => []TypeOK
<1>1. Inv => TypeOK
  BY DEF Inv
<1> QED BY <1>1, Invariant, PTL

\* The client always has exactly one way back to the relay (NeverStranded).
THEOREM NeverStrandedHolds == Spec => []NeverStranded
<1>1. Inv => NeverStranded
  BY DEF Inv
<1> QED BY <1>1, Invariant, PTL

\* What is reported as sent through the relay was taken by every recipient's
\* mail server (SentMeansDelivered).
THEOREM SentHolds == Spec => []SentMeansDelivered
<1>1. Inv => SentMeansDelivered
  <2> SUFFICES ASSUME Inv, call = "sent", route = "relay", NEW r \in Recipient
               PROVE  copies[r] > 0
    BY DEF SentMeansDelivered
  <2>1. <<attempt, r>> \in Stream /\ <<attempt, r>> \in StreamsOf(attempt)
    BY DEF Stream, StreamsOf, Inv, TypeOK
  <2>2. answer[<<attempt, r>>] = "sent"
    BY <2>1 DEF Inv, SendInv, Progress, SentAnswered
  <2>3. job[<<attempt, r>>] = "sent"
    BY <2>1, <2>2 DEF Inv, SendInv, Evidence, AnswersTrue
  <2> QED BY <2>1, <2>3 DEF Inv, SendInv, Evidence, SentTaken
<1> QED BY <1>1, Invariant, PTL

\* A second copy has a cause: an answer that was lost, or another recipient
\* whose delivery failed for good (DuplicatesHaveCause).
THEOREM DuplicatesHold == Spec => []DuplicatesHaveCause
<1>1. Inv => DuplicatesHaveCause
  <2> SUFFICES ASSUME Inv, route = "relay", NEW r \in Recipient, copies[r] > 1, r \notin doubted
               PROVE  \E s \in Stream : s[2] # r /\ job[s] = "failed"
    BY DEF DuplicatesHaveCause
  <2> USE DEF Inv, SendInv, Evidence, Progress
  <2>1. PICK n \in 1 .. MaxAttempts, m \in 1 .. MaxAttempts :
          n < m /\ job[<<n, r>>] = "sent" /\ job[<<m, r>>] = "sent"
    BY DEF CopiesFound
  <2>2. m <= attempt
    <3>1. <<m, r>> \in Stream
      BY DEF Stream
    <3>2. ~(m > attempt)
      BY <2>1, <3>1 DEF FutureUnused
    <3> QED BY <3>2 DEF TypeOK
  <2>3. Left(n)
    BY <2>1, <2>2 DEF Left, TypeOK
  <2>4. <<n, r>> \in StreamsOf(n)
    BY DEF StreamsOf
  <2>5. PICK s \in StreamsOf(n) : job[s] = "failed"
    BY <2>1, <2>3, <2>4 DEF LeftCause
  <2>6. s \in Stream /\ s # <<n, r>>
    BY <2>1, <2>5 DEF StreamsOf, Stream
  <2> QED BY <2>5, <2>6 DEF StreamsOf
<1> QED BY <1>1, Invariant, PTL

\* A send fails only for a delivery that used up the relay's tries, or before
\* anything of its last attempt left the gateway (FailureIsReal).
THEOREM FailureHolds == Spec => []FailureIsReal
<1>1. Inv => FailureIsReal
  <2> SUFFICES ASSUME Inv, call = "failed"
               PROVE  \/ \E s \in StreamsOf(attempt) : job[s] = "failed" /\ tries[s] = RelayTries
                      \/ \A s \in StreamsOf(attempt) : job[s] = "none" /\ s \notin wire
    BY DEF FailureIsReal
  <2> USE DEF Inv, SendInv, Evidence, Progress
  <2>1. attempt \in 1 .. MaxAttempts /\ Left(attempt)
    BY DEF TypeOK, Left
  <2>2. StreamsOf(attempt) \subseteq Stream
    BY <2>1 DEF StreamsOf, Stream
  <2> QED BY <2>1, <2>2 DEF LeftCause, JobTries
<1> QED BY <1>1, Invariant, PTL

\* A send that counts as queued writes no frame any more.
LEMMA QueuedIsQuiet ==
  ASSUME call = "queued", [Next]_vars
  PROVE  wire' \subseteq wire /\ attempt' = attempt
<1>1. CASE GatewayStep
  BY <1>1 DEF GatewayStep, SendStreams, SendThrows, RenderThrows, SendBySmtp, Retry, Report,
              Timeout, OrphanTimeout, relayVars
<1>2. CASE RelayStep
  BY <1>2 DEF RelayStep, StreamEnds, Delivered, TryFails, gatewayVars
<1>3. CASE ClientStep \/ RelayDies \/ UNCHANGED vars
  BY <1>3 DEF ClientStep, RelayDies, vars, gatewayVars, relayVars
<1> QED BY <1>1, <1>2, <1>3 DEF Next

\* After a timeout nothing is sent again (NoResendAfterTimeout).
THEOREM NoResendHolds == Spec => NoResendAfterTimeout
<1>1. Inv /\ [Next]_vars =>
        [(\E s \in awaited : answer[s] = "timeout") => wire' \subseteq wire /\ attempt' = attempt]_vars
  BY QueuedIsQuiet DEF Inv, SendInv, Progress, Awaiting
<1> QED BY <1>1, Invariant, PTL DEF Spec, NoResendAfterTimeout

=============================================================================
