--------------------------- MODULE GatewayInbound ---------------------------
(***************************************************************************)
(* The gateway's way of a mail (gateway/inbound.ts, gateway/index.ts,      *)
(* shared/security-config.ts, tools/send-email/runtime-action.ts): it is   *)
(* received over SMTP or through the relay, judged, written to disk,       *)
(* stored in the thread and handed to a run.  A run that sends mail to a   *)
(* persona makes a further mail; a header counts how many may follow.      *)
(*                                                                         *)
(* A sender repeats a mail until it is told that it was taken or that the  *)
(* mailbox does not exist; the answer can be lost.  The relay has answered *)
(* its sender before the gateway sees the mail.  The process can crash at  *)
(* any step, between two writes as well, and is started again.             *)
(***************************************************************************)
EXTENDS HarnessRuns

CONSTANTS
  Sender,         \* addresses mail comes from
  Denied, Allowed,\* addresses the deny rules and the allow rules match
  DefaultDepth,   \* recursionDepth of the inference configuration
  MaxFaults       \* bound: crashes and lost answers

ASSUME PolicyRules == Denied \subseteq Sender /\ Allowed \subseteq Sender
ASSUME GatewayBounds == DefaultDepth \in Nat /\ MaxFaults \in Nat

VARIABLES
  mails,     \* the mails that exist, in the order they came to be
  transfer,  \* how far the sender is with each mail
  files,     \* mails whose raw MIME is on disk
  attached,  \* mails whose attachments are on disk
  up,        \* the gateway process lives
  faults

gatewayVars == <<mails, transfer, files, attached, up, faults>>
vars == <<harnessVars, gatewayVars>>

\* "waiting" at the sender, or read and parsed, which changes nothing yet;
\* "stored": the answer is to come; "taken", "refused" or "dropped": no one
\* will send it again.
Transfer == {"unborn", "waiting", "stored", "taken", "refused", "dropped"}

\* header: the recursion header, or -1 without one; hops: how many runs the
\* mail descends from; by: the run that sent it, 0 for a stranger's; text is
\* FALSE when it has no plain text.
Mail == [from : Sender, known : BOOLEAN, passes : BOOLEAN, fits : BOOLEAN, text : BOOLEAN,
         route : {"smtp", "relay"}, header : Int, hops : Nat, by : 0 .. MaxRuns]

Born == DOMAIN mails

-----------------------------------------------------------------------------
(* The policies. *)

\* A deny rule outdoes an allow rule; an address of neither falls under the
\* default, to deny.
EvaluateGatewayAccess(from) == from \notin Denied /\ from \in Allowed

\* Mode "enforce": one of the signals must be a pass.  Signals of a relayed
\* mail come from an attestation of the relay that fits stream, sender and
\* recipient; "passes" stands for both.
EvaluateGatewayAuth(mail) == mail.passes

RecursionExhausted(mail) == mail.header # -1 /\ mail.header <= 0

\* The reasons to refuse a mail before anything is written.
Acceptable(mail) ==
  /\ EvaluateGatewayAccess(mail.from)
  /\ EvaluateGatewayAuth(mail)
  /\ ~RecursionExhausted(mail)

\* Wrong variant: the budget is passed on as it came.
RemainingUnspent(mail) == mail.header

\* metadata.recursion_remaining of the stored message.
Remaining(mail) == IF mail.header = -1 THEN -1 ELSE mail.header - 1

\* The mailbox of its first recipient is a persona's, by local part, alias or
\* address; what follows a plus sign does not count.
Known(mail) == mail.known

\* The header of a mail a run sends on behalf of the message it works on.
OutboundHeader(mail) ==
  IF mail.header = -1 THEN DefaultDepth
  ELSE IF Remaining(mail) > 0 THEN Remaining(mail) ELSE 0

-----------------------------------------------------------------------------
(* A mail comes in. *)

\* The first mail is a stranger's of any make, without a header, or with the
\* last unit of a budget another gateway gave it.
Init ==
  /\ HarnessInit
  /\ \E from \in Sender, known, passes, fits, text \in BOOLEAN,
        route \in {"smtp", "relay"}, header \in {-1, 1} :
       mails = <<[from |-> from, known |-> known, passes |-> passes, fits |-> fits, text |-> text,
                  route |-> route, header |-> header, hops |-> 0, by |-> 0]>>
  /\ transfer = [m \in Message |-> IF m = 1 THEN "waiting" ELSE "unborn"]
  /\ files = {} /\ attached = {}
  /\ up = TRUE /\ faults = 0

\* A failed delivery: the relay's sender is not told; an SMTP sender is told a
\* permanent code only for an unknown mailbox, else it waits and repeats, or
\* gives up.
Failure(m, code) ==
  IF mails[m].route = "relay" THEN {"dropped"}
  ELSE IF code = 550 THEN {"refused"} ELSE {"waiting", "refused"}

\* No persona has the address: the content is drained, then refused.
RefuseUnknown(m) ==
  /\ up /\ m \in Born /\ transfer[m] = "waiting" /\ ~Known(mails[m])
  /\ \E t \in Failure(m, 550) : transfer' = [transfer EXCEPT ![m] = t]
  /\ UNCHANGED <<harnessVars, mails, files, attached, up, faults>>

Refuse(m) ==
  /\ up /\ m \in Born /\ transfer[m] = "waiting" /\ Known(mails[m])
  /\ ~Acceptable(mails[m])
  /\ \E t \in Failure(m, 450) : transfer' = [transfer EXCEPT ![m] = t]
  /\ UNCHANGED <<harnessVars, mails, files, attached, up, faults>>

\* The limits of attachments are checked when the raw MIME is written already.
RefuseAttachments(m) ==
  /\ up /\ m \in Born /\ transfer[m] = "waiting" /\ Known(mails[m])
  /\ Acceptable(mails[m]) /\ ~mails[m].fits
  /\ files' = files \cup {m}
  /\ \E t \in Failure(m, 450) : transfer' = [transfer EXCEPT ![m] = t]
  /\ UNCHANGED <<harnessVars, mails, attached, up, faults>>

\* The message as it is stored, with its text or with an empty one.
Row(m) == Inbound(m, mails[m].text)

\* Wrong variant: the run is enqueued and the message left to it to store.
EnqueueOnly(m, r) ==
  /\ runs' = [runs EXCEPT ![r] = NewRun(m)]
  /\ UNCHANGED timeline

\* onMessage: the message is stored, then its run enqueued.
PersistAndEnqueue(m, r) ==
  /\ timeline' = Append(timeline, Row(m))
  /\ runs' = [runs EXCEPT ![r] = NewRun(m)]

\* Where a mail stands when its message is stored: an SMTP sender is still to
\* be told, the relay waits for nothing.
Handed(m) == IF mails[m].route = "relay" THEN "taken" ELSE "stored"

FreeRun == CHOOSE r \in RunId : runs[r].stage = "free" /\ \A q \in 1 .. r - 1 : runs[q].stage # "free"

HasFreeRun == \E r \in RunId : runs[r].stage = "free"

Welcome(m) ==
  /\ m \in Born /\ transfer[m] = "waiting" /\ Known(mails[m])
  /\ Acceptable(mails[m]) /\ mails[m].fits

\* One synchronous stretch from the parsed mail to its enqueued run.
Accept(m) ==
  /\ up /\ HasFreeRun /\ Welcome(m)
  /\ files' = files \cup {m} /\ attached' = attached \cup {m}
  /\ PersistAndEnqueue(m, FreeRun)
  /\ transfer' = [transfer EXCEPT ![m] = Handed(m)]
  /\ UNCHANGED <<mails, up, faults>>

\* The message cannot be stored.
AcceptThrows(m) ==
  /\ up /\ Welcome(m)
  /\ files' = files \cup {m} /\ attached' = attached \cup {m}
  /\ \E t \in Failure(m, 450) : transfer' = [transfer EXCEPT ![m] = t]
  /\ UNCHANGED <<harnessVars, mails, up, faults>>

\* The answer to DATA.
Acknowledge(m) ==
  /\ up /\ transfer[m] = "stored"
  /\ transfer' = [transfer EXCEPT ![m] = "taken"]
  /\ UNCHANGED <<harnessVars, mails, files, attached, up, faults>>

\* The connection breaks before the answer: the sender repeats the mail.
AnswerLost(m) ==
  /\ up /\ faults < MaxFaults /\ transfer[m] = "stored"
  /\ transfer' = [transfer EXCEPT ![m] = "waiting"]
  /\ faults' = faults + 1
  /\ UNCHANGED <<harnessVars, mails, files, attached, up>>

-----------------------------------------------------------------------------
(* Runs send mail; the process fails. *)

\* An attempt of email.send reaches another mailbox of this gateway; a mail to
\* somebody else is no mail here, and does not come back on its own.  The call
\* demands a text.  An attempt that is told as failed may have delivered, and
\* the next one is a mail of its own.
SendMail(r) ==
  LET run == runs[r]
      cause == mails[run.message]
  IN  /\ up /\ run.stage \in {"calling", "sent"} /\ run.calls[run.at] = "send_email"
      /\ run.tries < MaxAttempts
      /\ Put(r, [run EXCEPT !.stage = "sent", !.tries = @ + 1])
      /\ IF Len(mails) < MaxMails
         THEN /\ mails' = Append(mails, [cause EXCEPT !.header = OutboundHeader(cause),
                                                      !.text = TRUE,
                                                      !.hops = @ + 1, !.by = r])
              /\ transfer' = [transfer EXCEPT ![Len(mails) + 1] = "waiting"]
         ELSE UNCHANGED <<mails, transfer>>
      /\ UNCHANGED <<timeline, files, attached, up, faults>>

\* Sessions break with the process: senders repeat what was not answered.
Broken ==
  [m \in Message |-> IF transfer[m] = "stored" THEN "waiting" ELSE transfer[m]]

Down ==
  /\ up /\ faults < MaxFaults
  /\ up' = FALSE /\ faults' = faults + 1
  /\ runs' = RunsLost(runs)
  /\ UNCHANGED mails

Crash ==
  /\ Down
  /\ transfer' = Broken
  /\ UNCHANGED <<timeline, files, attached>>

\* A crash within Accept, before the attachments, the message or its run: the
\* relay does not repeat what it handed over.
CrashInAccept(m) ==
  /\ Down /\ Welcome(m)
  /\ transfer' = [Broken EXCEPT ![m] = IF mails[m].route = "relay" THEN "dropped" ELSE @]
  /\ files' = files \cup {m}
  /\ \/ UNCHANGED <<attached, timeline>>
     \/ attached' = attached \cup {m} /\ timeline' \in {timeline, Append(timeline, Row(m))}

\* spawn reports a missing shell or directory as an event that nobody handles,
\* which ends the process.
ShellSpawnFails(r) ==
  /\ Down
  /\ runs[r].stage = "calling" /\ runs[r].calls[runs[r].at] = "shell"
  /\ transfer' = Broken
  /\ UNCHANGED <<timeline, files, attached>>

\* Nothing is taken up again: runs that were lost stay lost.
Restart ==
  /\ ~up
  /\ up' = TRUE
  /\ UNCHANGED <<harnessVars, mails, transfer, files, attached, faults>>

Harness(r) ==
  /\ up
  /\ RunStep(r)
  /\ UNCHANGED gatewayVars

Shell(r) ==
  /\ up
  /\ ShellCloses(r)
  /\ UNCHANGED gatewayVars

MailStep(m) ==
  \/ RefuseUnknown(m) \/ Refuse(m) \/ RefuseAttachments(m)
  \/ Accept(m) \/ AcceptThrows(m) \/ Acknowledge(m)

Next ==
  \/ \E m \in Message : MailStep(m) \/ AnswerLost(m) \/ CrashInAccept(m)
  \/ \E r \in RunId : Harness(r) \/ Shell(r) \/ SendMail(r) \/ ShellSpawnFails(r)
  \/ Crash \/ Restart

Spec == Init /\ [][Next]_vars

\* Promises, timers and requests come to an end (fetch gives up on a silent
\* provider), and the service manager restarts the process.  Nothing makes a
\* shell close, and nobody has to send mail.
FairSpec ==
  /\ Spec
  /\ WF_vars(Restart)
  /\ \A r \in RunId : WF_vars(Harness(r))

-----------------------------------------------------------------------------
(* Properties. *)

TypeOK ==
  /\ runs \in [RunId -> [stage : Stage, message : 0 .. MaxMails, turn : 0 .. MaxTurns,
                         chat : Seq(Entry
                                    \cup [role : {"calls"}, ids : Seq(Nat)]
                                    \cup [role : {"tool"}, id : Nat]),
                         calls : Seq(Tool), at : Nat, tries : 0 .. MaxAttempts,
                         acted : BOOLEAN,
                         trace : Seq([type : {"call", "result"}, tool : Tool,
                                      end : {"open", "ok", "failed", "skipped"}])]]
  /\ timeline \in Seq([dir : {"inbound", "outbound"}, of : Message, text : BOOLEAN])
  /\ mails \in Seq(Mail) /\ Len(mails) <= MaxMails
  /\ transfer \in [Message -> Transfer]
  /\ files \subseteq Born /\ attached \subseteq Born
  /\ up \in BOOLEAN /\ faults \in 0 .. MaxFaults

\* The gateway owns a mail once its sender will not repeat it: the message is
\* in the thread, its raw MIME and its attachments are on disk and a run was
\* made for it, however the process crashed in between.  And no message in
\* the thread ever points to files that are not there.
TakenIsStored ==
  /\ \A m \in Message : transfer[m] = "taken" =>
       /\ Row(m) \in Range(timeline)
       /\ \E r \in RunId : runs[r].message = m
  /\ \A i \in DOMAIN timeline : timeline[i].of \in files \cap attached

\* Whatever the tools came to, and whatever the thread holds of earlier runs,
\* a request pairs each call with its result in the form of every provider,
\* and the form tells the message under way exactly once, however often it was
\* stored: but Anthropic's and Gemini's do not tell it when it has no text.
RequestWellFormed ==
  \A r \in RunId, p \in Provider : runs[r].stage = "asking" =>
    LET m == runs[r].message
        form == Form(p, runs[r].chat)
        told == {i \in DOMAIN form : form[i].of = m}
    IN  /\ Paired(form)
        /\ Cardinality(told) = IF mails[m].text \/ p \in KeepsEmpty THEN 1 ELSE 0

\* What a run did can be read from the tool events of the thread, a crash
\* included: the mails it sent have their calls on record, as many as the
\* attempts of each call can make; a call has its result next to it unless
\* the run stopped there; and a run with a call left open has not succeeded.
TraceExplains ==
  \A r \in RunId :
    LET trace == runs[r].trace
        calls == {i \in DOMAIN trace : trace[i].type = "call"}
    IN  /\ Cardinality({m \in Born : mails[m].by = r})
             <= MaxAttempts * Cardinality({i \in calls : trace[i].tool = "send_email"})
        /\ \A i \in calls :
             IF i < Len(trace)
             THEN trace[i + 1].type = "result" /\ trace[i + 1].tool = trace[i].tool
             ELSE runs[r].stage # "done" /\ runs[r].stage # "asking"

\* A mail that descends from runs is stored only within the budget: personas
\* that answer each other stop after DefaultDepth mails, or after as many as
\* the first header left.
RecursionBounded ==
  LET first == mails[1].header
  IN  \A i \in DOMAIN timeline :
        timeline[i].dir = "inbound" =>
          mails[timeline[i].of].hops <= IF first = -1 THEN DefaultDepth ELSE first - 1

InShell(r) == runs[r].stage \in {"calling", "terminating"} /\ runs[r].calls[runs[r].at] = "shell"

\* Every run that was enqueued is over at some time, by success, by an alert
\* or, without reply or alert, by a crash.  "Bounded execution via timeout and
\* output limits" (ADR-0022) says so of a run that calls the shell.
RunsEnd ==
  \A r \in RunId : runs[r].stage = "queued" ~> runs[r].stage \in Ended

\* What the code does guarantee: runs end as long as no run stays in its shell
\* for ever.  A thrown context, a failed alert, the limit of turns, a call that
\* is told as failed and a crash all lead out of a run.
RunsEndWithShells == (\A r \in RunId : []<>~InShell(r)) => RunsEnd
=============================================================================
