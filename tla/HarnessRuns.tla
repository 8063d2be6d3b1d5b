---------------------------- MODULE HarnessRuns ----------------------------
(***************************************************************************)
(* The runs of the harness (harness/runtime.ts): each inbound message that *)
(* was stored gets one run, which builds the context from the thread       *)
(* (harness/context, resolvers/thread-history), asks the provider, executes*)
(* the tools it calls one after the other, and repeats that for a bounded  *)
(* number of turns.  Every call and every result is stored as a tool event *)
(* of the thread; a run that succeeds stores its reply, a run that throws  *)
(* ends in a failure alert (gateway/index.ts).                             *)
(*                                                                         *)
(* Runs of one process interleave at each await: while the context is      *)
(* built, while the provider answers, while a tool works.                  *)
(***************************************************************************)
EXTENDS ProviderForms, FiniteSets

CONSTANTS
  MaxMails,    \* bound: mails that exist
  MaxRuns,     \* bound: runs enqueued
  MaxTurns,    \* maxToolTurns of the inference configuration
  MaxAttempts, \* maxAttempts of the policy a mail is sent with
  MaxToolUses, \* bound: calls of all runs together
  Answers      \* the block sequences a provider may answer with

ASSUME RunBounds == {MaxMails, MaxRuns, MaxTurns, MaxAttempts} \subseteq Nat \ {0} /\ MaxToolUses \in Nat
ASSUME AnswersAreBlocks == Answers \subseteq Seq(Block)

VARIABLES
  runs,      \* the runs, and what each left in the tool events of the thread
  timeline   \* the messages of the thread, in the order they were stored

harnessVars == <<runs, timeline>>

Message == 1 .. MaxMails
RunId   == 1 .. MaxRuns

\* Where a run stands: "queued" as a microtask, "asking" the provider,
\* "calling" a tool, "sent" when a mail of a call has left, "terminating"
\* when the shell of a call was told to end, "alerting" the administrator.
Stage == {"free", "queued", "asking", "calling", "sent", "terminating", "alerting",
          "done", "failed", "lost"}
Active == {"queued", "asking", "calling", "sent", "terminating", "alerting"}
Ended  == {"done", "failed", "lost"}

Idle == [stage |-> "free", message |-> 0, turn |-> 0, chat |-> <<>>,
         calls |-> <<>>, at |-> 0, tries |-> 0, acted |-> FALSE, trace |-> <<>>]

Event(type, tool, end) == [type |-> type, tool |-> tool, end |-> end]

Inbound(m, text)  == [dir |-> "inbound", of |-> m, text |-> text]
Outbound(m, text) == [dir |-> "outbound", of |-> m, text |-> text]

HarnessInit ==
  /\ runs = [r \in RunId |-> Idle]
  /\ timeline = <<>>

ToolUses == LET n[r \in 0 .. MaxRuns] ==
                  IF r = 0 THEN 0
                  ELSE n[r - 1] + Cardinality({i \in DOMAIN runs[r].trace : runs[r].trace[i].type = "call"})
            IN  n[MaxRuns]

-----------------------------------------------------------------------------
(* The context. *)

\* What texts a conversation holds.
Entry == [role : {"system", "user", "assistant"}, text : BOOLEAN, of : 0 .. MaxMails]

\* The tool events of all runs of a message follow each stored copy of it.
EventCount(m) ==
  LET n[r \in 0 .. MaxRuns] ==
        IF r = 0 THEN 0
        ELSE n[r - 1] + IF runs[r].message = m THEN Len(runs[r].trace) ELSE 0
  IN  n[MaxRuns]

ToolEntries(m) == [i \in 1 .. EventCount(m) |-> Says("user", TRUE, 0)]

HistoryEntry(row) ==
  Says(IF row.dir = "outbound" THEN "assistant" ELSE "user", row.text,
       IF row.dir = "inbound" THEN row.of ELSE 0)

History ==
  FlattenSeq([i \in DOMAIN timeline |->
    <<HistoryEntry(timeline[i])>>
      \o IF timeline[i].dir = "inbound" THEN ToolEntries(timeline[i].of) ELSE <<>>])

\* The text the run was given, which is the one its message was stored with.
HasText(m) == Inbound(m, TRUE) \in Range(timeline)

\* Wrong variant: copies of the message in the history are not passed over.
MessagesWithCopies(m) ==
  <<Says("system", TRUE, 0)>> \o History \o <<Says("user", HasText(m), m)>>

\* The prompt, the history without any copy of the message itself, and the
\* message, which may be empty.  The history is taken to fit its budget.
ProviderMessages(m) ==
  LET others == {entry \in Entry : entry.of # m}
  IN  <<Says("system", TRUE, 0)>> \o Those(History, others) \o <<Says("user", HasText(m), m)>>

-----------------------------------------------------------------------------
(* Steps of a run. *)

Put(r, run) == runs' = [runs EXCEPT ![r] = run]

\* The run leaves the loop: its conversation is gone, its tool events stay.
Over(run, stage) ==
  [Idle EXCEPT !.stage = stage, !.message = run.message, !.trace = run.trace]

Throws(run) == Over(run, "alerting")

\* enqueueInboundProcessing, in the microtask after the message was stored.
NewRun(m) == [Idle EXCEPT !.stage = "queued", !.message = m]

\* The context is built and sent with the prompt to the provider.
Begin(r) ==
  /\ runs[r].stage = "queued"
  /\ Put(r, [runs[r] EXCEPT !.stage = "asking", !.turn = 1,
                            !.chat = ProviderMessages(runs[r].message)])
  /\ UNCHANGED timeline

\* A resolver, the registry or the configuration of the provider throws.
BeginThrows(r) ==
  /\ runs[r].stage = "queued"
  /\ Put(r, Throws(runs[r]))
  /\ UNCHANGED timeline

\* Wrong variant: the call is recorded with its result, not before it.
CallUnrecorded(run) == [run EXCEPT !.stage = "calling"]

\* The call is recorded, then executed.
StartCall(run) ==
  [run EXCEPT !.stage = "calling", !.tries = 0,
              !.trace = Append(@, Event("call", run.calls[run.at], "open"))]

\* Wrong variant: nothing bounds the turns.
NextTurnAlways(run) ==
  [run EXCEPT !.stage = "asking", !.turn = @ + 1, !.calls = <<>>, !.at = 0, !.tries = 0]

\* The provider is asked again, at most MaxTurns times in all.
NextTurn(run) ==
  IF run.turn >= MaxTurns THEN Throws(run)
  ELSE [run EXCEPT !.stage = "asking", !.turn = @ + 1, !.calls = <<>>, !.at = 0, !.tries = 0]

\* What the answers of all providers come to.
CallsGiven == UNION {{Answer(p, TRUE, raw).calls : raw \in Answers} : p \in Provider}
AnswerMayThrow == TRUE \in {Answer(p, ok, raw).threw : p \in Provider, ok \in BOOLEAN, raw \in Answers}

\* The answer calls tools.
CallTools(r) ==
  LET run == runs[r]
  IN  /\ run.stage = "asking"
      /\ \E calls \in CallsGiven :
           /\ calls # <<>> /\ ToolUses + Len(calls) <= MaxToolUses
           /\ Put(r, StartCall([run EXCEPT
                !.chat = Append(@, Calls([i \in DOMAIN calls |-> i])),
                !.calls = calls, !.at = 1]))
      /\ UNCHANGED timeline

\* The answer calls none: the run ends with its text, or without one when a
\* tool acted.
Reply(r) ==
  /\ runs[r].stage = "asking"
  /\ \E text \in BOOLEAN :
       IF text \/ runs[r].acted
       THEN /\ Put(r, Over(runs[r], "done"))
            /\ timeline' = Append(timeline, Outbound(runs[r].message, text))
       ELSE Put(r, Throws(runs[r])) /\ UNCHANGED timeline

\* The request fails, or the answer cannot be read.
AskThrows(r) ==
  /\ runs[r].stage = "asking"
  /\ AnswerMayThrow
  /\ Put(r, Throws(runs[r]))
  /\ UNCHANGED timeline

Told(run, end) ==
  [run EXCEPT !.chat = Append(@, Result(run.at)),
              !.trace = Append(@, Event("result", run.calls[run.at], end))]

\* Wrong variant: the calls after the one that failed get no result.
LeaveRest(run) == run

\* The calls after the one that failed are answered as skipped.
SkipRest(run) ==
  LET rest == run.at + 1 .. Len(run.calls)
      n == Cardinality(rest)
  IN  [run EXCEPT !.chat = @ \o [i \in 1 .. n |-> Result(run.at + i)],
                  !.trace = @ \o [i \in 1 .. n |-> Event("result", run.calls[run.at + i], "skipped")]]

Resume(run, end) ==
  LET told == Told(run, end)
  IN  CASE end = "failed" -> NextTurn(SkipRest(told))
        [] end = "ok" /\ run.at < Len(run.calls) -> StartCall([told EXCEPT !.at = @ + 1])
        [] OTHER -> NextTurn(told)

\* What executing a tool can come to before its action works: the registry
\* does not know it, or it refuses the input.
Refusals(tool) == IF tool = "unknown" THEN {"fatal"} ELSE {"failed"}

\* What its runtime action can come to: a mail without a transport or a relay
\* client ends the run, any other error is told to the provider.
ActionEnds(tool) ==
  CASE tool = "send_email" -> {"failed", "fatal"}
    [] tool = "shell"      -> {"failed"}
    [] OTHER               -> {"ok", "failed"}

\* search_email reads the database of the persona and invokes no action.
ActsOutside(tool) == tool # "search_email"

End(r, run, end) == Put(r, IF end = "fatal" THEN Throws(run) ELSE Resume(run, end))

ToolRefuses(r) ==
  LET run == runs[r]
  IN  /\ run.stage = "calling"
      /\ \E end \in Refusals(run.calls[run.at]) : End(r, run, end)
      /\ UNCHANGED timeline

\* The name of the action is noted before the action is invoked.
ActionReturns(r) ==
  LET run == runs[r]
      tool == run.calls[run.at]
  IN  /\ run.stage = "calling" /\ tool # "unknown"
      /\ \E end \in ActionEnds(tool) : End(r, [run EXCEPT !.acted = @ \/ ActsOutside(tool)], end)
      /\ UNCHANGED timeline

\* A mail of a send_email call has left; the call returns later.
MailReturns(r) ==
  /\ runs[r].stage = "sent"
  /\ \E end \in {"ok", "failed"} : End(r, [runs[r] EXCEPT !.acted = TRUE], end)
  /\ UNCHANGED timeline

\* A tool event cannot be stored: the result of the call, or the next call.
EventThrows(r) ==
  /\ runs[r].stage \in {"calling", "sent"}
  /\ Put(r, Throws(runs[r])) \/ Put(r, Throws(Told(runs[r], "ok")))
  /\ UNCHANGED timeline

\* The shell gets the signal to end once, when its time is over.
ShellTimesOut(r) ==
  LET run == runs[r]
  IN  /\ run.stage = "calling" /\ run.calls[run.at] = "shell"
      /\ Put(r, [run EXCEPT !.stage = "terminating"])
      /\ UNCHANGED timeline

\* The shell and all that holds its output have closed it.
ShellCloses(r) ==
  LET run == runs[r]
  IN  /\ run.stage \in {"calling", "terminating"} /\ run.calls[run.at] = "shell"
      /\ End(r, [run EXCEPT !.acted = TRUE], "ok")
      /\ UNCHANGED timeline

\* Wrong variant: an alert that fails is sent again.
AlertRepeats(r) ==
  /\ runs[r].stage = "alerting"
  /\ Put(r, Over(runs[r], "alerting"))
  /\ UNCHANGED timeline

\* The alert was sent, skipped or failed: none of them throws.
AlertEnds(r) ==
  /\ runs[r].stage = "alerting"
  /\ Put(r, Over(runs[r], "failed"))
  /\ UNCHANGED timeline

\* The process is gone, and with it every run under way.
RunsLost(rs) ==
  [r \in RunId |-> IF rs[r].stage \in Active THEN Over(rs[r], "lost") ELSE rs[r]]

\* Steps of the program itself; the shell belongs to others.
RunStep(r) ==
  \/ Begin(r) \/ BeginThrows(r)
  \/ CallTools(r) \/ Reply(r) \/ AskThrows(r)
  \/ ToolRefuses(r) \/ ActionReturns(r) \/ MailReturns(r) \/ EventThrows(r)
  \/ ShellTimesOut(r)
  \/ AlertEnds(r)
=============================================================================
