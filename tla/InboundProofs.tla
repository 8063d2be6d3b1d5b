---------------------------- MODULE InboundProofs ----------------------------
(***************************************************************************)
(* Proofs about GatewayInbound and the runs of HarnessRuns, for any        *)
(* senders and policies, any tools, any answers of the providers and any   *)
(* bounds.                                                                 *)
(***************************************************************************)
EXTENDS GatewayInbound, SequenceFacts

Chatted ==
  Entry \cup [role : {"calls"}, ids : Seq(Nat)] \cup [role : {"tool"}, id : Nat]
Events == [type : {"call", "result"}, tool : Tool, end : {"open", "ok", "failed", "skipped"}]
Runs ==
  [stage : Stage, message : 0 .. MaxMails, turn : 0 .. MaxTurns, chat : Seq(Chatted),
   calls : Seq(Tool), at : Nat, tries : 0 .. MaxAttempts, acted : BOOLEAN,
   trace : Seq(Events)]
Rows == [dir : {"inbound", "outbound"}, of : Message, text : BOOLEAN]

-----------------------------------------------------------------------------
(* What a run leaves in the tool events. *)

\* Each call but the last event has its result next to it.
Explained(trace) ==
  \A i \in DOMAIN trace : trace[i].type = "call" /\ i < Len(trace) =>
    trace[i + 1].type = "result" /\ trace[i + 1].tool = trace[i].tool

\* No call is under way.
Closed(trace) == Len(trace) > 0 => trace[Len(trace)].type = "result"

\* The call of a tool is under way.
OpenCall(trace, tool) ==
  /\ Len(trace) > 0
  /\ trace[Len(trace)].type = "call" /\ trace[Len(trace)].tool = tool

SendCalls(trace) == {i \in DOMAIN trace : trace[i].type = "call" /\ trace[i].tool = "send_email"}

\* The mails that calls on record can have sent.
Due(trace) == MaxAttempts * Cardinality(SendCalls(trace))

Acting == {"calling", "sent", "terminating"}

\* The stage of a run, its place in the calls and its trace fit each other.
RunFits(run) ==
  /\ run \in Runs
  /\ run.stage = "free" => run.message = 0 /\ run.trace = <<>>
  /\ run.stage # "free" => run.message # 0
  /\ run.stage \in Acting => /\ run.at \in 1 .. Len(run.calls)
                             /\ OpenCall(run.trace, run.calls[run.at])
  /\ run.stage \in {"asking", "done", "queued"} => Closed(run.trace)
  /\ Explained(run.trace)

\* The attempts that the call under way still has.
Owed(run) ==
  IF run.stage \in {"calling", "sent"} /\ run.calls[run.at] = "send_email"
  THEN MaxAttempts - run.tries ELSE 0

SentBy(r) == {m \in Born : mails[m].by = r}

Recorded(r) == Cardinality(SentBy(r)) + Owed(runs[r]) <= Due(runs[r].trace)

-----------------------------------------------------------------------------
(* The mails. *)

\* How many mails may descend from the first one.
Budget == IF mails[1].header = -1 THEN DefaultDepth ELSE mails[1].header - 1

\* A mail without a header is the first one; one whose budget is not used up
\* has as much left as the mails before it did not use.
BudgetFits(m) ==
  /\ mails[m].header = -1 => m = 1 /\ mails[m].hops = 0
  /\ mails[m].header # -1 => mails[m].header >= 0
  /\ mails[m].header > 0 => mails[m].header + mails[m].hops <= Budget + 1

\* A mail that was stored, or is worked on, is on disk and was let in.
Rooted(m) == m \in files \cap attached /\ ~RecursionExhausted(mails[m])

\* Its message is in the thread, as it came.
Held(m) == Row(m) \in Range(timeline)

FaithfulRow(row) == row.dir = "inbound" => row.text = mails[row.of].text

Stored(m) ==
  /\ Held(m)
  /\ \E r \in RunId : runs[r].message = m

Types ==
  /\ runs \in [RunId -> Runs]
  /\ timeline \in Seq(Rows)
  /\ mails \in Seq(Mail) /\ Len(mails) \in 1 .. MaxMails
  /\ transfer \in [Message -> Transfer]
  /\ files \subseteq Born /\ attached \subseteq Born
  /\ up \in BOOLEAN /\ faults \in 0 .. MaxFaults

\* The inductive invariant.
InboundInv ==
  /\ Types
  /\ \A r \in RunId : RunFits(runs[r]) /\ Recorded(r)
  /\ \A m \in Message : (\E r \in RunId : runs[r].message = m) => Rooted(m) /\ Held(m)
  /\ \A m \in Message : (\E row \in Range(timeline) : row.of = m) => Rooted(m)
  /\ \A row \in Range(timeline) : FaithfulRow(row)
  /\ \A m \in Born : BudgetFits(m)
  /\ \A m \in Message : transfer[m] \in {"stored", "taken"} => Stored(m)

-----------------------------------------------------------------------------
(* Events that are added to a trace. *)

LEMMA SendCallsFinite ==
  ASSUME NEW trace \in Seq(Events)
  PROVE  IsFiniteSet(SendCalls(trace)) /\ Cardinality(SendCalls(trace)) \in Nat
<1>1. SendCalls(trace) \subseteq 1 .. Len(trace) /\ Len(trace) \in Nat
  BY DEF SendCalls
<1>2. IsFiniteSet(1 .. Len(trace))
  BY <1>1, FS_Interval
<1>3. IsFiniteSet(SendCalls(trace))
  BY <1>1, <1>2, FS_Subset
<1>. QED BY <1>3, FS_CardinalityType

LEMMA DueType ==
  ASSUME NEW trace \in Seq(Events)
  PROVE  Due(trace) \in Nat
<1>1. Cardinality(SendCalls(trace)) \in Nat /\ MaxAttempts \in Nat
  BY SendCallsFinite, RunBounds
<1>. QED BY <1>1 DEF Due

\* Results change nothing of the calls.
LEMMA ResultsAdded ==
  ASSUME NEW trace \in Seq(Events), NEW rest \in Seq(Events), Closed(trace), Explained(trace),
         \A i \in DOMAIN rest : rest[i].type = "result"
  PROVE  LET next == trace \o rest
         IN  /\ next \in Seq(Events) /\ Closed(next) /\ Explained(next)
             /\ SendCalls(next) = SendCalls(trace)
<1> DEFINE next == trace \o rest
           n == Len(trace)
           k == Len(rest)
<1>1. /\ next \in Seq(Events) /\ Len(next) = n + k /\ n \in Nat /\ k \in Nat
      /\ \A i \in 1 .. n : next[i] = trace[i]
      /\ \A i \in n + 1 .. n + k : next[i] = rest[i - n]
      /\ DOMAIN trace = 1 .. n /\ DOMAIN rest = 1 .. k /\ DOMAIN next = 1 .. n + k
  BY ConcatProperties
<1>2. n > 0 => trace[n].type = "result"
  BY DEF Closed
<1>3. \A i \in 1 .. n : trace[i].type = "call" /\ i < n =>
        trace[i + 1].type = "result" /\ trace[i + 1].tool = trace[i].tool
  BY <1>1 DEF Explained
<1> HIDE DEF next, n, k
<1>4. \A i \in n + 1 .. n + k : next[i].type = "result"
  <2> TAKE i \in n + 1 .. n + k
  <2>1. i - n \in 1 .. k
    BY <1>1
  <2>. QED BY <1>1, <2>1, ZenonT(30)
<1>5. Closed(next)
  <2>1. CASE k = 0
    BY <1>1, <1>2, <2>1 DEF Closed
  <2>2. CASE k # 0
    <3>1. n + k \in n + 1 .. n + k
      BY <1>1, <2>2
    <3>. QED BY <1>1, <1>4, <3>1 DEF Closed
  <2>. QED BY <2>1, <2>2
<1>6. Explained(next)
  <2> SUFFICES ASSUME NEW i \in DOMAIN next, next[i].type = "call", i < Len(next)
               PROVE  next[i + 1].type = "result" /\ next[i + 1].tool = next[i].tool
    BY DEF Explained
  <2>1. i \in 1 .. n
    BY <1>1, <1>4
  <2>2. trace[i].type = "call" /\ i # n
    BY <1>1, <1>2, <2>1
  <2>3. i < n /\ i + 1 \in 1 .. n
    BY <1>1, <2>1, <2>2
  <2>. QED BY <1>1, <1>3, <2>1, <2>2, <2>3
<1>7. SendCalls(next) = SendCalls(trace)
  <2>1. \A i \in DOMAIN next : next[i].type = "call" => i \in 1 .. n
    BY <1>1, <1>4
  <2>2. 1 .. n \subseteq DOMAIN next
    BY <1>1
  <2>. QED BY <1>1, <2>1, <2>2 DEF SendCalls
<1>. QED BY <1>1, <1>5, <1>6, <1>7 DEF next

\* The call under way gets its result.
LEMMA ResultAdded ==
  ASSUME NEW trace \in Seq(Events), NEW e \in Events, OpenCall(trace, e.tool), Explained(trace),
         e.type = "result"
  PROVE  LET next == Append(trace, e)
         IN  /\ next \in Seq(Events) /\ Closed(next) /\ Explained(next)
             /\ SendCalls(next) = SendCalls(trace)
<1> DEFINE next == Append(trace, e)
           n == Len(trace)
<1>1. /\ next \in Seq(Events) /\ Len(next) = n + 1 /\ n \in Nat
      /\ \A i \in 1 .. n : next[i] = trace[i]
      /\ next[n + 1] = e
      /\ DOMAIN trace = 1 .. n /\ DOMAIN next = 1 .. n + 1
  BY AppendProperties
<1>2. n > 0 /\ trace[n].type = "call" /\ trace[n].tool = e.tool
  BY DEF OpenCall
<1>3. \A i \in 1 .. n : trace[i].type = "call" /\ i < n =>
        trace[i + 1].type = "result" /\ trace[i + 1].tool = trace[i].tool
  BY <1>1 DEF Explained
<1> HIDE DEF next, n
<1>4. Closed(next)
  BY <1>1 DEF Closed
<1>5. Explained(next)
  <2> SUFFICES ASSUME NEW i \in DOMAIN next, next[i].type = "call", i < Len(next)
               PROVE  next[i + 1].type = "result" /\ next[i + 1].tool = next[i].tool
    BY DEF Explained
  <2>1. i \in 1 .. n /\ next[i] = trace[i]
    BY <1>1
  <2>2. CASE i = n
    BY <1>1, <1>2, <2>1, <2>2
  <2>3. CASE i # n
    <3>1. i < n /\ i + 1 \in 1 .. n
      BY <1>1, <2>1, <2>3
    <3>. QED BY <1>1, <1>3, <2>1, <3>1
  <2>. QED BY <2>2, <2>3
<1>6. SendCalls(next) = SendCalls(trace)
  <2>1. \A i \in DOMAIN next : next[i].type = "call" => i \in 1 .. n
    <3>1. \A i \in DOMAIN next : i \in 1 .. n \/ i = n + 1
      BY <1>1
    <3>. QED BY <1>1, <3>1
  <2>2. 1 .. n \subseteq DOMAIN next
    BY <1>1
  <2>. QED BY <1>1, <2>1, <2>2 DEF SendCalls
<1>. QED BY <1>1, <1>4, <1>5, <1>6 DEF next

\* A call is put on record.
LEMMA CallAdded ==
  ASSUME NEW trace \in Seq(Events), NEW e \in Events, Closed(trace), Explained(trace),
         e.type = "call"
  PROVE  LET next == Append(trace, e)
         IN  /\ next \in Seq(Events) /\ OpenCall(next, e.tool) /\ Explained(next)
             /\ Due(next) = Due(trace) + IF e.tool = "send_email" THEN MaxAttempts ELSE 0
<1> DEFINE next == Append(trace, e)
           n == Len(trace)
<1>1. /\ next \in Seq(Events) /\ Len(next) = n + 1 /\ n \in Nat
      /\ \A i \in 1 .. n : next[i] = trace[i]
      /\ next[n + 1] = e
      /\ DOMAIN trace = 1 .. n /\ DOMAIN next = 1 .. n + 1
  BY AppendProperties
<1>2. n > 0 => trace[n].type = "result"
  BY DEF Closed
<1>3. \A i \in 1 .. n : trace[i].type = "call" /\ i < n =>
        trace[i + 1].type = "result" /\ trace[i + 1].tool = trace[i].tool
  BY <1>1 DEF Explained
<1> HIDE DEF next, n
<1>4. OpenCall(next, e.tool)
  BY <1>1 DEF OpenCall
<1>5. Explained(next)
  <2> SUFFICES ASSUME NEW i \in DOMAIN next, next[i].type = "call", i < Len(next)
               PROVE  next[i + 1].type = "result" /\ next[i + 1].tool = next[i].tool
    BY DEF Explained
  <2>1. i \in 1 .. n /\ next[i] = trace[i]
    BY <1>1
  <2>2. i < n /\ i + 1 \in 1 .. n
    BY <1>1, <1>2, <2>1
  <2>. QED BY <1>1, <1>3, <2>1, <2>2
<1>6. CASE e.tool = "send_email"
  <2>1. SendCalls(next) = SendCalls(trace) \cup {n + 1}
    <3>1. \A i \in DOMAIN next : i \in 1 .. n \/ i = n + 1
      BY <1>1
    <3>2. \A i \in 1 .. n : i \in DOMAIN next
      BY <1>1
    <3>3. n + 1 \in DOMAIN next
      BY <1>1
    <3>. QED BY <1>1, <1>6, <3>1, <3>2, <3>3 DEF SendCalls
  <2>2. n + 1 \notin SendCalls(trace)
    BY <1>1 DEF SendCalls
  <2>3. Cardinality(SendCalls(next)) = Cardinality(SendCalls(trace)) + 1
    BY <2>1, <2>2, SendCallsFinite, FS_AddElement
  <2>4. Due(next) = Due(trace) + MaxAttempts
    <3>1. Cardinality(SendCalls(trace)) \in Nat /\ MaxAttempts \in Nat
      BY SendCallsFinite, RunBounds
    <3>2. \A c \in Nat, k \in Nat : k * (c + 1) = k * c + k
      OBVIOUS
    <3>. QED BY <2>3, <3>1, <3>2 DEF Due
  <2>. QED BY <1>1, <1>4, <1>5, <1>6, <2>4 DEF next
<1>7. CASE e.tool # "send_email"
  <2>1. SendCalls(next) = SendCalls(trace)
    <3>1. \A i \in DOMAIN next : i \in 1 .. n \/ i = n + 1
      BY <1>1
    <3>2. \A i \in 1 .. n : i \in DOMAIN next
      BY <1>1
    <3>. QED BY <1>1, <1>7, <3>1, <3>2 DEF SendCalls
  <2>2. Due(next) = Due(trace) + 0
    BY <2>1, DueType DEF Due
  <2>. QED BY <1>1, <1>4, <1>5, <1>7, <2>1, <2>2 DEF next
<1>. QED BY <1>6, <1>7

-----------------------------------------------------------------------------
(* What the steps make of a run. *)

LEMMA EventTypes ==
  ASSUME NEW type \in {"call", "result"}, NEW tool \in Tool,
         NEW end \in {"open", "ok", "failed", "skipped"}
  PROVE  /\ Event(type, tool, end) \in Events
         /\ Event(type, tool, end).type = type /\ Event(type, tool, end).tool = tool
  BY DEF Event, Events

LEMMA ResultType ==
  ASSUME NEW i \in Nat
  PROVE  Result(i) \in Chatted
  BY DEF Result, Chatted

\* A run between two calls.
Rested(run) ==
  run \in Runs /\ run.message # 0 /\ Closed(run.trace) /\ Explained(run.trace)

\* A run in one of its calls.
InCall(run) ==
  /\ run \in Runs /\ run.message # 0 /\ Explained(run.trace)
  /\ run.at \in 1 .. Len(run.calls) /\ OpenCall(run.trace, run.calls[run.at])

LEMMA OverFits ==
  ASSUME NEW run \in Runs, run.message # 0, Explained(run.trace),
         NEW stage \in {"alerting", "done", "failed", "lost"}, stage = "done" => Closed(run.trace)
  PROVE  LET new == Over(run, stage)
         IN  /\ RunFits(new) /\ new.stage = stage /\ new.message = run.message
             /\ new.trace = run.trace /\ Owed(new) = 0
<1> DEFINE new == Over(run, stage)
<1>1. /\ <<>> \in Seq(Chatted) /\ <<>> \in Seq(Tool) /\ <<>> \in Seq(Events)
      /\ 0 \in 0 .. MaxTurns /\ 0 \in 0 .. MaxMails /\ 0 \in 0 .. MaxAttempts /\ stage \in Stage /\ "free" \in Stage
  BY RunBounds DEF Stage
<1>2. run.message \in 0 .. MaxMails /\ run.trace \in Seq(Events)
  BY DEF Runs
<1>3. Idle \in Runs
  BY <1>1 DEF Idle, Runs
<1>4. /\ new \in Runs /\ new.stage = stage /\ new.message = run.message /\ new.trace = run.trace
  <2>1. new = [Idle EXCEPT !.stage = stage, !.message = run.message, !.trace = run.trace]
    BY DEF Over
  <2> HIDE DEF new
  <2>. QED BY <1>1, <1>2, <1>3, <2>1 DEF Runs
<1> HIDE DEF new
<1>5. RunFits(new)
  BY <1>4 DEF RunFits, Acting
<1>6. Owed(new) = 0
  BY <1>4 DEF Owed
<1>. QED BY <1>4, <1>5, <1>6 DEF new

LEMMA ThrowsFits ==
  ASSUME NEW run \in Runs, run.message # 0, Explained(run.trace)
  PROVE  LET new == Throws(run)
         IN  /\ RunFits(new) /\ new.stage # "free" /\ new.message = run.message
             /\ new.trace = run.trace /\ Owed(new) = 0
<1>1. /\ RunFits(Over(run, "alerting")) /\ Over(run, "alerting").stage = "alerting"
      /\ Over(run, "alerting").message = run.message
      /\ Over(run, "alerting").trace = run.trace /\ Owed(Over(run, "alerting")) = 0
  BY OverFits
<1>. QED BY <1>1 DEF Throws

LEMMA NextTurnFits ==
  ASSUME NEW run, Rested(run)
  PROVE  LET new == NextTurn(run)
         IN  /\ RunFits(new) /\ new.stage # "free" /\ new.message = run.message
             /\ new.trace = run.trace /\ Owed(new) = 0
<1> DEFINE new == NextTurn(run)
<1>1. CASE run.turn >= MaxTurns
  <2>1. new = Throws(run)
    BY <1>1 DEF NextTurn
  <2>2. /\ RunFits(Throws(run)) /\ Throws(run).stage # "free" /\ Throws(run).message = run.message
        /\ Throws(run).trace = run.trace /\ Owed(Throws(run)) = 0
    BY ThrowsFits DEF Rested
  <2>. QED BY <2>1, <2>2
<1>2. CASE ~ (run.turn >= MaxTurns)
  <2>1. run.turn \in 0 .. MaxTurns /\ MaxTurns \in Nat
    BY RunBounds DEF Rested, Runs
  <2>2. /\ run.turn + 1 \in 0 .. MaxTurns /\ <<>> \in Seq(Tool) /\ "asking" \in Stage
        /\ 0 \in 0 .. MaxAttempts
    BY <1>2, <2>1, RunBounds DEF Stage
  <2>3. new = [run EXCEPT !.stage = "asking", !.turn = @ + 1, !.calls = <<>>, !.at = 0,
                         !.tries = 0]
    BY <1>2 DEF NextTurn
  <2> HIDE DEF new
  <2>4. new \in Runs /\ new.stage = "asking" /\ new.message = run.message /\ new.trace = run.trace
    BY <2>2, <2>3 DEF Rested, Runs
  <2>5. RunFits(new) /\ Owed(new) = 0
    BY <2>4 DEF RunFits, Rested, Acting, Owed
  <2>. QED BY <2>4, <2>5 DEF new
<1>. QED BY <1>1, <1>2

LEMMA StartCallFits ==
  ASSUME NEW run, Rested(run), run.at \in 1 .. Len(run.calls)
  PROVE  LET new == StartCall(run)
         IN  /\ RunFits(new) /\ new.stage # "free" /\ new.message = run.message
             /\ Due(new.trace) = Due(run.trace) + Owed(new) /\ Owed(new) \in Nat
<1> DEFINE tool == run.calls[run.at]
           e == Event("call", tool, "open")
           next == Append(run.trace, e)
           new == StartCall(run)
<1>1. /\ run \in Runs /\ run.trace \in Seq(Events) /\ Closed(run.trace) /\ Explained(run.trace)
      /\ run.message # 0 /\ run.calls \in Seq(Tool)
  BY DEF Rested, Runs
<1>2. tool \in Tool
  <2> DEFINE calls == run.calls
             at == run.at
  <2>1. calls \in Seq(Tool) /\ at \in 1 .. Len(calls)
    BY <1>1
  <2> HIDE DEF calls, at
  <2>2. calls[at] \in Tool
    BY <2>1
  <2>. QED BY <2>2 DEF calls, at
<1> HIDE DEF tool
<1>3. e \in Events /\ e.type = "call" /\ e.tool = tool
  BY <1>2, EventTypes
<1>4. new = [run EXCEPT !.stage = "calling", !.tries = 0, !.trace = next]
  BY DEF StartCall, tool
<1> HIDE DEF e
<1>5. /\ next \in Seq(Events) /\ OpenCall(next, tool) /\ Explained(next)
      /\ Due(next) = Due(run.trace) + IF tool = "send_email" THEN MaxAttempts ELSE 0
  BY <1>1, <1>3, CallAdded
<1> HIDE DEF next, new
<1>6. /\ new \in Runs /\ new.stage = "calling" /\ new.message = run.message /\ new.trace = next
      /\ new.calls = run.calls /\ new.at = run.at /\ new.tries = 0
  <2>1. 0 \in 0 .. MaxAttempts
    BY RunBounds
  <2>. QED BY <1>1, <1>4, <1>5, <2>1 DEF Runs, Stage
<1>7. RunFits(new)
  BY <1>1, <1>5, <1>6 DEF RunFits, Acting, tool
<1>8. /\ Owed(new) = IF tool = "send_email" THEN MaxAttempts ELSE 0
      /\ Owed(new) \in Nat
  <2>1. MaxAttempts \in Nat /\ MaxAttempts - 0 = MaxAttempts
    BY RunBounds
  <2>. QED BY <1>6, <2>1 DEF Owed, tool
<1>. QED BY <1>5, <1>6, <1>7, <1>8 DEF new

LEMMA ToldRests ==
  ASSUME NEW run, InCall(run), NEW end \in {"ok", "failed"}
  PROVE  LET told == Told(run, end)
         IN  /\ Rested(told) /\ told.message = run.message
             /\ told.calls = run.calls /\ told.at = run.at
             /\ SendCalls(told.trace) = SendCalls(run.trace)
<1> DEFINE tool == run.calls[run.at]
           e == Event("result", tool, end)
           next == Append(run.trace, e)
           chat == Append(run.chat, Result(run.at))
           told == Told(run, end)
<1>1. /\ run \in Runs /\ run.trace \in Seq(Events) /\ OpenCall(run.trace, tool)
      /\ Explained(run.trace) /\ run.at \in Nat /\ run.chat \in Seq(Chatted)
      /\ run.message # 0 /\ run.calls \in Seq(Tool)
  BY DEF InCall, Runs
<1>2. tool \in Tool
  <2> DEFINE calls == run.calls
             at == run.at
  <2>1. calls \in Seq(Tool) /\ at \in 1 .. Len(calls)
    BY <1>1 DEF InCall
  <2> HIDE DEF calls, at
  <2>2. calls[at] \in Tool
    BY <2>1
  <2>. QED BY <2>2 DEF calls, at
<1>3. chat \in Seq(Chatted)
  BY <1>1, ResultType, AppendProperties
<1>4. told = [run EXCEPT !.chat = chat, !.trace = next]
  BY DEF Told
<1> HIDE DEF tool, chat
<1>5. e \in Events /\ e.type = "result" /\ e.tool = tool
  BY <1>2, EventTypes
<1> HIDE DEF e
<1>6. /\ next \in Seq(Events) /\ Closed(next) /\ Explained(next)
      /\ SendCalls(next) = SendCalls(run.trace)
  BY <1>1, <1>5, ResultAdded
<1> HIDE DEF next, told
<1>7. /\ told \in Runs /\ told.message = run.message /\ told.trace = next
      /\ told.calls = run.calls /\ told.at = run.at
  BY <1>1, <1>3, <1>4, <1>6 DEF Runs
<1>. QED BY <1>1, <1>6, <1>7 DEF Rested, told

LEMMA SkippedRests ==
  ASSUME NEW run, Rested(run), run.at \in 1 .. Len(run.calls)
  PROVE  LET next == SkipRest(run)
         IN  /\ Rested(next) /\ next.message = run.message
             /\ SendCalls(next.trace) = SendCalls(run.trace)
<1> DEFINE at == run.at
           calls == run.calls
           n == Cardinality(at + 1 .. Len(calls))
           results == [i \in 1 .. n |-> Result(at + i)]
           events == [i \in 1 .. n |-> Event("result", calls[at + i], "skipped")]
           chat == run.chat \o results
           trace == run.trace \o events
           next == SkipRest(run)
<1>1. /\ run \in Runs /\ run.trace \in Seq(Events) /\ Closed(run.trace) /\ Explained(run.trace)
      /\ run.message # 0 /\ calls \in Seq(Tool) /\ run.chat \in Seq(Chatted)
      /\ at \in 1 .. Len(calls) /\ Len(calls) \in Nat /\ at \in Nat
  BY DEF Rested, Runs
<1>2. next = [run EXCEPT !.chat = chat, !.trace = trace]
  BY DEF SkipRest
<1> HIDE DEF at, calls
<1>3. n \in Nat /\ \A i \in 1 .. n : at + i \in 1 .. Len(calls)
  <2>1. at + 1 \in Int /\ Len(calls) \in Int
    BY <1>1
  <2>2. n = IF at + 1 > Len(calls) THEN 0 ELSE Len(calls) - (at + 1) + 1
    BY <2>1, FS_Interval
  <2> HIDE DEF n
  <2>. QED BY <1>1, <2>2
<1> HIDE DEF n
<1>4. chat \in Seq(Chatted)
  <2>1. \A i \in 1 .. n : Result(at + i) \in Chatted
    BY <1>1, <1>3, ResultType
  <2>2. results \in Seq(Chatted)
    BY <1>3, <2>1, IsASeq
  <2> HIDE DEF results
  <2>. QED BY <1>1, <2>2, ConcatProperties
<1>5. events \in Seq(Events) /\ \A i \in DOMAIN events : events[i].type = "result"
  <2>1. \A i \in 1 .. n : calls[at + i] \in Tool
    <3>1. \A j \in 1 .. Len(calls) : calls[j] \in Tool
      BY <1>1
    <3>. QED BY <1>3, <3>1
  <2>2. \A i \in 1 .. n : /\ Event("result", calls[at + i], "skipped") \in Events
                         /\ Event("result", calls[at + i], "skipped").type = "result"
    BY <2>1, EventTypes
  <2>3. events \in Seq(Events)
    BY <1>3, <2>2, IsASeq
  <2>. QED BY <2>2, <2>3
<1> HIDE DEF events
<1>6. /\ trace \in Seq(Events) /\ Closed(trace) /\ Explained(trace)
      /\ SendCalls(trace) = SendCalls(run.trace)
  BY <1>1, <1>5, ResultsAdded
<1> HIDE DEF trace, chat, next
<1>7. next \in Runs /\ next.message = run.message /\ next.trace = trace
  BY <1>1, <1>2, <1>4, <1>6 DEF Runs
<1>. QED BY <1>1, <1>6, <1>7 DEF Rested, next

-----------------------------------------------------------------------------
(* The context. *)

LEMMA EventCountType ==
  ASSUME Types, NEW m
  PROVE  EventCount(m) \in Nat
<1> DEFINE w == [r \in 1 .. MaxRuns |-> IF runs[r].message = m THEN Len(runs[r].trace) ELSE 0]
           Solves(f) == f = [r \in 0 .. MaxRuns |->
             IF r = 0 THEN 0
             ELSE f[r - 1] + IF runs[r].message = m THEN Len(runs[r].trace) ELSE 0]
           n == CHOOSE f : Solves(f)
<1>1. MaxRuns \in Nat
  BY RunBounds
<1>2. \A r \in 1 .. MaxRuns : w[r] \in Nat
  <2>1. \A r \in 1 .. MaxRuns : runs[r].trace \in Seq(Events)
    BY DEF Types, Runs, RunId
  <2>. QED BY <2>1
<1>3. \A f : SumRule(w, MaxRuns, f) <=> Solves(f)
  <2> TAKE f
  <2>1. \A r \in 0 .. MaxRuns :
          (IF r = 0 THEN 0 ELSE f[r - 1] + w[r])
            = IF r = 0 THEN 0
              ELSE f[r - 1] + IF runs[r].message = m THEN Len(runs[r].trace) ELSE 0
    BY <1>1
  <2>2. [r \in 0 .. MaxRuns |-> IF r = 0 THEN 0 ELSE f[r - 1] + w[r]]
          = [r \in 0 .. MaxRuns |-> IF r = 0 THEN 0
              ELSE f[r - 1] + IF runs[r].message = m THEN Len(runs[r].trace) ELSE 0]
    BY <2>1
  <2>. QED BY <2>2 DEF SumRule
<1>4. \E f : Solves(f)
  BY <1>1, <1>3, SumExists
<1>5. SumRule(w, MaxRuns, n)
  <2>1. Solves(n)
    BY <1>4, Zenon
  <2>. QED BY <1>3, <2>1
<1>6. EventCount(m) = n[MaxRuns]
  BY Zenon DEF EventCount
<1> HIDE DEF w, n
<1>7. n[MaxRuns] \in Nat
  BY <1>1, <1>2, <1>5, SumType
<1>. QED BY <1>6, <1>7

LEMMA EntryTypes ==
  ASSUME NEW role \in {"system", "user", "assistant"}, NEW text \in BOOLEAN, NEW of \in 0 .. MaxMails
  PROVE  Says(role, text, of) \in Entry
  BY DEF Says, Entry

LEMMA HistoryType ==
  ASSUME Types
  PROVE  History \in Seq(Entry)
<1>1. 0 \in 0 .. MaxMails /\ Message \subseteq 0 .. MaxMails
  BY RunBounds DEF Message
<1>2. ASSUME NEW m PROVE ToolEntries(m) \in Seq(Entry)
  <2> DEFINE n == EventCount(m)
             c == Says("user", TRUE, 0)
             told == [i \in 1 .. n |-> c]
  <2>1. n \in Nat
    BY EventCountType
  <2>2. c \in Entry
    BY <1>1, EntryTypes
  <2>3. ToolEntries(m) = told
    BY DEF ToolEntries
  <2> HIDE DEF n, c
  <2>4. told \in Seq(Entry)
    BY <2>1, <2>2, IsASeq
  <2>. QED BY <2>3, <2>4
<1>3. ASSUME NEW row \in Rows PROVE HistoryEntry(row) \in Entry
  <2>1. row.of \in 0 .. MaxMails /\ row.text \in BOOLEAN
    BY <1>1 DEF Rows
  <2>. QED BY <1>1, <2>1, EntryTypes DEF HistoryEntry
<1> DEFINE told(i) ==
             <<HistoryEntry(timeline[i])>>
               \o IF timeline[i].dir = "inbound" THEN ToolEntries(timeline[i].of) ELSE <<>>
           all == [i \in DOMAIN timeline |-> told(i)]
<1>4. timeline \in Seq(Rows) /\ Len(timeline) \in Nat /\ DOMAIN timeline = 1 .. Len(timeline)
  BY DEF Types
<1>5. ASSUME NEW i \in DOMAIN timeline PROVE told(i) \in Seq(Entry)
  <2> DEFINE a == <<HistoryEntry(timeline[i])>>
             b == IF timeline[i].dir = "inbound" THEN ToolEntries(timeline[i].of) ELSE <<>>
  <2>1. a \in Seq(Entry)
    <3>1. timeline[i] \in Rows
      BY <1>4
    <3>2. HistoryEntry(timeline[i]) \in Entry
      BY <1>3, <3>1
    <3>. QED BY <3>2
  <2>2. b \in Seq(Entry)
    <3>1. <<>> \in Seq(Entry)
      OBVIOUS
    <3>. QED BY <1>2, <3>1
  <2> HIDE DEF a, b
  <2>3. a \o b \in Seq(Entry)
    BY <2>1, <2>2, ConcatProperties
  <2>. QED BY <2>3 DEF a, b
<1>6. History = FlattenSeq(all)
  BY DEF History
<1> HIDE DEF told
<1>7. all \in Seq(Seq(Entry))
  BY <1>4, <1>5, IsASeq
<1> HIDE DEF all
<1>. QED BY <1>6, <1>7, FlattenType

LEMMA MessagesType ==
  ASSUME Types, NEW m \in 0 .. MaxMails
  PROVE  ProviderMessages(m) \in Seq(Chatted)
<1> DEFINE others == Those(History, {entry \in Entry : entry.of # m})
           a == <<Says("system", TRUE, 0)>>
           b == <<Says("user", HasText(m), m)>>
<1>1. others \in Seq(Entry)
  BY HistoryType, ThoseProperties
<1>2. a \in Seq(Entry) /\ b \in Seq(Entry)
  <2> DEFINE c == Says("system", TRUE, 0)
             d == Says("user", HasText(m), m)
  <2>1. 0 \in 0 .. MaxMails
    BY RunBounds
  <2>3. HasText(m) \in BOOLEAN
    BY DEF HasText
  <2>2. c \in Entry /\ d \in Entry
    BY <2>1, <2>3, EntryTypes
  <2> HIDE DEF c, d
  <2>4. <<c>> \in Seq(Entry) /\ <<d>> \in Seq(Entry)
    BY <2>2
  <2>. QED BY <2>4 DEF c, d
<1>3. ProviderMessages(m) = a \o others \o b
  BY DEF ProviderMessages
<1> HIDE DEF a, b, others
<1>4. a \o others \o b \in Seq(Entry)
  BY <1>1, <1>2, ConcatProperties
<1>5. Seq(Entry) \subseteq Seq(Chatted)
  BY SeqMonotonic DEF Chatted
<1>. QED BY <1>3, <1>4, <1>5

-----------------------------------------------------------------------------
(* The answers. *)

LEMMA ToolsOfType ==
  ASSUME NEW blocks \in Seq(Block)
  PROVE  ToolsOf(blocks) \in Seq(Tool)
<1>1. \A i \in 1 .. Len(blocks) : blocks[i] \in Block
  OBVIOUS
<1>2. \A i \in 1 .. Len(blocks) : blocks[i].tool \in Tool
  BY <1>1 DEF Block
<1>3. Len(blocks) \in Nat /\ DOMAIN blocks = 1 .. Len(blocks)
  OBVIOUS
<1> DEFINE n == Len(blocks)
           tools == [i \in 1 .. n |-> blocks[i].tool]
<1>4. ToolsOf(blocks) = tools
  BY <1>3 DEF ToolsOf
<1> HIDE DEF n
<1>5. tools \in Seq(Tool)
  BY <1>2, <1>3, IsASeq DEF n
<1>. QED BY <1>4, <1>5

LEMMA CallsType == CallsGiven \subseteq Seq(Tool)
<1> SUFFICES ASSUME NEW p \in Provider, NEW raw \in Answers
             PROVE  Answer(p, TRUE, raw).calls \in Seq(Tool)
  <2> SUFFICES ASSUME NEW calls \in CallsGiven PROVE calls \in Seq(Tool)
    OBVIOUS
  <2>1. PICK p \in Provider : calls \in {Answer(p, TRUE, raw).calls : raw \in Answers}
    BY DEF CallsGiven
  <2>2. PICK raw \in Answers : calls = Answer(p, TRUE, raw).calls
    BY <2>1
  <2>. QED BY <2>2
<1>1. raw \in Seq(Block)
  BY AnswersAreBlocks
<1>2. /\ ToolsOf(Those(raw, Whole)) \in Seq(Tool)
      /\ ToolsOf(Those(raw, Named)) \in Seq(Tool)
      /\ <<>> \in Seq(Tool)
  BY <1>1, ThoseProperties, ToolsOfType
<1>3. \A calls : Gave(calls).calls = calls
  BY DEF Gave
<1>4. Threw.calls = <<>>
  BY DEF Threw
<1>5. OpenAiCalls(raw).calls \in Seq(Tool)
  BY <1>2, <1>3, <1>4 DEF OpenAiCalls
<1>6. AnthropicCalls(raw).calls \in Seq(Tool) /\ GeminiCalls(raw).calls \in Seq(Tool)
  BY <1>2, <1>3 DEF AnthropicCalls, GeminiCalls
<1>. QED BY <1>5, <1>6 DEF Answer, Provider, OpenAiAnswer, GrokAnswer, OpenRouterAnswer,
           AnthropicAnswer, GeminiAnswer, GrokCalls, OpenRouterCalls

-----------------------------------------------------------------------------
(* The steps of the harness. *)

\* A run that goes on keeps its message; what it owes is on record.
Goes(old, new) ==
  /\ RunFits(new) /\ new.stage # "free" /\ new.message = old.message
  /\ Due(old.trace) + Owed(new) <= Due(new.trace)

LEMMA KeepsGoing ==
  ASSUME NEW old, NEW new, old.trace \in Seq(Events), RunFits(new), new.stage # "free",
         new.message = old.message, SendCalls(new.trace) = SendCalls(old.trace), Owed(new) = 0
  PROVE  Goes(old, new)
<1>1. Due(old.trace) \in Nat /\ Due(new.trace) = Due(old.trace)
  BY DueType DEF Due
<1>. QED BY <1>1 DEF Goes

LEMMA ThrowsGoes ==
  ASSUME NEW run \in Runs, run.message # 0, Explained(run.trace)
  PROVE  Goes(run, Throws(run))
<1>1. run.trace \in Seq(Events)
  BY DEF Runs
<1>2. /\ RunFits(Throws(run)) /\ Throws(run).stage # "free" /\ Throws(run).message = run.message
      /\ Throws(run).trace = run.trace /\ Owed(Throws(run)) = 0
  BY ThrowsFits
<1>. QED BY <1>1, <1>2, KeepsGoing

LEMMA InCallActed ==
  ASSUME NEW run, InCall(run), NEW b \in BOOLEAN
  PROVE  LET new == [run EXCEPT !.acted = b]
         IN  InCall(new) /\ new.message = run.message /\ new.trace = run.trace
<1> DEFINE new == [run EXCEPT !.acted = b]
<1>1. /\ new \in Runs /\ new.message = run.message /\ new.trace = run.trace
      /\ new.at = run.at /\ new.calls = run.calls
  BY DEF InCall, Runs
<1> HIDE DEF new
<1>2. InCall(new)
  BY <1>1 DEF InCall
<1>. QED BY <1>1, <1>2 DEF new

LEMMA ResumeGoes ==
  ASSUME NEW run, InCall(run), NEW end \in {"ok", "failed"}
  PROVE  Goes(run, Resume(run, end))
<1> DEFINE told == Told(run, end)
<1>1. run \in Runs /\ run.trace \in Seq(Events) /\ run.at \in 1 .. Len(run.calls)
  BY DEF InCall, Runs
<1>2. /\ Rested(told) /\ told.message = run.message /\ told.calls = run.calls
      /\ told.at = run.at /\ SendCalls(told.trace) = SendCalls(run.trace)
  BY ToldRests
<1>3. Resume(run, end) =
        IF end = "failed" THEN NextTurn(SkipRest(told))
        ELSE IF run.at < Len(run.calls) THEN StartCall([told EXCEPT !.at = @ + 1])
        ELSE NextTurn(told)
  BY DEF Resume
<1> HIDE DEF told
<1>4. ASSUME NEW rest, Rested(rest), rest.message = run.message,
             SendCalls(rest.trace) = SendCalls(run.trace)
      PROVE  Goes(run, NextTurn(rest))
  <2>1. /\ RunFits(NextTurn(rest)) /\ NextTurn(rest).stage # "free"
        /\ NextTurn(rest).message = rest.message
        /\ NextTurn(rest).trace = rest.trace /\ Owed(NextTurn(rest)) = 0
    BY <1>4, NextTurnFits
  <2>. QED BY <1>1, <1>4, <2>1, KeepsGoing
<1>5. CASE end = "failed"
  <2>1. told.at \in 1 .. Len(told.calls)
    BY <1>1, <1>2
  <2>2. /\ Rested(SkipRest(told)) /\ SkipRest(told).message = told.message
        /\ SendCalls(SkipRest(told).trace) = SendCalls(told.trace)
    BY <1>2, <2>1, SkippedRests
  <2>. QED BY <1>2, <1>3, <1>4, <1>5, <2>2
<1>6. CASE end # "failed" /\ run.at < Len(run.calls)
  <2> DEFINE on == [told EXCEPT !.at = @ + 1]
             new == StartCall(on)
  <2>1. Len(run.calls) \in Nat /\ run.at \in Nat
    BY <1>1 DEF Runs
  <2>2. /\ on \in Runs /\ on.message = run.message /\ on.trace = told.trace
        /\ on.calls = run.calls /\ on.at = run.at + 1
    <3>1. told.at + 1 \in Nat /\ told.at + 1 = run.at + 1
      BY <1>2, <2>1
    <3>2. told \in Runs
      BY <1>2 DEF Rested
    <3>3. /\ on \in Runs /\ on.message = told.message /\ on.trace = told.trace
          /\ on.calls = told.calls /\ on.at = told.at + 1
      BY <3>1, <3>2 DEF Runs
    <3> HIDE DEF on
    <3>. QED BY <1>2, <3>1, <3>3
  <2> HIDE DEF on
  <2>3. on.at \in 1 .. Len(on.calls)
    BY <1>1, <1>6, <2>1, <2>2
  <2>4. Rested(on)
    BY <1>2, <2>2 DEF Rested
  <2>5. /\ RunFits(new) /\ new.stage # "free" /\ new.message = on.message
        /\ Due(new.trace) = Due(on.trace) + Owed(new) /\ Owed(new) \in Nat
    BY <2>3, <2>4, StartCallFits
  <2>6. SendCalls(on.trace) = SendCalls(run.trace)
    BY <1>2, <2>2
  <2>7. Due(on.trace) = Due(run.trace) /\ Due(run.trace) \in Nat
    BY <1>1, <2>6, DueType DEF Due
  <2> HIDE DEF new
  <2>8. Goes(run, new)
    BY <2>2, <2>5, <2>6, <2>7 DEF Goes
  <2>. QED BY <1>3, <1>6, <2>8 DEF new, on
<1>7. CASE end # "failed" /\ ~ (run.at < Len(run.calls))
  BY <1>2, <1>3, <1>4, <1>7
<1>. QED BY <1>5, <1>6, <1>7

\* A run is put in the place of an old one, and goes on from it.
GoesOn(r, old) == \E new : runs' = [runs EXCEPT ![r] = new] /\ Goes(old, new)

\* A call ends, in any way.
LEMMA EndGoes ==
  ASSUME NEW r, NEW old, NEW run, InCall(run), run.message = old.message,
         run.trace = old.trace, NEW end \in {"ok", "failed", "fatal"}, End(r, run, end)
  PROVE  GoesOn(r, old)
<1> DEFINE new == IF end = "fatal" THEN Throws(run) ELSE Resume(run, end)
<1>1. runs' = [runs EXCEPT ![r] = new]
  BY DEF End, Put
<1>2. Goes(run, new)
  <2>1. CASE end = "fatal"
    <3>1. run \in Runs /\ run.message # 0 /\ Explained(run.trace)
      BY DEF InCall
    <3>. QED BY <2>1, <3>1, ThrowsGoes
  <2>2. CASE end # "fatal"
    <3>1. end \in {"ok", "failed"}
      BY <2>2
    <3>2. Goes(run, Resume(run, end))
      BY <3>1, ResumeGoes
    <3>. QED BY <2>2, <3>2
  <2>. QED BY <2>1, <2>2
<1> HIDE DEF new
<1>3. Goes(old, new)
  BY <1>2 DEF Goes
<1>. QED BY <1>1, <1>3 DEF GoesOn

\* A step of one run, and of no other.
Moves(r) ==
  /\ runs[r].stage # "free"
  /\ \E new : runs' = [runs EXCEPT ![r] = new] /\ Goes(runs[r], new)
  /\ \/ timeline' = timeline
     \/ \E text \in BOOLEAN : timeline' = Append(timeline, Outbound(runs[r].message, text))

LEMMA HarnessMoves ==
  ASSUME InboundInv, NEW r \in RunId, RunStep(r) \/ ShellCloses(r)
  PROVE  Moves(r)
<1>1. /\ runs[r] \in Runs /\ RunFits(runs[r]) /\ Explained(runs[r].trace)
      /\ runs[r].trace \in Seq(Events)
  BY DEF InboundInv, Types, RunFits, Runs
<1>2. runs[r].stage # "free" => runs[r].message # 0
  BY <1>1 DEF RunFits
<1>3. runs[r].stage \in Acting => InCall(runs[r])
  BY <1>1, <1>2 DEF RunFits, InCall, Acting
<1>4. runs[r].stage # "free" => Goes(runs[r], Throws(runs[r]))
  BY <1>1, <1>2, ThrowsGoes
<1>5. ASSUME runs[r].stage # "free", timeline' = timeline,
             runs' = [runs EXCEPT ![r] = Throws(runs[r])]
      PROVE  Moves(r)
  BY <1>4, <1>5 DEF Moves
<1>6. ASSUME NEW end \in {"ok", "failed", "fatal"}, NEW b \in BOOLEAN,
             runs[r].stage \in Acting, timeline' = timeline,
             End(r, [runs[r] EXCEPT !.acted = b], end)
      PROVE  Moves(r)
  <2> DEFINE run == [runs[r] EXCEPT !.acted = b]
  <2>1. InCall(run) /\ run.message = runs[r].message /\ run.trace = runs[r].trace
    BY <1>3, <1>6, InCallActed
  <2>2. End(r, run, end)
    BY <1>6
  <2> DEFINE old == runs[r]
  <2>3. run.message = old.message /\ run.trace = old.trace
    BY <2>1
  <2> HIDE DEF run, old
  <2>4. GoesOn(r, old)
    BY <2>1, <2>2, <2>3, EndGoes
  <2>. QED BY <1>6, <2>4 DEF GoesOn, Moves, Acting, old
<1>7. CASE Begin(r)
  <2> DEFINE chat == ProviderMessages(runs[r].message)
             new == [runs[r] EXCEPT !.stage = "asking", !.turn = 1, !.chat = chat]
  <2>1. chat \in Seq(Chatted)
    <3>1. Types /\ runs[r].message \in 0 .. MaxMails
      BY <1>1 DEF InboundInv, Runs
    <3>. QED BY <3>1, MessagesType
  <2>2. runs' = [runs EXCEPT ![r] = new] /\ timeline' = timeline /\ runs[r].stage = "queued"
    BY <1>7 DEF Begin, Put
  <2> HIDE DEF chat
  <2>3. 1 \in 0 .. MaxTurns /\ "asking" \in Stage
    BY RunBounds DEF Stage
  <2>4. /\ new \in Runs /\ new.stage = "asking" /\ new.message = runs[r].message
        /\ new.trace = runs[r].trace
    BY <1>1, <2>1, <2>3 DEF Runs
  <2> HIDE DEF new
  <2>5. RunFits(new) /\ Owed(new) = 0
    BY <1>1, <1>2, <2>2, <2>4 DEF RunFits, Acting, Owed
  <2>6. Goes(runs[r], new)
    BY <1>1, <2>4, <2>5, KeepsGoing
  <2>. QED BY <2>2, <2>6 DEF Moves
<1>8. CASE BeginThrows(r)
  BY <1>5, <1>8 DEF BeginThrows, Put
<1>9. CASE CallTools(r)
  <2>1. PICK calls \in CallsGiven :
          /\ calls # <<>>
          /\ runs' = [runs EXCEPT ![r] = StartCall([runs[r] EXCEPT
               !.chat = Append(@, Calls([i \in DOMAIN calls |-> i])),
               !.calls = calls, !.at = 1])]
    BY <1>9 DEF CallTools, Put
  <2> DEFINE ids == [i \in DOMAIN calls |-> i]
             chat == Append(runs[r].chat, Calls(ids))
             run == [runs[r] EXCEPT !.chat = chat, !.calls = calls, !.at = 1]
             new == StartCall(run)
  <2>2. runs' = [runs EXCEPT ![r] = new] /\ timeline' = timeline /\ runs[r].stage = "asking"
    BY <1>9, <2>1 DEF CallTools
  <2>3. calls \in Seq(Tool) /\ 1 \in 1 .. Len(calls)
    <3>1. calls \in Seq(Tool)
      BY CallsType
    <3>. QED BY <2>1, <3>1
  <2>4. chat \in Seq(Chatted)
    <3>1. ids \in Seq(Nat)
      BY <2>3
    <3> HIDE DEF ids
    <3>2. Calls(ids) \in Chatted
      BY <3>1 DEF Calls, Chatted
    <3>3. runs[r].chat \in Seq(Chatted)
      BY <1>1 DEF Runs
    <3> DEFINE entry == Calls(ids)
    <3> HIDE DEF entry
    <3>. QED BY <3>2, <3>3 DEF entry
  <2> HIDE DEF chat
  <2>5. /\ run \in Runs /\ run.message = runs[r].message /\ run.trace = runs[r].trace
        /\ run.calls = calls /\ run.at = 1
    BY <1>1, <2>3, <2>4 DEF Runs
  <2> HIDE DEF run
  <2>6. Rested(run)
    BY <1>1, <1>2, <2>2, <2>5 DEF RunFits, Rested
  <2>7. run.at \in 1 .. Len(run.calls)
    BY <2>3, <2>5
  <2>8. /\ RunFits(new) /\ new.stage # "free" /\ new.message = run.message
        /\ Due(new.trace) = Due(run.trace) + Owed(new) /\ Owed(new) \in Nat
    BY <2>6, <2>7, StartCallFits
  <2>9. Due(run.trace) \in Nat
    BY <1>1, <2>5, DueType
  <2> HIDE DEF new
  <2>10. Goes(runs[r], new)
    BY <2>5, <2>8, <2>9 DEF Goes
  <2>. QED BY <2>2, <2>10 DEF Moves
<1>10. CASE Reply(r)
  <2>1. runs[r].stage = "asking" /\ Closed(runs[r].trace)
    BY <1>1, <1>10 DEF Reply, RunFits
  <2>2. PICK text \in BOOLEAN :
          \/ /\ runs' = [runs EXCEPT ![r] = Over(runs[r], "done")]
             /\ timeline' = Append(timeline, Outbound(runs[r].message, text))
          \/ runs' = [runs EXCEPT ![r] = Throws(runs[r])] /\ timeline' = timeline
    BY <1>10 DEF Reply, Put
  <2> DEFINE new == Over(runs[r], "done")
  <2>3. /\ RunFits(new) /\ new.stage = "done" /\ new.message = runs[r].message
        /\ new.trace = runs[r].trace /\ Owed(new) = 0
    BY <1>1, <1>2, <2>1, OverFits
  <2>4. Goes(runs[r], new)
    BY <1>1, <2>3, KeepsGoing
  <2> HIDE DEF new
  <2>. QED BY <1>5, <2>1, <2>2, <2>4 DEF Moves, new
<1>11. CASE AskThrows(r)
  BY <1>5, <1>11 DEF AskThrows, Put
<1>12. runs[r].acted \in BOOLEAN /\ runs[r] = [runs[r] EXCEPT !.acted = runs[r].acted]
  BY <1>1 DEF Runs
<1>13. CASE ToolRefuses(r)
  <2>1. PICK end \in Refusals(runs[r].calls[runs[r].at]) : End(r, runs[r], end)
    BY <1>13 DEF ToolRefuses
  <2>2. end \in {"ok", "failed", "fatal"}
    BY <2>1 DEF Refusals
  <2>. QED BY <1>6, <1>12, <1>13, <2>1, <2>2 DEF ToolRefuses, Acting
<1>14. CASE ActionReturns(r)
  <2> DEFINE tool == runs[r].calls[runs[r].at]
             b == runs[r].acted \/ ActsOutside(tool)
  <2>1. PICK end \in ActionEnds(tool) : End(r, [runs[r] EXCEPT !.acted = b], end)
    BY <1>14 DEF ActionReturns
  <2>2. end \in {"ok", "failed", "fatal"}
    BY <2>1 DEF ActionEnds
  <2>3. b \in BOOLEAN
    BY <1>12 DEF ActsOutside
  <2> HIDE DEF b
  <2>. QED BY <1>6, <1>14, <2>1, <2>2, <2>3 DEF ActionReturns, Acting
<1>15. CASE MailReturns(r)
  <2>1. PICK end \in {"ok", "failed"} : End(r, [runs[r] EXCEPT !.acted = TRUE], end)
    BY <1>15 DEF MailReturns
  <2>. QED BY <1>6, <1>15, <2>1 DEF MailReturns, Acting
<1>16. CASE EventThrows(r)
  <2>1. runs[r].stage \in Acting /\ runs[r].stage # "free" /\ timeline' = timeline
    BY <1>16 DEF EventThrows, Acting
  <2>2. CASE runs' = [runs EXCEPT ![r] = Throws(runs[r])]
    BY <1>5, <2>1, <2>2
  <2>3. CASE runs' = [runs EXCEPT ![r] = Throws(Told(runs[r], "ok"))]
    <3> DEFINE told == Told(runs[r], "ok")
               new == Throws(told)
    <3>1. /\ Rested(told) /\ told.message = runs[r].message
          /\ SendCalls(told.trace) = SendCalls(runs[r].trace)
      BY <1>3, <2>1, ToldRests
    <3> HIDE DEF told
    <3>2. /\ RunFits(new) /\ new.stage # "free" /\ new.message = told.message
          /\ new.trace = told.trace /\ Owed(new) = 0
      BY <3>1, ThrowsFits DEF Rested
    <3> HIDE DEF new
    <3>3. Goes(runs[r], new)
      BY <1>1, <3>1, <3>2, KeepsGoing
    <3>. QED BY <2>1, <2>3, <3>3 DEF Moves, new, told
  <2>. QED BY <1>16, <2>2, <2>3 DEF EventThrows, Put
<1>17. CASE ShellTimesOut(r)
  <2> DEFINE new == [runs[r] EXCEPT !.stage = "terminating"]
  <2>1. runs' = [runs EXCEPT ![r] = new] /\ timeline' = timeline /\ runs[r].stage = "calling"
    BY <1>17 DEF ShellTimesOut, Put
  <2>2. /\ new \in Runs /\ new.stage = "terminating" /\ new.message = runs[r].message
        /\ new.trace = runs[r].trace /\ new.at = runs[r].at /\ new.calls = runs[r].calls
    BY <1>1 DEF Runs, Stage
  <2> HIDE DEF new
  <2>3. RunFits(new) /\ Owed(new) = 0
    BY <1>1, <1>2, <2>1, <2>2 DEF RunFits, Acting, Owed
  <2>4. Goes(runs[r], new)
    BY <1>1, <2>2, <2>3, KeepsGoing
  <2>. QED BY <2>1, <2>4 DEF Moves
<1>18. CASE AlertEnds(r)
  <2> DEFINE new == Over(runs[r], "failed")
  <2>1. runs' = [runs EXCEPT ![r] = new] /\ timeline' = timeline /\ runs[r].stage = "alerting"
    BY <1>18 DEF AlertEnds, Put
  <2>2. /\ RunFits(new) /\ new.stage = "failed" /\ new.message = runs[r].message
        /\ new.trace = runs[r].trace /\ Owed(new) = 0
    BY <1>1, <1>2, <2>1, OverFits
  <2> HIDE DEF new
  <2>3. Goes(runs[r], new)
    BY <1>1, <2>2, KeepsGoing
  <2>. QED BY <2>1, <2>3 DEF Moves
<1>19. CASE ShellCloses(r)
  <2>1. End(r, [runs[r] EXCEPT !.acted = TRUE], "ok") /\ timeline' = timeline
    BY <1>19 DEF ShellCloses
  <2>2. runs[r].stage \in Acting
    BY <1>19 DEF ShellCloses, Acting
  <2>. QED BY <1>6, <2>1, <2>2
<1>. QED BY <1>7, <1>8, <1>9, <1>10, <1>11, <1>13, <1>14, <1>15, <1>16, <1>17, <1>18, <1>19
         DEF RunStep

-----------------------------------------------------------------------------
(* The steps of the gateway. *)

LEMMA OwedType ==
  ASSUME NEW run \in Runs
  PROVE  Owed(run) \in Nat
<1>1. run.tries \in 0 .. MaxAttempts /\ MaxAttempts \in Nat
  BY RunBounds DEF Runs
<1>2. MaxAttempts - run.tries \in Nat
  BY <1>1
<1>. QED BY <1>2 DEF Owed

LEMMA SentByFinite ==
  ASSUME mails \in Seq(Mail), NEW r
  PROVE  IsFiniteSet(SentBy(r)) /\ Cardinality(SentBy(r)) \in Nat
<1>1. SentBy(r) \subseteq 1 .. Len(mails) /\ Len(mails) \in Nat
  BY DEF SentBy, Born
<1>2. IsFiniteSet(1 .. Len(mails))
  BY <1>1, FS_Interval
<1>3. IsFiniteSet(SentBy(r))
  BY <1>1, <1>2, FS_Subset
<1>. QED BY <1>3, FS_CardinalityType

\* What a run of a step may become: nothing else, one of its successors, or,
\* when it was free, the run of a mail that is on disk and was let in.
Becomes(old, new) ==
  \/ new = old
  \/ old.stage # "free" /\ Goes(old, new)
  \/ old.stage = "free" /\ \E m \in Message : new = NewRun(m) /\ (Rooted(m) /\ Held(m))'

LEMMA NewRunFits ==
  ASSUME NEW m \in Message
  PROVE  /\ RunFits(NewRun(m)) /\ NewRun(m).message = m /\ NewRun(m).stage = "queued"
         /\ NewRun(m).trace = <<>> /\ Owed(NewRun(m)) = 0
<1>1. /\ <<>> \in Seq(Chatted) /\ <<>> \in Seq(Tool) /\ <<>> \in Seq(Events)
      /\ 0 \in 0 .. MaxTurns /\ 0 \in 0 .. MaxAttempts /\ m \in 0 .. MaxMails /\ m # 0 /\ "queued" \in Stage
  BY RunBounds DEF Stage, Message
<1>2. /\ NewRun(m) \in Runs /\ NewRun(m).message = m /\ NewRun(m).stage = "queued"
      /\ NewRun(m).trace = <<>>
  BY <1>1 DEF NewRun, Idle, Runs
<1>3. Closed(NewRun(m).trace) /\ Explained(NewRun(m).trace)
  BY <1>2 DEF Closed, Explained
<1>. QED BY <1>1, <1>2, <1>3 DEF RunFits, Acting, Owed

LEMMA BecomesFits ==
  ASSUME InboundInv, NEW r \in RunId, Becomes(runs[r], runs'[r]), mails' = mails,
         files \subseteq files', attached \subseteq attached',
         Range(timeline) \subseteq Range(timeline')
  PROVE  /\ RunFits(runs[r])' /\ Recorded(r)'
         /\ \A m \in Message : runs'[r].message = m => (Rooted(m) /\ Held(m))'
         /\ runs[r].message # 0 => runs'[r].message = runs[r].message
<1> DEFINE old == runs[r]
<1>1. /\ RunFits(old) /\ Recorded(r)
      /\ \A m \in Message : old.message = m => Rooted(m) /\ Held(m)
      /\ old.trace \in Seq(Events) /\ mails \in Seq(Mail) /\ old \in Runs
  BY DEF InboundInv, Types, Runs
<1>2. SentBy(r)' = SentBy(r) /\ Cardinality(SentBy(r)) \in Nat
  BY <1>1, SentByFinite DEF SentBy, Born
<1>3. \A m : (Rooted(m) => Rooted(m)') /\ (Held(m) => Held(m)')
  BY DEF Rooted, RecursionExhausted, Held, Row
<1>4. CASE runs'[r] = runs[r]
  <2>1. /\ RunFits(runs[r])'
        /\ \A m \in Message : runs'[r].message = m => (Rooted(m) /\ Held(m))'
    BY <1>1, <1>3, <1>4
  <2>2. Recorded(r)'
    BY <1>1, <1>2, <1>4 DEF Recorded
  <2>. QED BY <1>1, <1>3, <1>4, <2>1, <2>2
<1>5. CASE runs[r].stage # "free" /\ Goes(runs[r], runs'[r])
  <2>1. /\ RunFits(runs[r])' /\ runs'[r].message = runs[r].message
        /\ \A m \in Message : runs'[r].message = m => (Rooted(m) /\ Held(m))'
    BY <1>1, <1>3, <1>5 DEF Goes
  <2>2. Recorded(r)'
    <3> DEFINE a == Cardinality(SentBy(r))
               b == Due(old.trace)
               d == Owed(old)
    <3>1. a + d <= b /\ a \in Nat /\ b \in Nat /\ d \in Nat
      BY <1>1, <1>2, DueType, OwedType DEF Recorded
    <3>2. PICK new : new = runs'[r]
      OBVIOUS
    <3> DEFINE c == Due(new.trace)
               e == Owed(new)
    <3>3. b + e <= c /\ c \in Nat /\ e \in Nat
      <4>1. Goes(old, new)
        BY <1>5, <3>2
      <4>2. new \in Runs /\ new.trace \in Seq(Events)
        BY <4>1 DEF Goes, RunFits, Runs
      <4>. QED BY <4>1, <4>2, DueType, OwedType DEF Goes
    <3>4. a + e <= c
      <4> HIDE DEF a, b, c, d, e
      <4>. QED BY <3>1, <3>3
    <3>. QED BY <1>2, <3>2, <3>4 DEF Recorded
  <2>. QED BY <2>1, <2>2
<1>6. CASE runs[r].stage = "free" /\ \E m \in Message : runs'[r] = NewRun(m) /\ (Rooted(m) /\ Held(m))'
  <2>1. PICK m \in Message : runs'[r] = NewRun(m) /\ (Rooted(m) /\ Held(m))'
    BY <1>6
  <2>2. /\ RunFits(NewRun(m)) /\ NewRun(m).message = m /\ NewRun(m).trace = <<>>
        /\ Owed(NewRun(m)) = 0
    BY NewRunFits
  <2>3. old.message = 0 /\ old.trace = <<>> /\ Owed(old) = 0
    BY <1>1, <1>6 DEF RunFits, Owed
  <2>4. Recorded(r)'
    <3>1. Cardinality(SentBy(r)) + 0 <= Due(<<>>)
      BY <1>1, <2>3 DEF Recorded
    <3>2. Cardinality(SentBy(r))' + Owed(NewRun(m)) <= Due(NewRun(m).trace)
      BY <1>2, <2>2, <3>1
    <3>. QED BY <2>1, <3>2 DEF Recorded
  <2>5. RunFits(runs[r])'
    BY <2>1, <2>2
  <2>. QED BY <2>1, <2>2, <2>3, <2>4, <2>5
<1>. QED BY <1>4, <1>5, <1>6 DEF Becomes

\* A step that makes no mail.
LEMMA NoMailKeeps ==
  ASSUME InboundInv, mails' = mails,
         files \subseteq files', attached \subseteq attached',
         files' \subseteq Born, attached' \subseteq Born,
         up' \in BOOLEAN, faults' \in 0 .. MaxFaults, transfer' \in [Message -> Transfer],
         runs' \in [RunId -> Runs], \A r \in RunId : Becomes(runs[r], runs'[r]),
         timeline' \in Seq(Rows), Range(timeline) \subseteq Range(timeline'),
         \A row \in Range(timeline') \ Range(timeline) :
            FaithfulRow(row)' /\ \A m \in Message : row.of = m => Rooted(m)',
         \A m \in Message : transfer'[m] \in {"stored", "taken"} =>
            transfer[m] \in {"stored", "taken"} \/ Stored(m)'
  PROVE  InboundInv'
<1>1. Types'
  BY DEF InboundInv, Types, Born
<1>2. \A r \in RunId : /\ RunFits(runs[r])' /\ Recorded(r)'
                       /\ \A m \in Message : runs'[r].message = m => (Rooted(m) /\ Held(m))'
                       /\ runs[r].message # 0 => runs'[r].message = runs[r].message
  BY BecomesFits
<1>3. \A m \in Message : (\E row \in Range(timeline') : row.of = m) => Rooted(m)'
  <2>1. \A m : Rooted(m) => Rooted(m)'
    BY DEF Rooted, RecursionExhausted
  <2>2. \A m \in Message : (\E row \in Range(timeline) : row.of = m) => Rooted(m)
    BY DEF InboundInv
  <2>. QED BY <2>1, <2>2
<1>4. \A m \in Born' : BudgetFits(m)'
  BY DEF InboundInv, BudgetFits, Budget, Born
<1>5. \A m \in Message : transfer'[m] \in {"stored", "taken"} => Stored(m)'
  <2> SUFFICES ASSUME NEW m \in Message, Stored(m) PROVE Stored(m)'
    BY DEF InboundInv
  <2>1. PICK r \in RunId : runs[r].message = m
    BY DEF Stored
  <2>2. m # 0
    BY DEF Message
  <2>3. runs'[r].message = m
    BY <1>2, <2>1, <2>2
  <2>4. Held(m)'
    BY <1>2, <2>3
  <2>. QED BY <2>3, <2>4 DEF Stored
<1>6. \A row \in Range(timeline') : FaithfulRow(row)'
  BY DEF InboundInv, FaithfulRow
<1>. QED BY <1>1, <1>2, <1>3, <1>4, <1>5, <1>6 DEF InboundInv, RunId, Message

LEMMA RowAdded ==
  ASSUME Types, NEW row \in Rows, timeline' = Append(timeline, row)
  PROVE  timeline' \in Seq(Rows) /\ Range(timeline') = Range(timeline) \cup {row}
<1>1. timeline \in Seq(Rows)
  BY DEF Types
<1>. QED BY <1>1, RangeOfAppend, AppendProperties

\* A step that changes only how far senders are with their mails.
LEMMA SenderKeeps ==
  ASSUME InboundInv, UNCHANGED <<harnessVars, mails>>,
         files \subseteq files', attached \subseteq attached',
         files' \subseteq Born, attached' \subseteq Born,
         up' \in BOOLEAN, faults' \in 0 .. MaxFaults, transfer' \in [Message -> Transfer],
         \A m \in Message : transfer'[m] \in {"stored", "taken"} => transfer[m] \in {"stored", "taken"}
  PROVE  InboundInv'
<1>1. runs' = runs /\ timeline' = timeline
  BY DEF harnessVars
<1>2. runs \in [RunId -> Runs] /\ timeline \in Seq(Rows)
  BY DEF InboundInv, Types
<1>3. \A r \in RunId : Becomes(runs[r], runs'[r])
  BY <1>1 DEF Becomes
<1>. QED BY <1>1, <1>2, <1>3, NoMailKeeps

LEMMA FailureType ==
  ASSUME NEW m, NEW code
  PROVE  Failure(m, code) \subseteq Transfer \ {"stored", "taken"}
  BY DEF Failure, Transfer

LEMMA RefusalKeeps ==
  ASSUME InboundInv, NEW m \in Message,
         RefuseUnknown(m) \/ Refuse(m) \/ RefuseAttachments(m) \/ AcceptThrows(m)
  PROVE  InboundInv'
<1>1. PICK t \in Transfer \ {"stored", "taken"} : transfer' = [transfer EXCEPT ![m] = t]
  <2>1. \E code \in {450, 550} : \E t \in Failure(m, code) : transfer' = [transfer EXCEPT ![m] = t]
    BY DEF RefuseUnknown, Refuse, RefuseAttachments, AcceptThrows
  <2>. QED BY <2>1, FailureType, ZenonT(30)
<1>2. UNCHANGED <<harnessVars, mails, up, faults>>
  BY DEF RefuseUnknown, Refuse, RefuseAttachments, AcceptThrows
<1>3. files \subseteq files' /\ files' \subseteq files \cup {m} /\ m \in Born
  BY DEF RefuseUnknown, Refuse, RefuseAttachments, AcceptThrows, Welcome
<1>4. attached \subseteq attached' /\ attached' \subseteq attached \cup {m}
  BY DEF RefuseUnknown, Refuse, RefuseAttachments, AcceptThrows
<1>5. Types
  BY DEF InboundInv
<1>6. /\ transfer' \in [Message -> Transfer]
      /\ \A q \in Message : transfer'[q] \in {"stored", "taken"} => transfer[q] \in {"stored", "taken"}
  BY <1>1, <1>5 DEF Types
<1>7. files' \subseteq Born /\ attached' \subseteq Born /\ up' \in BOOLEAN /\ faults' \in 0 .. MaxFaults
  BY <1>2, <1>3, <1>4, <1>5 DEF Types
<1>. QED BY <1>2, <1>3, <1>4, <1>6, <1>7, SenderKeeps

LEMMA AnswerKeeps ==
  ASSUME InboundInv, NEW m \in Message, Acknowledge(m) \/ AnswerLost(m)
  PROVE  InboundInv'
<1>1. Types
  BY DEF InboundInv
<1>2. UNCHANGED <<harnessVars, mails, files, attached, up>>
  BY DEF Acknowledge, AnswerLost
<1>3. /\ transfer' \in [Message -> Transfer]
      /\ \A q \in Message : transfer'[q] \in {"stored", "taken"} => transfer[q] \in {"stored", "taken"}
  BY <1>1 DEF Types, Transfer, Acknowledge, AnswerLost
<1>4. faults' \in 0 .. MaxFaults
  BY <1>1, GatewayBounds DEF Types, Acknowledge, AnswerLost
<1>5. files \subseteq Born /\ attached \subseteq Born /\ up' \in BOOLEAN
  BY <1>1, <1>2 DEF Types
<1>. QED BY <1>2, <1>3, <1>4, <1>5, SenderKeeps

LEMMA RestartKeeps ==
  ASSUME InboundInv, Restart
  PROVE  InboundInv'
<1>1. Types
  BY DEF InboundInv
<1>2. UNCHANGED <<harnessVars, mails, transfer, files, attached, faults>> /\ up' \in BOOLEAN
  BY DEF Restart
<1>3. /\ files \subseteq Born /\ attached \subseteq Born /\ faults \in 0 .. MaxFaults
      /\ transfer \in [Message -> Transfer]
  BY <1>1 DEF Types
<1>. QED BY <1>2, <1>3, SenderKeeps

LEMMA FreeRunFree ==
  ASSUME HasFreeRun
  PROVE  FreeRun \in RunId /\ runs[FreeRun].stage = "free"
<1> DEFINE Free == {q \in RunId : runs[q].stage = "free"}
<1>1. Free # {} /\ Free \subseteq Nat
  BY DEF HasFreeRun, RunId
<1>2. PICK q \in Free : \A k \in Free : q <= k
  BY <1>1, LeastNumber
<1>3. q \in RunId /\ runs[q].stage = "free"
  BY <1>2
<1>4. \A k \in 1 .. q - 1 : runs[k].stage # "free"
  <2> SUFFICES ASSUME NEW k \in 1 .. q - 1, runs[k].stage = "free" PROVE FALSE
    OBVIOUS
  <2>1. k \in RunId /\ k < q
    BY <1>3, RunBounds DEF RunId
  <2>. QED BY <1>2, <2>1, <1>3 DEF RunId
<1>. QED BY <1>3, <1>4 DEF FreeRun

LEMMA MailHasText ==
  ASSUME Types, NEW m \in Born
  PROVE  mails[m] \in Mail /\ mails[m].text \in BOOLEAN
<1>1. mails[m] \in Mail
  BY DEF Types, Born
<1>. QED BY <1>1 DEF Mail

LEMMA AcceptKeeps ==
  ASSUME InboundInv, NEW m \in Message, Accept(m)
  PROVE  InboundInv'
<1> DEFINE r == FreeRun
<1>1. Types /\ runs \in [RunId -> Runs]
  BY DEF InboundInv, Types
<1>2. r \in RunId /\ runs[r].stage = "free"
  BY FreeRunFree DEF Accept
<1> HIDE DEF r
<1>3. /\ m \in Born /\ ~RecursionExhausted(mails[m])
      /\ files' = files \cup {m} /\ attached' = attached \cup {m}
      /\ timeline' = Append(timeline, Row(m)) /\ runs' = [runs EXCEPT ![r] = NewRun(m)]
      /\ transfer' = [transfer EXCEPT ![m] = Handed(m)]
      /\ UNCHANGED <<mails, up, faults>>
  BY DEF Accept, PersistAndEnqueue, Welcome, Acceptable, r
<1>4. Rooted(m)'
  BY <1>3 DEF Rooted, RecursionExhausted
<1>5. NewRun(m) \in Runs /\ NewRun(m).message = m
  BY NewRunFits DEF RunFits
<1>6. Row(m) \in Rows /\ Row(m).of = m /\ FaithfulRow(Row(m))' /\ Row(m)' = Row(m)
  <2>1. mails[m].text \in BOOLEAN
    BY <1>1, <1>3, MailHasText
  <2>. QED BY <1>3, <2>1 DEF Row, Inbound, Rows, FaithfulRow
<1>7. timeline' \in Seq(Rows) /\ Range(timeline') = Range(timeline) \cup {Row(m)}
  <2> DEFINE row == Row(m)
  <2>1. row \in Rows /\ timeline' = Append(timeline, row)
    BY <1>3, <1>6
  <2> HIDE DEF row
  <2>2. timeline' \in Seq(Rows) /\ Range(timeline') = Range(timeline) \cup {row}
    BY <1>1, <2>1, RowAdded
  <2>. QED BY <2>2 DEF row
<1>8. Held(m)'
  BY <1>6, <1>7 DEF Held
<1>9. /\ runs' \in [RunId -> Runs] /\ \A q \in RunId : Becomes(runs[q], runs'[q])
      /\ Stored(m)'
  <2>1. /\ runs' \in [RunId -> Runs] /\ runs'[r].message = m
        /\ \A q \in RunId : Becomes(runs[q], runs'[q])
    BY <1>1, <1>2, <1>3, <1>4, <1>5, <1>8 DEF Becomes
  <2>. QED BY <1>2, <1>8, <2>1 DEF Stored
<1>10. /\ transfer' \in [Message -> Transfer]
       /\ \A q \in Message : q # m => transfer'[q] = transfer[q]
  <2>1. Handed(m) \in Transfer
    BY DEF Handed, Transfer
  <2>. QED BY <1>1, <1>3, <2>1 DEF Types
<1>11. /\ files' \subseteq Born /\ attached' \subseteq Born
       /\ up' \in BOOLEAN /\ faults' \in 0 .. MaxFaults
  BY <1>1, <1>3 DEF Types
<1>12. \A row \in Range(timeline') \ Range(timeline) :
          FaithfulRow(row)' /\ \A q \in Message : row.of = q => Rooted(q)'
  BY <1>4, <1>6, <1>7
<1>13. \A q \in Message : transfer'[q] \in {"stored", "taken"} =>
          transfer[q] \in {"stored", "taken"} \/ Stored(q)'
  BY <1>9, <1>10
<1>14. /\ mails' = mails /\ files \subseteq files' /\ attached \subseteq attached'
       /\ Range(timeline) \subseteq Range(timeline')
  BY <1>3, <1>7
<1>. QED BY <1>7, <1>9, <1>10, <1>11, <1>12, <1>13, <1>14, NoMailKeeps

\* Every run under way is lost.
LEMMA RunsLostBecome ==
  ASSUME InboundInv, runs' = RunsLost(runs)
  PROVE  runs' \in [RunId -> Runs] /\ \A r \in RunId : Becomes(runs[r], runs'[r])
<1>1. ASSUME NEW r \in RunId
      PROVE  runs'[r] \in Runs /\ Becomes(runs[r], runs'[r])
  <2>1. /\ runs[r] \in Runs /\ RunFits(runs[r]) /\ runs[r].trace \in Seq(Events)
        /\ runs'[r] = IF runs[r].stage \in Active THEN Over(runs[r], "lost") ELSE runs[r]
    BY DEF InboundInv, Types, Runs, RunsLost
  <2>2. CASE runs[r].stage \in Active
    <3> DEFINE new == Over(runs[r], "lost")
    <3>1. runs[r].stage # "free"
      BY <2>2 DEF Active
    <3>2. /\ RunFits(new) /\ new.stage = "lost" /\ new.message = runs[r].message
          /\ new.trace = runs[r].trace /\ Owed(new) = 0
      BY <2>1, <3>1, OverFits DEF RunFits
    <3>3. Goes(runs[r], new)
      BY <2>1, <3>2, KeepsGoing
    <3>4. runs'[r] = new
      BY <2>1, <2>2
    <3> HIDE DEF new
    <3>. QED BY <3>1, <3>2, <3>3, <3>4 DEF Becomes, RunFits
  <2>3. CASE runs[r].stage \notin Active
    BY <2>1, <2>3 DEF Becomes
  <2>. QED BY <2>2, <2>3
<1>2. runs' = [r \in RunId |-> runs'[r]]
  BY DEF RunsLost
<1>. QED BY <1>1, <1>2

LEMMA DownKeeps ==
  ASSUME InboundInv, Crash \/ (\E m \in Message : CrashInAccept(m))
                       \/ (\E r \in RunId : ShellSpawnFails(r))
  PROVE  InboundInv'
<1>1. Types /\ timeline \in Seq(Rows)
  BY DEF InboundInv, Types
<1>2. Down
  BY DEF Crash, CrashInAccept, ShellSpawnFails
<1>3. runs' = RunsLost(runs) /\ mails' = mails /\ up' \in BOOLEAN /\ faults' \in 0 .. MaxFaults
  <2>1. /\ runs' = RunsLost(runs) /\ mails' = mails /\ up' = FALSE
        /\ faults < MaxFaults /\ faults' = faults + 1
    BY <1>2 DEF Down
  <2>2. faults \in 0 .. MaxFaults /\ MaxFaults \in Nat
    BY <1>1, GatewayBounds DEF Types
  <2>3. faults + 1 \in 0 .. MaxFaults
    BY <2>1, <2>2
  <2>. QED BY <2>1, <2>3
<1>4. runs' \in [RunId -> Runs] /\ \A r \in RunId : Becomes(runs[r], runs'[r])
  BY <1>3, RunsLostBecome
<1>5. /\ Broken \in [Message -> Transfer]
      /\ \A q \in Message : Broken[q] \in {"stored", "taken"} => transfer[q] \in {"stored", "taken"}
  BY <1>1 DEF Broken, Types, Transfer
<1>6. CASE Crash \/ \E r \in RunId : ShellSpawnFails(r)
  <2>1. transfer' = Broken /\ timeline' = timeline /\ files' = files /\ attached' = attached
    BY <1>6 DEF Crash, ShellSpawnFails
  <2>2. files \subseteq Born /\ attached \subseteq Born
    BY <1>1 DEF Types
  <2>. QED BY <1>1, <1>3, <1>4, <1>5, <2>1, <2>2, NoMailKeeps
<1>7. CASE \E m \in Message : CrashInAccept(m)
  <2>1. PICK m \in Message : CrashInAccept(m)
    BY <1>7
  <2>2. /\ m \in Born /\ ~RecursionExhausted(mails[m]) /\ files' = files \cup {m}
        /\ \/ attached' = attached /\ timeline' = timeline
           \/ /\ attached' = attached \cup {m}
              /\ timeline' = timeline \/ timeline' = Append(timeline, Row(m))
    BY <2>1 DEF CrashInAccept, Welcome, Acceptable
  <2>3. files' \subseteq Born /\ attached' \subseteq Born
    BY <1>1, <2>2 DEF Types
  <2>4. /\ transfer' \in [Message -> Transfer]
        /\ \A q \in Message : transfer'[q] \in {"stored", "taken"} => transfer[q] \in {"stored", "taken"}
    <3>1. transfer' = [Broken EXCEPT ![m] = IF mails[m].route = "relay" THEN "dropped" ELSE @]
      BY <2>1 DEF CrashInAccept
    <3>2. "dropped" \in Transfer
      BY DEF Transfer
    <3>. QED BY <1>5, <3>1, <3>2
  <2>5. files \subseteq files' /\ attached \subseteq attached'
    BY <2>2
  <2>6. CASE timeline' = timeline
    BY <1>1, <1>3, <1>4, <2>3, <2>4, <2>5, <2>6, NoMailKeeps
  <2>7. CASE attached' = attached \cup {m} /\ timeline' = Append(timeline, Row(m))
    <3>5. PICK row : row = Row(m)
      OBVIOUS
    <3>1. /\ row \in Rows /\ row.of = m /\ timeline' = Append(timeline, row)
          /\ FaithfulRow(row)'
      <4>1. mails[m].text \in BOOLEAN
        BY <1>1, <2>2, MailHasText
      <4>. QED BY <1>3, <2>7, <3>5, <4>1 DEF Row, Inbound, Rows, FaithfulRow
    <3>2. timeline' \in Seq(Rows) /\ Range(timeline') = Range(timeline) \cup {row}
      BY <1>1, <3>1, RowAdded
    <3>3. Rooted(m)'
      BY <1>3, <2>2, <2>7 DEF Rooted, RecursionExhausted
    <3>4. /\ Range(timeline) \subseteq Range(timeline')
          /\ \A new \in Range(timeline') \ Range(timeline) :
               FaithfulRow(new)' /\ \A q \in Message : new.of = q => Rooted(q)'
      BY <3>1, <3>2, <3>3
    <3>. QED BY <1>3, <1>4, <2>3, <2>4, <2>5, <3>2, <3>4, NoMailKeeps
  <2>. QED BY <2>2, <2>6, <2>7
<1>. QED BY <1>6, <1>7

LEMMA HarnessKeeps ==
  ASSUME InboundInv, NEW r \in RunId, Harness(r) \/ Shell(r)
  PROVE  InboundInv'
<1>1. Types /\ timeline \in Seq(Rows) /\ runs \in [RunId -> Runs]
  BY DEF InboundInv, Types
<1>2. UNCHANGED gatewayVars /\ Moves(r)
  BY HarnessMoves DEF Harness, Shell
<1>3. PICK new : runs' = [runs EXCEPT ![r] = new] /\ Goes(runs[r], new)
  BY <1>2 DEF Moves
<1>4. new \in Runs /\ runs[r].stage # "free"
  BY <1>2, <1>3 DEF Moves, Goes, RunFits
<1>5. runs' \in [RunId -> Runs] /\ \A q \in RunId : Becomes(runs[q], runs'[q])
  BY <1>1, <1>3, <1>4 DEF Becomes
<1>6. /\ mails' = mails /\ transfer' = transfer /\ files' = files /\ attached' = attached
      /\ up' = up /\ faults' = faults
  BY <1>2 DEF gatewayVars
<1>7. /\ files \subseteq Born /\ attached \subseteq Born /\ up \in BOOLEAN
      /\ faults \in 0 .. MaxFaults /\ transfer \in [Message -> Transfer]
  BY <1>1 DEF Types
<1>8. CASE timeline' = timeline
  BY <1>1, <1>5, <1>6, <1>7, <1>8, NoMailKeeps
<1>9. CASE \E text \in BOOLEAN : timeline' = Append(timeline, Outbound(runs[r].message, text))
  <2>1. PICK text \in BOOLEAN : timeline' = Append(timeline, Outbound(runs[r].message, text))
    BY <1>9
  <2>8. PICK row : row = Outbound(runs[r].message, text)
    OBVIOUS
  <2>2. \A m \in Message : runs[r].message = m => Rooted(m)
    BY DEF InboundInv
  <2>3. runs[r].message \in Message
    <3>1. RunFits(runs[r]) /\ runs[r].message \in 0 .. MaxMails
      BY DEF InboundInv, RunFits, Runs
    <3>. QED BY <1>4, <3>1 DEF RunFits, Message
  <2>4. /\ row \in Rows /\ row.of = runs[r].message /\ timeline' = Append(timeline, row)
        /\ FaithfulRow(row)'
    BY <2>1, <2>3, <2>8 DEF Outbound, Rows, FaithfulRow
  <2>5. timeline' \in Seq(Rows) /\ Range(timeline') = Range(timeline) \cup {row}
    BY <1>1, <2>4, RowAdded
  <2>6. \A m : Rooted(m) => Rooted(m)'
    BY <1>6 DEF Rooted, RecursionExhausted
  <2>7. /\ Range(timeline) \subseteq Range(timeline')
        /\ \A q \in Range(timeline') \ Range(timeline) :
             FaithfulRow(q)' /\ \A m \in Message : q.of = m => Rooted(m)'
    BY <2>2, <2>4, <2>5, <2>6
  <2>. QED BY <1>5, <1>6, <1>7, <2>5, <2>7, NoMailKeeps
<1>. QED BY <1>2, <1>8, <1>9 DEF Moves

\* email.send: the mail of a run is its own and was put on record before, and
\* what is left of the budget is one less.
LEMMA SendMailKeeps ==
  ASSUME InboundInv, NEW r \in RunId, SendMail(r)
  PROVE  InboundInv'
<1> DEFINE run == runs[r]
           of == run.message
           sent == [run EXCEPT !.stage = "sent", !.tries = @ + 1]
           n == Len(mails)
<1>1. /\ Types /\ RunFits(run) /\ run \in Runs /\ run.stage \in {"calling", "sent"}
      /\ run.calls[run.at] = "send_email" /\ run.trace \in Seq(Events)
      /\ run.tries < MaxAttempts
  BY DEF InboundInv, Types, SendMail, Runs
<1>2. /\ of \in Message /\ Rooted(of) /\ of \in Born /\ mails[of] \in Mail
  <2>1. of \in Message
    BY <1>1 DEF RunFits, Runs, Message
  <2>2. Rooted(of)
    <3>1. \A m \in Message : (\E q \in RunId : runs[q].message = m) => Rooted(m)
      BY DEF InboundInv
    <3>. QED BY <2>1, <3>1
  <2>3. of \in Born
    BY <1>1, <2>2 DEF Types, Rooted
  <2>. QED BY <1>1, <2>1, <2>2, <2>3 DEF Types, Born
<1>3. /\ sent \in Runs /\ sent.stage = "sent" /\ sent.message = of /\ sent.trace = run.trace
      /\ sent.at = run.at /\ sent.calls = run.calls /\ sent.tries = run.tries + 1
  <2>1. run.tries \in 0 .. MaxAttempts /\ run.tries + 1 \in 0 .. MaxAttempts
    <3>1. run.tries \in 0 .. MaxAttempts
      BY <1>1 DEF Runs
    <3>2. MaxAttempts \in Nat
      BY RunBounds
    <3>. QED BY <1>1, <3>1, <3>2
  <2>. QED BY <1>1, <2>1 DEF Runs, Stage
<1>4. /\ runs' = [runs EXCEPT ![r] = sent]
      /\ UNCHANGED <<timeline, files, attached, up, faults>>
  BY DEF SendMail, Put
<1> HIDE DEF sent
<1>5. RunFits(sent) /\ Owed(sent) + 1 = Owed(run) /\ Owed(sent) \in Nat
  <2>1. RunFits(sent)
    BY <1>1, <1>3 DEF RunFits, Acting
  <2>2. run.tries \in Nat /\ MaxAttempts \in Nat
    BY <1>1, RunBounds DEF Runs
  <2>3. Owed(run) = MaxAttempts - run.tries /\ Owed(sent) = MaxAttempts - sent.tries
    BY <1>1, <1>3 DEF Owed
  <2>. QED BY <1>1, <1>3, <2>1, <2>2, <2>3
<1>6. CASE Len(mails) >= MaxMails
  <2>1. mails' = mails /\ transfer' = transfer
    BY <1>1, <1>6, RunBounds DEF SendMail, Types
  <2>2. runs' \in [RunId -> Runs]
    BY <1>1, <1>3, <1>4 DEF Types
  <2>3. /\ Types' /\ Born' = Born
        /\ \A m : (Rooted(m) => Rooted(m)') /\ (Held(m) => Held(m)')
    BY <1>1, <1>4, <2>1, <2>2 DEF Types, Born, Rooted, RecursionExhausted, Held, Row
  <2>4. ASSUME NEW q \in RunId
        PROVE  RunFits(runs[q])' /\ Recorded(q)' /\ runs'[q].message = runs[q].message
    <3>1. RunFits(runs[q]) /\ Recorded(q) /\ mails \in Seq(Mail)
      BY <1>1 DEF InboundInv, Types
    <3>2. SentBy(q)' = SentBy(q) /\ Cardinality(SentBy(q)) \in Nat
      BY <2>1, <3>1, SentByFinite DEF SentBy, Born
    <3>3. CASE q = r
      <4>1. runs'[q] = sent
        BY <1>1, <1>4, <3>3 DEF Types
      <4>2. Cardinality(SentBy(q)) + Owed(run) <= Due(run.trace) /\ Due(run.trace) \in Nat
        BY <1>1, <3>1, <3>3, DueType DEF Recorded
      <4>3. Cardinality(SentBy(q)) + Owed(sent) <= Due(sent.trace)
        BY <1>3, <1>5, <3>2, <4>2
      <4>4. Recorded(q)'
        BY <3>2, <4>1, <4>3 DEF Recorded
      <4>. QED BY <1>3, <1>5, <3>3, <4>1, <4>4
    <3>4. CASE q # r
      <4>1. runs'[q] = runs[q]
        BY <1>1, <1>4, <3>4 DEF Types
      <4>. QED BY <3>1, <3>2, <4>1 DEF Recorded
    <3>. QED BY <3>3, <3>4
  <2>5. \A m \in Message : (\E q \in RunId : runs'[q].message = m) => (Rooted(m) /\ Held(m))'
    BY <2>3, <2>4 DEF InboundInv
  <2>6. /\ \A m \in Message : (\E row \in Range(timeline') : row.of = m) => Rooted(m)'
        /\ \A row \in Range(timeline') : FaithfulRow(row)'
    BY <1>4, <2>1, <2>3 DEF InboundInv, FaithfulRow
  <2>7. \A m \in Born' : BudgetFits(m)'
    BY <2>1, <2>3 DEF InboundInv, BudgetFits, Budget
  <2>8. \A m \in Message : transfer'[m] \in {"stored", "taken"} => Stored(m)'
    <3> SUFFICES ASSUME NEW m \in Message, Stored(m) PROVE Stored(m)'
      BY <2>1 DEF InboundInv
    <3>. QED BY <2>3, <2>4 DEF Stored
  <2>. QED BY <2>3, <2>4, <2>5, <2>6, <2>7, <2>8 DEF InboundInv, RunId, Message
<1>7. CASE Len(mails) < MaxMails
  <2> DEFINE cause == mails[of]
             child == [cause EXCEPT !.header = OutboundHeader(cause), !.text = TRUE,
                                    !.hops = @ + 1, !.by = r]
  <2>1. /\ mails' = Append(mails, child)
        /\ transfer' = [transfer EXCEPT ![n + 1] = "waiting"]
    BY <1>7 DEF SendMail
  <2>2. /\ cause \in Mail /\ cause.header \in Int /\ cause.hops \in Nat
        /\ cause.header = -1 \/ cause.header > 0
    BY <1>2 DEF Mail, Rooted, RecursionExhausted
  <2>3. /\ OutboundHeader(cause) \in Int /\ OutboundHeader(cause) >= 0
        /\ cause.header = -1 => OutboundHeader(cause) = DefaultDepth
        /\ cause.header > 0 =>
             OutboundHeader(cause) = 0 \/ OutboundHeader(cause) = cause.header - 1
    BY <2>2, GatewayBounds DEF OutboundHeader, Remaining
  <2>4. /\ child \in Mail /\ child.header = OutboundHeader(cause)
        /\ child.hops = cause.hops + 1 /\ child.by = r
    <3> DEFINE header == OutboundHeader(cause)
    <3>1. r \in 0 .. MaxRuns
      BY RunBounds DEF RunId
    <3>2. header \in Int /\ cause.hops + 1 \in Nat
      BY <2>2, <2>3
    <3>3. child = [cause EXCEPT !.header = header, !.text = TRUE, !.hops = @ + 1, !.by = r]
      OBVIOUS
    <3> HIDE DEF header, child, cause
    <3>4. /\ child \in Mail /\ child.header = header /\ child.hops = cause.hops + 1
          /\ child.by = r
      BY <2>2, <3>1, <3>2, <3>3 DEF Mail
    <3>. QED BY <3>4 DEF header
  <2> HIDE DEF child
  <2>5. /\ mails \in Seq(Mail) /\ n \in Nat /\ n >= 1 /\ n < MaxMails /\ MaxMails \in Nat
        /\ Born = 1 .. n
    BY <1>1, <1>7, RunBounds DEF Types, Born
  <2>6. /\ mails' \in Seq(Mail) /\ Len(mails') = n + 1 /\ Born' = 1 .. n + 1
        /\ \A m \in Born : mails'[m] = mails[m]
        /\ mails'[n + 1] = child
    BY <2>1, <2>4, <2>5, AppendProperties DEF Born
  <2>7. transfer' \in [Message -> Transfer] /\ \A m \in Message : m # n + 1 => transfer'[m] = transfer[m]
    BY <1>1, <2>1 DEF Types, Transfer
  <2>8. transfer'[n + 1] = "waiting"
    BY <1>1, <2>1, <2>5 DEF Types, Message
  <2> HIDE DEF n
  <2>9. Types'
    <3>1. Len(mails') \in 1 .. MaxMails
      BY <2>5, <2>6
    <3>2. runs' \in [RunId -> Runs]
      BY <1>1, <1>3, <1>4 DEF Types
    <3>3. files' \subseteq Born' /\ attached' \subseteq Born'
      BY <1>1, <1>4, <2>5, <2>6 DEF Types
    <3>. QED BY <1>1, <1>4, <2>6, <2>7, <3>1, <3>2, <3>3 DEF Types
  <2>10. ASSUME NEW q \in RunId
         PROVE  RunFits(runs[q])' /\ Recorded(q)'
    <3>1. RunFits(runs[q]) /\ Recorded(q)
      BY DEF InboundInv
    <3>2. CASE q = r
      <4>1. runs'[q] = sent
        BY <1>1, <1>4, <3>2 DEF Types
      <4>2. SentBy(q)' = SentBy(q) \cup {n + 1} /\ n + 1 \notin SentBy(q)
        BY <2>4, <2>5, <2>6, <3>2 DEF SentBy
      <4>3. IsFiniteSet(SentBy(q)) /\ Cardinality(SentBy(q)) \in Nat
        BY <2>5, SentByFinite
      <4>4. Cardinality(SentBy(q) \cup {n + 1}) = Cardinality(SentBy(q)) + 1
        BY <4>2, <4>3, FS_AddElement
      <4>5. Cardinality(SentBy(q)) + Owed(run) <= Due(run.trace)
        BY <3>1, <3>2 DEF Recorded
      <4>6. Due(run.trace) \in Nat
        BY <1>1, DueType
      <4>7. Cardinality(SentBy(q) \cup {n + 1}) + Owed(sent) <= Due(sent.trace)
        BY <1>3, <1>5, <4>3, <4>4, <4>5, <4>6
      <4>8. Recorded(q)'
        BY <4>1, <4>2, <4>7 DEF Recorded
      <4>. QED BY <1>5, <4>1, <4>8
    <3>3. CASE q # r
      <4>1. runs'[q] = runs[q]
        BY <1>1, <1>4, <3>3 DEF Types
      <4>2. SentBy(q)' = SentBy(q)
        BY <2>4, <2>5, <2>6, <3>3 DEF SentBy
      <4>. QED BY <3>1, <4>1, <4>2 DEF Recorded
    <3>. QED BY <3>2, <3>3
  <2>11. \A m \in Message : Rooted(m) => Rooted(m)' /\ Row(m)' = Row(m) /\ (Held(m) => Held(m)')
    <3> SUFFICES ASSUME NEW m \in Message, Rooted(m)
                 PROVE  Rooted(m)' /\ Row(m)' = Row(m) /\ (Held(m) => Held(m)')
      OBVIOUS
    <3>1. m \in Born
      BY <1>1 DEF Rooted, Types
    <3>. QED BY <1>4, <2>6, <3>1 DEF Rooted, RecursionExhausted, Held, Row
  <2>12. ASSUME NEW q \in RunId PROVE runs'[q].message = runs[q].message
    BY <1>1, <1>3, <1>4 DEF Types
  <2>13. \A m \in Message : (\E q \in RunId : runs'[q].message = m) => (Rooted(m) /\ Held(m))'
    <3>1. \A m \in Message : (\E q \in RunId : runs[q].message = m) => Rooted(m) /\ Held(m)
      BY DEF InboundInv
    <3>. QED BY <2>11, <2>12, <3>1
  <2>14. \A m \in Message : (\E row \in Range(timeline') : row.of = m) => Rooted(m)'
    <3>1. \A m \in Message : (\E row \in Range(timeline) : row.of = m) => Rooted(m)
      BY DEF InboundInv
    <3>. QED BY <1>4, <2>11, <3>1
  <2>15. ASSUME NEW m \in 1 .. n + 1 PROVE BudgetFits(m)'
    <3>1. 1 \in Born /\ mails'[1] = mails[1] /\ Budget' = Budget
      BY <2>5, <2>6 DEF Budget
    <3>2. CASE m = n + 1
      <4>1. BudgetFits(of)
        BY <1>2 DEF InboundInv
      <4>2. Budget \in Int
        <5>1. mails[1] \in Mail
          BY <2>5 DEF n
        <5>2. mails[1].header \in Int
          BY <5>1 DEF Mail
        <5>. QED BY <5>2, GatewayBounds DEF Budget
      <4>3. CASE cause.header = -1
        <5>1. of = 1 /\ cause.hops = 0 /\ Budget = DefaultDepth
          BY <4>1, <4>3 DEF BudgetFits, Budget
        <5>2. child.header = DefaultDepth /\ child.hops = 1 /\ DefaultDepth \in Nat
          BY <2>3, <2>4, <4>3, <5>1, GatewayBounds
        <5>. QED BY <2>6, <3>1, <3>2, <5>1, <5>2 DEF BudgetFits
      <4>4. CASE cause.header > 0
        <5>1. cause.header + cause.hops <= Budget + 1
          BY <4>1, <4>4 DEF BudgetFits
        <5>2. child.header = 0 \/ child.header = cause.header - 1
          BY <2>3, <2>4, <4>4
        <5>3. /\ child.header # -1 /\ child.header >= 0
              /\ child.header > 0 => child.header + child.hops <= Budget + 1
          BY <2>2, <2>4, <4>2, <4>4, <5>1, <5>2
        <5>. QED BY <2>6, <3>1, <3>2, <5>3 DEF BudgetFits
      <4>. QED BY <2>2, <4>3, <4>4
    <3>3. CASE m # n + 1
      <4>1. m \in Born
        BY <2>5, <3>3
      <4>2. BudgetFits(m)
        BY <4>1 DEF InboundInv
      <4>. QED BY <2>6, <3>1, <4>1, <4>2 DEF BudgetFits
    <3>. QED BY <3>2, <3>3
  <2>16. \A m \in Message : transfer'[m] \in {"stored", "taken"} => Stored(m)'
    <3> SUFFICES ASSUME NEW m \in Message, transfer'[m] \in {"stored", "taken"}
                 PROVE  Stored(m)'
      OBVIOUS
    <3>1. transfer[m] \in {"stored", "taken"}
      BY <2>7, <2>8
    <3>2. Stored(m) /\ Rooted(m)
      BY <3>1 DEF InboundInv, Stored
    <3>. QED BY <2>11, <2>12, <3>2 DEF Stored
  <2>17. ASSUME NEW row \in Range(timeline') PROVE FaithfulRow(row)'
    <3>1. row \in Range(timeline) /\ row \in Rows
      BY <1>1, <1>4 DEF Types, Range
    <3>2. row.of \in Message /\ FaithfulRow(row)
      BY <3>1 DEF InboundInv, Rows
    <3>3. Rooted(row.of)
      BY <3>1, <3>2 DEF InboundInv
    <3>4. row.of \in Born
      BY <1>1, <3>3 DEF Rooted, Types
    <3>. QED BY <2>6, <3>2, <3>4 DEF FaithfulRow
  <2>. QED BY <2>6, <2>9, <2>10, <2>13, <2>14, <2>15, <2>16, <2>17 DEF InboundInv, RunId, Message
<1>. QED
  <2>1. Len(mails) \in Nat /\ MaxMails \in Nat
    BY <1>1, RunBounds DEF Types
  <2>. QED BY <1>6, <1>7, <2>1

LEMMA InitFits ==
  ASSUME Init
  PROVE  InboundInv
<1>1. /\ runs = [r \in RunId |-> Idle] /\ timeline = <<>> /\ files = {} /\ attached = {}
      /\ up = TRUE /\ faults = 0
      /\ transfer = [m \in Message |-> IF m = 1 THEN "waiting" ELSE "unborn"]
  BY DEF Init, HarnessInit
<1>2. PICK from \in Sender, known \in BOOLEAN, passes \in BOOLEAN, fits \in BOOLEAN,
           text \in BOOLEAN, route \in {"smtp", "relay"}, header \in {-1, 1} :
        mails = <<[from |-> from, known |-> known, passes |-> passes, fits |-> fits, text |-> text,
                   route |-> route, header |-> header, hops |-> 0, by |-> 0]>>
  BY DEF Init
<1> DEFINE first == [from |-> from, known |-> known, passes |-> passes, fits |-> fits, text |-> text,
                     route |-> route, header |-> header, hops |-> 0, by |-> 0]
<1>3. /\ first \in Mail /\ first.header = header /\ first.hops = 0 /\ first.by = 0
  <2>1. 0 \in 0 .. MaxRuns
    BY RunBounds
  <2>. QED BY <2>1 DEF Mail
<1> HIDE DEF first
<1>4. /\ mails \in Seq(Mail) /\ Len(mails) = 1 /\ Born = {1} /\ mails[1] = first
  <2>1. mails = <<first>>
    BY <1>2 DEF first
  <2>. QED BY <1>3, <2>1 DEF Born
<1>5. /\ Idle \in Runs /\ Idle.stage = "free" /\ Idle.message = 0 /\ Idle.trace = <<>>
  <2>1. /\ <<>> \in Seq(Chatted) /\ <<>> \in Seq(Tool) /\ <<>> \in Seq(Events)
        /\ 0 \in 0 .. MaxTurns /\ 0 \in 0 .. MaxAttempts /\ 0 \in 0 .. MaxMails /\ "free" \in Stage
    BY RunBounds DEF Stage
  <2>. QED BY <2>1 DEF Idle, Runs
<1>6. Types
  <2>1. runs \in [RunId -> Runs] /\ timeline \in Seq(Rows)
    BY <1>1, <1>5
  <2>2. transfer \in [Message -> Transfer]
    BY <1>1 DEF Transfer
  <2>3. 0 \in 0 .. MaxFaults /\ 1 \in 1 .. MaxMails
    BY GatewayBounds, RunBounds
  <2>. QED BY <1>1, <1>4, <2>1, <2>2, <2>3 DEF Types
<1>7. ASSUME NEW r \in RunId PROVE runs[r] = Idle
  BY <1>1
<1>8. RunFits(Idle) /\ Owed(Idle) = 0
  BY <1>5 DEF RunFits, Acting, Explained, Owed
<1>9. \A r \in RunId : RunFits(runs[r]) /\ Recorded(r)
  <2> TAKE r \in RunId
  <2>1. SentBy(r) = {}
    BY <1>3, <1>4, RunBounds DEF SentBy, RunId
  <2>2. SendCalls(Idle.trace) = {}
    BY <1>5 DEF SendCalls
  <2>3. Due(Idle.trace) = 0
    BY <2>2, FS_EmptySet, RunBounds DEF Due
  <2>4. Recorded(r)
    BY <1>7, <1>8, <2>1, <2>3, FS_EmptySet DEF Recorded
  <2>. QED BY <1>7, <1>8, <2>4
<1>10. \A m \in Message : (\E r \in RunId : runs[r].message = m) => Rooted(m) /\ Held(m)
  BY <1>5, <1>7 DEF Message
<1>11. Range(timeline) = {}
  BY <1>1 DEF Range
<1>12. \A m \in Born : BudgetFits(m)
  BY <1>3, <1>4 DEF BudgetFits, Budget
<1>13. \A m \in Message : transfer[m] \notin {"stored", "taken"}
  BY <1>1
<1>. QED BY <1>6, <1>9, <1>10, <1>11, <1>12, <1>13 DEF InboundInv

LEMMA NextKeeps ==
  ASSUME InboundInv, [Next]_vars
  PROVE  InboundInv'
<1>1. ASSUME NEW m \in Message, MailStep(m) \/ AnswerLost(m) \/ CrashInAccept(m)
      PROVE  InboundInv'
  BY <1>1, RefusalKeeps, AcceptKeeps, AnswerKeeps, DownKeeps DEF MailStep
<1>2. ASSUME NEW r \in RunId, Harness(r) \/ Shell(r) \/ SendMail(r) \/ ShellSpawnFails(r)
      PROVE  InboundInv'
  BY <1>2, HarnessKeeps, SendMailKeeps, DownKeeps
<1>3. CASE Crash \/ Restart
  BY <1>3, DownKeeps, RestartKeeps
<1>4. CASE UNCHANGED vars
  BY <1>4 DEF vars, harnessVars, gatewayVars, InboundInv, Types, RunFits, Recorded, SentBy,
              Born, Owed, Rooted, RecursionExhausted, BudgetFits, Budget, Stored, Held, Row,
              FaithfulRow
<1>. QED BY <1>1, <1>2, <1>3, <1>4 DEF Next

\* The inductive invariant holds of every behaviour.
THEOREM InboundHolds == Spec => []InboundInv
<1>1. Init => InboundInv
  BY InitFits
<1>2. InboundInv /\ [Next]_vars => InboundInv'
  BY NextKeeps
<1>. QED BY <1>1, <1>2, PTL DEF Spec

\* The state keeps its types: conversations, calls, tool events and rows of
\* the thread have the shapes the runtime and the database give them.
THEOREM TypeCorrect == Spec => []TypeOK
<1>1. InboundInv => TypeOK
  <2> SUFFICES ASSUME Types PROVE TypeOK
    BY DEF InboundInv
  <2>1. runs \in [RunId -> Runs] /\ timeline \in Seq(Rows)
    BY DEF Types
  <2>2. Len(mails) <= MaxMails
    BY RunBounds DEF Types
  <2>3. TypeOK <=> /\ runs \in [RunId -> Runs] /\ timeline \in Seq(Rows)
                   /\ mails \in Seq(Mail) /\ Len(mails) <= MaxMails
                   /\ transfer \in [Message -> Transfer]
                   /\ files \subseteq Born /\ attached \subseteq Born
                   /\ up \in BOOLEAN /\ faults \in 0 .. MaxFaults
    BY Zenon DEF TypeOK, Runs, Chatted, Events, Rows
  <2>. QED BY <2>1, <2>2, <2>3 DEF Types
<1>. QED BY <1>1, InboundHolds, PTL

\* A mail its sender will not repeat is in the thread, on disk and has a run,
\* and no message of the thread points to files that are not there.
THEOREM TakenIsStoredHolds == Spec => []TakenIsStored
<1>1. InboundInv => TakenIsStored
  <2> SUFFICES ASSUME InboundInv PROVE TakenIsStored
    OBVIOUS
  <2>1. \A m \in Message : transfer[m] = "taken" => Stored(m)
    BY DEF InboundInv
  <2>2. ASSUME NEW i \in DOMAIN timeline PROVE timeline[i].of \in files \cap attached
    <3>1. timeline[i] \in Range(timeline) /\ timeline[i] \in Rows
      BY DEF Range, InboundInv, Types
    <3>2. timeline[i].of \in Message
      BY <3>1 DEF Rows
    <3>3. \A m \in Message : (\E row \in Range(timeline) : row.of = m) => Rooted(m)
      BY DEF InboundInv
    <3>. QED BY <3>1, <3>2, <3>3 DEF Rooted
  <2>. QED BY <2>1, <2>2 DEF TakenIsStored, Stored, Held
<1>. QED BY <1>1, InboundHolds, PTL

\* The tool events explain what a run did: a mail has its call on record, a
\* call its result next to it unless the run stopped there.
THEOREM TraceExplainsHolds == Spec => []TraceExplains
<1>1. InboundInv => TraceExplains
  <2> SUFFICES ASSUME InboundInv, NEW r \in RunId
               PROVE  LET trace == runs[r].trace
                          calls == {i \in DOMAIN trace : trace[i].type = "call"}
                      IN  /\ Cardinality({m \in Born : mails[m].by = r})
                               <= MaxAttempts * Cardinality({i \in calls : trace[i].tool = "send_email"})
                          /\ \A i \in calls :
                               IF i < Len(trace)
                               THEN trace[i + 1].type = "result" /\ trace[i + 1].tool = trace[i].tool
                               ELSE runs[r].stage # "done" /\ runs[r].stage # "asking"
    BY DEF TraceExplains
  <2> DEFINE trace == runs[r].trace
             calls == {i \in DOMAIN trace : trace[i].type = "call"}
  <2>1. /\ mails \in Seq(Mail) /\ RunFits(runs[r]) /\ Recorded(r) /\ trace \in Seq(Events)
    BY DEF InboundInv, Types, Runs
  <2>2. Cardinality({m \in Born : mails[m].by = r})
          <= MaxAttempts * Cardinality({i \in calls : trace[i].tool = "send_email"})
    <3>1. {i \in calls : trace[i].tool = "send_email"} = SendCalls(trace)
      BY DEF SendCalls
    <3>2. Cardinality(SentBy(r)) \in Nat /\ Due(trace) \in Nat /\ Owed(runs[r]) \in Nat
      BY <2>1, SentByFinite, DueType, OwedType DEF RunFits
    <3>3. Cardinality(SentBy(r)) <= Due(trace)
      BY <2>1, <3>2 DEF Recorded
    <3>. QED BY <3>1, <3>3 DEF SentBy, Due
  <2>3. ASSUME NEW i \in calls
        PROVE  IF i < Len(trace)
               THEN trace[i + 1].type = "result" /\ trace[i + 1].tool = trace[i].tool
               ELSE runs[r].stage # "done" /\ runs[r].stage # "asking"
    <3>1. Explained(trace) /\ (runs[r].stage \in {"asking", "done"} => Closed(trace))
      BY <2>1 DEF RunFits
    <3>2. Len(trace) \in Nat /\ i \in 1 .. Len(trace) /\ trace[i].type = "call"
      BY <2>1
    <3>3. CASE i < Len(trace)
      BY <3>1, <3>2, <3>3 DEF Explained
    <3>4. CASE ~ (i < Len(trace))
      <4>1. i = Len(trace) /\ Len(trace) > 0
        BY <3>2, <3>4
      <4>2. ~ Closed(trace)
        BY <3>2, <4>1 DEF Closed
      <4>. QED BY <3>1, <3>4, <4>2
    <3>. QED BY <3>3, <3>4
  <2>. QED BY <2>2, <2>3
<1>. QED BY <1>1, InboundHolds, PTL

\* Personas that answer each other stop within the budget of the first mail.
THEOREM RecursionBoundedHolds == Spec => []RecursionBounded
<1>1. InboundInv => RecursionBounded
  <2> SUFFICES ASSUME InboundInv, NEW i \in DOMAIN timeline
               PROVE  mails[timeline[i].of].hops <= Budget
    BY DEF RecursionBounded, Budget
  <2> DEFINE m == timeline[i].of
  <2>1. timeline[i] \in Range(timeline) /\ timeline[i] \in Rows
    BY DEF Range, InboundInv, Types
  <2>2. m \in Message
    BY <2>1 DEF Rows
  <2>3. \A q \in Message : (\E row \in Range(timeline) : row.of = q) => Rooted(q)
    BY DEF InboundInv
  <2>4. Rooted(m) /\ m \in Born
    BY <2>1, <2>2, <2>3 DEF Rooted, InboundInv, Types
  <2>5. /\ mails \in Seq(Mail) /\ 1 \in 1 .. Len(mails) /\ m \in 1 .. Len(mails) /\ BudgetFits(m)
    BY <2>4 DEF InboundInv, Types, Born
  <2> HIDE DEF m
  <2>6. mails[1] \in Mail /\ mails[m] \in Mail
    BY <2>5
  <2>7. mails[m].header \in Int /\ mails[m].hops \in Nat /\ Budget \in Int
    BY <2>6, GatewayBounds DEF Mail, Budget
  <2>8. mails[m].hops <= Budget
    <3>1. CASE mails[m].header = -1
      <4>1. mails[m].hops = 0 /\ Budget = DefaultDepth
        BY <2>5, <3>1 DEF BudgetFits, Budget
      <4>. QED BY <4>1, GatewayBounds
    <3>2. CASE mails[m].header # -1
      <4>1. mails[m].header > 0
        BY <2>4, <2>7, <3>2 DEF Rooted, RecursionExhausted
      <4>2. mails[m].header + mails[m].hops <= Budget + 1
        BY <2>5, <4>1 DEF BudgetFits
      <4>. QED BY <2>7, <4>1, <4>2
    <3>. QED BY <3>1, <3>2
  <2>. QED BY <2>8 DEF m
<1>. QED BY <1>1, InboundHolds, PTL

-----------------------------------------------------------------------------
(* The conversations. *)

\* The message under way, with its text or with an empty one.
Own(text, m) == Says("user", text, m)

\* A conversation is a list of texts that ends in the message under way,
\* followed by calls, each with its results in their order behind it.  It has
\* "total" places when every call is answered; what is there of the results
\* is at its place.
Talk(text, chat, m, total) ==
  /\ \E k \in DOMAIN chat :
       /\ chat[k] = Own(text, m)
       /\ \A i \in 1 .. k - 1 : chat[i] \in Entry /\ chat[i].of # m
       /\ \A i \in k + 1 .. Len(chat) : chat[i].role \in {"calls", "tool"}
  /\ \A i \in DOMAIN chat : chat[i].role = "calls" =>
       /\ i + Len(chat[i].ids) <= total
       /\ \A j \in 1 .. Len(chat[i].ids) :
            chat[i].ids[j] = j /\ (i + j <= Len(chat) => chat[i + j] = Result(j))
  /\ \A i \in DOMAIN chat : chat[i].role = "tool" =>
       \E h \in 1 .. i - 1 : chat[h].role = "calls" /\ i <= h + Len(chat[h].ids)

\* The last n calls are under way: the results of those before "at" are there.
Pending(text, chat, m, at, n) ==
  /\ at \in 1 .. n + 1
  /\ \E i \in DOMAIN chat :
       /\ Len(chat) = i + at - 1
       /\ chat[i].role = "calls" /\ Len(chat[i].ids) = n
       /\ Talk(text, chat, m, i + n)

\* Of a run whose message has this text.
ChatFits(text, run) ==
  /\ run.stage = "asking" => Talk(text, run.chat, run.message, Len(run.chat))
  /\ run.stage \in Acting => Pending(text, run.chat, run.message, run.at, Len(run.calls))

TextOf(m) == mails[m].text

ChatsInv == InboundInv /\ \A r \in RunId : ChatFits(TextOf(runs[r].message), runs[r])

-----------------------------------------------------------------------------
(* The requests: what the adapters make of a conversation. *)

Roles == {"system", "user", "assistant", "tool"}
Turns == [who : Roles, of : 0 .. MaxMails, calls : Seq(Nat), results : Seq(Nat)]

\* Behind calls are their results, and no result is anywhere else.
Exchanged(chat) ==
  /\ \A i \in DOMAIN chat : chat[i].role = "calls" =>
       /\ i + Len(chat[i].ids) <= Len(chat)
       /\ \A j \in 1 .. Len(chat[i].ids) : chat[i + j] = Result(chat[i].ids[j])
  /\ \A i \in DOMAIN chat : chat[i].role = "tool" =>
       \E h \in 1 .. i - 1 : chat[h].role = "calls" /\ i <= h + Len(chat[h].ids)

\* The same of the turns of a request.
Answered(form) ==
  /\ \A i \in DOMAIN form : form[i].who = "assistant" =>
       /\ i + Len(form[i].calls) <= Len(form)
       /\ \A j \in 1 .. Len(form[i].calls) :
            form[i + j].who # "assistant" /\ form[i + j].results = <<form[i].calls[j]>>
  /\ \A j \in DOMAIN form : form[j].results # <<>> =>
       \E h \in 1 .. j - 1 : form[h].who = "assistant" /\ j <= h + Len(form[h].calls)

\* Which inbound message it tells.
Tale(msg) == IF msg.role \in {"calls", "tool"} THEN 0 ELSE msg.of

\* What a turn tells of a message.
Tells(msg, turn) ==
  /\ msg.role = "calls" => turn.who = "assistant" /\ turn.calls = msg.ids
  /\ msg.role # "calls" => turn.calls = <<>>
  /\ msg.role = "tool" => turn.who # "assistant" /\ turn.results = <<msg.id>>
  /\ msg.role # "tool" => turn.results = <<>>
  /\ turn.of = Tale(msg)

\* The results up to the model's next turn are those of its calls.
LEMMA AnsweredAfter ==
  ASSUME NEW form \in Seq(Turns), Answered(form), NEW i \in DOMAIN form,
         form[i].who = "assistant"
  PROVE  ResultsAfter(form, i) = form[i].calls
<1> DEFINE next == {j \in i + 1 .. Len(form) : form[j].who = "assistant"}
           last == IF next = {} THEN Len(form) ELSE CHOOSE j \in next : \A k \in next : j <= k
           c == form[i].calls
           n == Len(c)
           results(k) == form[i + k].results
           all == [k \in 1 .. last - i |-> results(k)]
<1>1. /\ Len(form) \in Nat /\ DOMAIN form = 1 .. Len(form) /\ i \in 1 .. Len(form)
      /\ \A j \in 1 .. Len(form) : form[j] \in Turns
  OBVIOUS
<1>2. /\ \A j \in 1 .. Len(form) : form[j].results \in Seq(Nat)
      /\ c \in Seq(Nat) /\ n \in Nat
  BY <1>1 DEF Turns
<1>3. /\ i + n <= Len(form)
      /\ \A j \in 1 .. n : form[i + j].who # "assistant" /\ form[i + j].results = <<c[j]>>
  BY DEF Answered
<1>4. /\ last \in i .. Len(form)
      /\ last \in next \/ next = {}
      /\ \A j \in next : last <= j
  <2>1. CASE next = {}
    BY <1>1, <2>1
  <2>2. CASE next # {}
    <3>1. next \in SUBSET Nat /\ next \subseteq i .. Len(form)
      BY <1>1
    <3> HIDE DEF next
    <3>2. \E j \in next : \A k \in next : j <= k
      BY <2>2, <3>1, LeastNumber
    <3>3. last \in next /\ \A k \in next : last <= k
      BY <2>2, <3>2
    <3> HIDE DEF last
    <3>. QED BY <3>1, <3>3
  <2>. QED BY <2>1, <2>2
<1>5. ResultsAfter(form, i) = FlattenSeq(all)
  BY DEF ResultsAfter
<1> HIDE DEF last, c
<1>6. i + n <= last
  <2>1. CASE next = {}
    BY <1>3, <2>1 DEF last
  <2>2. CASE last \in next
    <3>1. last \in i + 1 .. Len(form) /\ form[last].who = "assistant"
      BY <2>2
    <3>2. \A j \in 1 .. n : last # i + j
      BY <1>3, <3>1
    <3>3. last - i \in Nat /\ last - i >= 1 /\ last = i + (last - i)
      BY <1>1, <3>1
    <3>. QED BY <1>1, <1>2, <3>1, <3>2, <3>3
  <2>. QED BY <1>4, <2>1, <2>2
<1>7. ASSUME NEW k \in 1 .. last - i PROVE results(k) = IF k <= n THEN <<c[k]>> ELSE <<>>
  <2>1. i + k \in 1 .. Len(form) /\ i + k <= last
    BY <1>1, <1>4
  <2>2. CASE k <= n
    BY <1>2, <1>3, <2>2
  <2>3. CASE ~ (k <= n)
    <3> SUFFICES ASSUME form[i + k].results # <<>> PROVE FALSE
      BY <2>3
    <3>1. PICK h \in 1 .. (i + k) - 1 :
            form[h].who = "assistant" /\ i + k <= h + Len(form[h].calls)
      BY <1>1, <2>1 DEF Answered
    <3>2. h \in 1 .. Len(form) /\ Len(form[h].calls) \in Nat
      <4>1. h \in 1 .. Len(form)
        BY <1>1, <2>1
      <4>2. form[h].calls \in Seq(Nat)
        BY <1>1, <4>1 DEF Turns
      <4>. QED BY <4>1, <4>2
    <3>3. CASE h = i
      <4>1. i + k <= i + n
        BY <3>1, <3>3 DEF c
      <4>. QED BY <1>1, <1>2, <2>3, <4>1
    <3>4. CASE h < i
      <4>1. i - h \in 1 .. Len(form[h].calls) /\ h + (i - h) = i
        BY <1>1, <3>1, <3>2, <3>4
      <4>2. form[h + (i - h)].who # "assistant"
        BY <1>1, <3>1, <3>2, <4>1 DEF Answered
      <4>. QED BY <4>1, <4>2
    <3>5. CASE h > i
      <4>1. h \in next
        BY <1>1, <3>1, <3>2, <3>5
      <4>2. last <= h
        BY <1>4, <4>1
      <4>. QED BY <1>1, <1>4, <2>1, <3>1, <3>2, <4>2
    <3>. QED BY <1>1, <3>2, <3>3, <3>4, <3>5
  <2>. QED BY <2>2, <2>3
<1>8. /\ all \in Seq(Seq(Nat)) /\ Len(all) = last - i
      /\ \A k \in 1 .. Len(all) : all[k] = IF k <= n THEN <<c[k]>> ELSE <<>>
  <2>1. last - i \in Nat
    BY <1>1, <1>4
  <2>2. \A k \in 1 .. last - i : results(k) \in Seq(Nat)
    <3> TAKE k \in 1 .. last - i
    <3>1. i + k \in 1 .. Len(form)
      BY <1>1, <1>4
    <3>. QED BY <1>2, <3>1
  <2> HIDE DEF results
  <2>3. all \in Seq(Seq(Nat))
    BY <2>1, <2>2, IsASeq
  <2>4. Len(all) = last - i
    BY <2>1
  <2>. QED BY <1>7, <2>3, <2>4
<1> HIDE DEF all
<1>9. Len(c) <= Len(all)
  BY <1>1, <1>2, <1>4, <1>6, <1>8
<1>10. FlattenSeq(all) = c
  BY <1>2, <1>8, <1>9, FlattenSingles
<1>. QED BY <1>5, <1>10 DEF c

LEMMA AnsweredPaired ==
  ASSUME NEW form \in Seq(Turns), Answered(form)
  PROVE  Paired(form)
<1>1. ASSUME NEW i \in DOMAIN form, form[i].who = "assistant"
      PROVE  ResultsAfter(form, i) = form[i].calls
  BY <1>1, AnsweredAfter
<1>2. ASSUME NEW j \in DOMAIN form, form[j].results # <<>>
      PROVE  \E i \in 1 .. j - 1 : form[i].calls # <<>>
  <2>1. PICK h \in 1 .. j - 1 : form[h].who = "assistant" /\ j <= h + Len(form[h].calls)
    BY <1>2 DEF Answered
  <2>2. form[h].calls # <<>>
    <3>1. ~ (j <= h + 0)
      BY <2>1
    <3>. QED BY <2>1, <3>1
  <2>. QED BY <2>1, <2>2
<1>. QED BY <1>1, <1>2 DEF Paired

LEMMA ToldAnswered ==
  ASSUME NEW chat \in Seq(Chatted), Exchanged(chat),
         NEW form \in Seq(Turns), Len(form) = Len(chat),
         \A i \in 1 .. Len(chat) : Tells(chat[i], form[i])
  PROVE  Answered(form)
<1>1. /\ DOMAIN form = 1 .. Len(chat) /\ DOMAIN chat = 1 .. Len(chat) /\ Len(chat) \in Nat
      /\ \A i \in 1 .. Len(chat) : form[i].calls \in Seq(Nat)
  <2>1. /\ DOMAIN form = 1 .. Len(chat) /\ DOMAIN chat = 1 .. Len(chat) /\ Len(chat) \in Nat
        /\ \A i \in 1 .. Len(chat) : form[i] \in Turns
    OBVIOUS
  <2>. QED BY <2>1 DEF Turns
<1>2. ASSUME NEW i \in 1 .. Len(chat), form[i].who = "assistant"
      PROVE  /\ i + Len(form[i].calls) <= Len(form)
             /\ \A j \in 1 .. Len(form[i].calls) :
                  form[i + j].who # "assistant" /\ form[i + j].results = <<form[i].calls[j]>>
  <2>1. CASE chat[i].role = "calls"
    <3>1. form[i].calls = chat[i].ids
      BY <2>1 DEF Tells
    <3>2. i + Len(chat[i].ids) <= Len(chat)
      BY <1>1, <2>1 DEF Exchanged
    <3>3. ASSUME NEW j \in 1 .. Len(form[i].calls)
          PROVE  form[i + j].who # "assistant" /\ form[i + j].results = <<form[i].calls[j]>>
      <4>1. i + j \in 1 .. Len(chat)
        BY <1>1, <3>1, <3>2
      <4>2. chat[i + j] = Result(chat[i].ids[j])
        BY <1>1, <2>1, <3>1 DEF Exchanged
      <4>3. Tells(Result(chat[i].ids[j]), form[i + j])
        BY <4>1, <4>2
      <4>. QED BY <3>1, <4>3 DEF Tells, Result
    <3>. QED BY <3>1, <3>2, <3>3
  <2>2. CASE chat[i].role # "calls"
    <3>1. form[i].calls = <<>>
      BY <2>2 DEF Tells
    <3>. QED BY <1>1, <3>1
  <2>. QED BY <2>1, <2>2
<1>3. ASSUME NEW j \in 1 .. Len(chat), form[j].results # <<>>
      PROVE  \E h \in 1 .. j - 1 : form[h].who = "assistant" /\ j <= h + Len(form[h].calls)
  <2>1. chat[j].role = "tool"
    BY <1>3 DEF Tells
  <2>2. PICK h \in 1 .. j - 1 : chat[h].role = "calls" /\ j <= h + Len(chat[h].ids)
    BY <1>1, <2>1 DEF Exchanged
  <2>3. h \in 1 .. Len(chat)
    BY <1>1
  <2>4. form[h].who = "assistant" /\ form[h].calls = chat[h].ids
    BY <2>2, <2>3 DEF Tells
  <2>. QED BY <2>2, <2>4
<1>. QED BY <1>1, <1>2, <1>3 DEF Answered

LEMMA ChattedKinds ==
  ASSUME NEW msg \in Chatted
  PROVE  \/ msg \in Entry /\ msg.role \in {"system", "user", "assistant"} /\ msg.of \in 0 .. MaxMails
         \/ msg.role = "calls" /\ msg.ids \in Seq(Nat)
         \/ msg.role = "tool" /\ msg.id \in Nat
  BY DEF Chatted, Entry

\* A turn with the calls and results of its message.
LEMMA TurnTells ==
  ASSUME NEW msg \in Chatted, NEW turn,
         \/ /\ msg.role = "calls" /\ turn = Turn("assistant", 0, msg.ids, <<>>)
         \/ /\ msg.role = "tool"
            /\ turn = Turn("tool", 0, <<>>, <<msg.id>>) \/ turn = Turn("user", 0, <<>>, <<msg.id>>)
         \/ /\ msg.role \notin {"calls", "tool"}
            /\ \E who \in {"system", "user", "assistant"} : turn = Turn(who, msg.of, <<>>, <<>>)
  PROVE  turn \in Turns /\ Tells(msg, turn)
<1>1. <<>> \in Seq(Nat) /\ 0 \in 0 .. MaxMails
  BY RunBounds
<1>2. CASE msg.role = "calls"
  <2>1. msg.ids \in Seq(Nat) /\ turn = Turn("assistant", 0, msg.ids, <<>>)
    BY <1>2, ChattedKinds
  <2>. QED BY <1>1, <1>2, <2>1 DEF Turn, Turns, Roles, Tells, Tale
<1>3. CASE msg.role = "tool"
  <2> DEFINE results == <<msg.id>>
  <2>1. results \in Seq(Nat)
    BY <1>3, ChattedKinds
  <2>2. turn = Turn("tool", 0, <<>>, results) \/ turn = Turn("user", 0, <<>>, results)
    BY <1>3
  <2>3. results = <<msg.id>>
    OBVIOUS
  <2> HIDE DEF results
  <2>4. /\ turn \in Turns /\ turn.who # "assistant" /\ turn.calls = <<>> /\ turn.results = results
        /\ turn.of = 0
    <3> DEFINE none == <<>>
    <3>1. none \in Seq(Nat) /\ (turn = Turn("tool", 0, none, results) \/ turn = Turn("user", 0, none, results))
      BY <1>1, <2>2
    <3>2. none = <<>>
      OBVIOUS
    <3> HIDE DEF none
    <3>3. /\ turn \in Turns /\ turn.who # "assistant" /\ turn.calls = none /\ turn.results = results
          /\ turn.of = 0
      BY <1>1, <2>1, <3>1 DEF Turn, Turns, Roles
    <3>. QED BY <3>2, <3>3
  <2>. QED BY <1>3, <2>3, <2>4 DEF Tells, Tale
<1>4. CASE msg.role \notin {"calls", "tool"}
  <2>1. PICK who \in {"system", "user", "assistant"} : turn = Turn(who, msg.of, <<>>, <<>>)
    BY <1>4
  <2>2. msg.of \in 0 .. MaxMails
    BY <1>4, ChattedKinds
  <2>. QED BY <1>1, <1>4, <2>1, <2>2 DEF Turn, Turns, Roles, Tells, Tale
<1>. QED BY <1>2, <1>3, <1>4

LEMMA TalkExchanged ==
  ASSUME NEW text, NEW chat \in Seq(Chatted), NEW m, Talk(text, chat, m, Len(chat))
  PROVE  Exchanged(chat)
<1>1. ASSUME NEW i \in DOMAIN chat, chat[i].role = "calls"
      PROVE  /\ i + Len(chat[i].ids) <= Len(chat)
             /\ \A j \in 1 .. Len(chat[i].ids) : chat[i + j] = Result(chat[i].ids[j])
  <2>1. /\ i + Len(chat[i].ids) <= Len(chat)
        /\ \A j \in 1 .. Len(chat[i].ids) :
             chat[i].ids[j] = j /\ (i + j <= Len(chat) => chat[i + j] = Result(j))
    BY <1>1 DEF Talk
  <2>2. chat[i].ids \in Seq(Nat) /\ i \in Nat /\ Len(chat) \in Nat
    BY <1>1, ChattedKinds
  <2>3. \A j \in 1 .. Len(chat[i].ids) : i + j <= Len(chat)
    <3> DEFINE n == Len(chat[i].ids)
    <3>1. n \in Nat /\ i + n <= Len(chat)
      BY <2>1, <2>2
    <3> HIDE DEF n
    <3>2. \A j \in 1 .. n : i + j <= Len(chat)
      BY <2>2, <3>1
    <3>. QED BY <3>2 DEF n
  <2>. QED BY <2>1, <2>3
<1>2. \A i \in DOMAIN chat : chat[i].role = "tool" =>
        \E h \in 1 .. i - 1 : chat[h].role = "calls" /\ i <= h + Len(chat[h].ids)
  BY DEF Talk
<1>. QED BY <1>1, <1>2 DEF Exchanged

\* Texts may be left out: calls and results stay beside each other.
LEMMA KeptExchanged ==
  ASSUME NEW text, NEW chat \in Seq(Chatted), NEW m, Talk(text, chat, m, Len(chat)), NEW keep,
         \A i \in DOMAIN chat : chat[i].role \in {"calls", "tool"} => chat[i] \in keep
  PROVE  Those(chat, keep) \in Seq(Chatted) /\ Exchanged(Those(chat, keep))
<1> DEFINE t == Those(chat, keep)
<1>1. Len(chat) \in Nat /\ DOMAIN chat = 1 .. Len(chat) /\ t \in Seq(Chatted)
  BY ThoseProperties
<1>2. PICK k \in DOMAIN chat :
        /\ chat[k] = Own(text, m)
        /\ \A i \in 1 .. k - 1 : chat[i] \in Entry /\ chat[i].of # m
        /\ \A i \in k + 1 .. Len(chat) : chat[i].role \in {"calls", "tool"}
  BY DEF Talk
<1>3. \A i \in 1 .. k : chat[i].role \notin {"calls", "tool"}
  <2>1. Own(text, m).role \notin {"calls", "tool"}
    BY DEF Own, Says
  <2>2. \A x \in Entry : x.role \notin {"calls", "tool"}
    BY DEF Entry
  <2>3. \A i \in 1 .. k : i \in 1 .. k - 1 \/ i = k
    BY <1>1
  <2>. QED BY <1>2, <2>1, <2>2, <2>3
<1>4. k \in 0 .. Len(chat) /\ \A i \in k + 1 .. Len(chat) : chat[i] \in keep
  <2>1. \A i \in k + 1 .. Len(chat) : i \in DOMAIN chat
    BY <1>1
  <2>. QED BY <1>1, <1>2, <2>1
<1> DEFINE rest == Len(chat) - k
<1>5. PICK a \in Nat :
        /\ Len(t) = a + rest
        /\ \A i \in 1 .. a : \E j \in 1 .. k : t[i] = chat[j]
        /\ \A i \in 1 .. rest : t[a + i] = chat[k + i]
  <2>1. {chat[i] : i \in k + 1 .. Len(chat)} \subseteq keep
    BY <1>4
  <2>2. EndsAs(t, chat, k)
    BY <1>4, <2>1, ThoseTail
  <2> HIDE DEF t
  <2>. QED BY <2>2 DEF EndsAs
<1>6. rest \in Nat /\ k \in Nat /\ Len(chat) = k + rest
  BY <1>1, <1>4
<1> HIDE DEF t, rest
<1>7. DOMAIN t = 1 .. a + rest /\ \A i \in 1 .. a : t[i].role \notin {"calls", "tool"}
  BY <1>1, <1>3, <1>5
<1>8. ASSUME NEW i \in DOMAIN t, t[i].role \in {"calls", "tool"}
      PROVE  \E x \in 1 .. rest : i = a + x /\ k + x \in DOMAIN chat /\ t[i] = chat[k + x]
  <2>1. i \notin 1 .. a /\ i \in 1 .. a + rest
    BY <1>7, <1>8
  <2>2. i - a \in 1 .. rest /\ i = a + (i - a)
    BY <1>5, <1>6, <2>1
  <2>3. k + (i - a) \in DOMAIN chat
    BY <1>1, <1>6, <2>2
  <2>. QED BY <1>5, <2>2, <2>3
<1>9. Exchanged(chat)
  BY TalkExchanged
<1>10. ASSUME NEW i \in DOMAIN t, t[i].role = "calls"
       PROVE  /\ i + Len(t[i].ids) <= Len(t)
              /\ \A j \in 1 .. Len(t[i].ids) : t[i + j] = Result(t[i].ids[j])
  <2>1. PICK x \in 1 .. rest : i = a + x /\ k + x \in DOMAIN chat /\ t[i] = chat[k + x]
    BY <1>8, <1>10
  <2> DEFINE n == Len(chat[k + x].ids)
  <2>2. n \in Nat
    <3>1. chat[k + x] \in Chatted
      BY <2>1
    <3>. QED BY <1>10, <2>1, <3>1, ChattedKinds
  <2>3. (k + x) + n <= Len(chat) /\ \A j \in 1 .. n : chat[(k + x) + j] = Result(chat[k + x].ids[j])
    BY <1>9, <1>10, <2>1 DEF Exchanged
  <2>4. ASSUME NEW j \in 1 .. n PROVE t[i + j] = chat[(k + x) + j]
    <3> HIDE DEF n
    <3>1. x + j \in 1 .. rest /\ a + (x + j) = i + j /\ k + (x + j) = (k + x) + j
      BY <1>6, <2>1, <2>2, <2>3
    <3>. QED BY <1>5, <3>1
  <2>5. i + n <= Len(t)
    <3> HIDE DEF n
    <3>. QED BY <1>5, <1>6, <2>1, <2>2, <2>3
  <2>. QED BY <2>1, <2>3, <2>4, <2>5
<1>11. ASSUME NEW i \in DOMAIN t, t[i].role = "tool"
       PROVE  \E h \in 1 .. i - 1 : t[h].role = "calls" /\ i <= h + Len(t[h].ids)
  <2>1. PICK x \in 1 .. rest : i = a + x /\ k + x \in DOMAIN chat /\ t[i] = chat[k + x]
    BY <1>8, <1>11
  <2>2. PICK h \in 1 .. (k + x) - 1 : chat[h].role = "calls" /\ k + x <= h + Len(chat[h].ids)
    BY <1>9, <1>11, <2>1 DEF Exchanged
  <2>3. h \notin 1 .. k
    BY <1>3, <2>2
  <2>4. PICK y \in 1 .. x - 1 : h = k + y
    <3>1. h - k \in 1 .. x - 1 /\ h = k + (h - k)
      BY <1>6, <2>2, <2>3
    <3>. QED BY <3>1
  <2>5. y \in 1 .. rest /\ a + y \in 1 .. i - 1
    BY <1>5, <1>6, <2>1
  <2>6. t[a + y] = chat[h]
    BY <1>5, <2>4, <2>5
  <2> DEFINE n == Len(chat[h].ids)
  <2>7. n \in Nat
    <3>1. h \in DOMAIN chat
      BY <1>1, <1>6, <2>4, <2>5
    <3>2. chat[h] \in Chatted
      BY <3>1
    <3>. QED BY <2>2, <3>2, ChattedKinds
  <2>8. k + x <= h + n
    BY <2>2
  <2> HIDE DEF n
  <2>9. i <= (a + y) + n
    <3>1. a \in Nat /\ k \in Nat /\ x \in Nat /\ y \in Nat
      BY <1>6
    <3>2. x <= y + n
      BY <2>4, <2>7, <2>8, <3>1
    <3>. QED BY <2>1, <2>7, <3>1, <3>2
  <2>. QED BY <2>2, <2>5, <2>6, <2>9 DEF n
<1>. QED BY <1>1, <1>10, <1>11 DEF Exchanged, t

\* The places of a conversation, and of a form, that tell a message.
Spots(chat, m) == {i \in DOMAIN chat : Tale(chat[i]) = m}
ToldAt(form, m) == {i \in DOMAIN form : form[i].of = m}

LEMMA FormSpots ==
  ASSUME NEW chat \in Seq(Chatted), NEW form \in Seq(Turns), Len(form) = Len(chat),
         \A i \in 1 .. Len(chat) : Tells(chat[i], form[i]), NEW m
  PROVE  ToldAt(form, m) = Spots(chat, m)
<1>1. DOMAIN form = 1 .. Len(chat) /\ DOMAIN chat = 1 .. Len(chat)
  OBVIOUS
<1>2. \A i \in 1 .. Len(chat) : form[i].of = Tale(chat[i])
  BY DEF Tells
<1>. QED BY <1>1, <1>2 DEF ToldAt, Spots

\* The message under way is told in place k of the conversation, and what else
\* there is tells other messages, or none.
ToldIn(text, chat, m, k) ==
  /\ chat[k] = Own(text, m) /\ Tale(chat[k]) = m
  /\ \A i \in 1 .. k - 1 : Tale(chat[i]) # m
  /\ \A i \in k + 1 .. Len(chat) : chat[i].role \in {"calls", "tool"} /\ Tale(chat[i]) # m

LEMMA OwnPlace ==
  ASSUME NEW text, NEW chat \in Seq(Chatted), NEW m \in Message, NEW total,
         Talk(text, chat, m, total)
  PROVE  \E k \in DOMAIN chat : ToldIn(text, chat, m, k)
<1>1. PICK k \in DOMAIN chat :
        /\ chat[k] = Own(text, m)
        /\ \A i \in 1 .. k - 1 : chat[i] \in Entry /\ chat[i].of # m
        /\ \A i \in k + 1 .. Len(chat) : chat[i].role \in {"calls", "tool"}
  BY DEF Talk
<1>2. m # 0
  BY DEF Message
<1>3. Tale(Own(text, m)) = m
  BY DEF Tale, Own, Says
<1>4. \A i \in 1 .. k - 1 : Tale(chat[i]) # m
  BY <1>1, <1>2 DEF Tale
<1>5. \A i \in k + 1 .. Len(chat) : Tale(chat[i]) # m
  BY <1>1, <1>2 DEF Tale
<1>6. ToldIn(text, chat, m, k)
  BY <1>1, <1>3, <1>4, <1>5 DEF ToldIn
<1>. QED BY <1>6

LEMMA OwnThere ==
  ASSUME NEW text, NEW chat \in Seq(Chatted), NEW m, NEW total, Talk(text, chat, m, total)
  PROVE  Own(text, m) \in Range(chat)
  BY DEF Talk, Range

LEMMA ToldOnce ==
  ASSUME NEW text, NEW chat \in Seq(Chatted), NEW m \in Message, NEW total,
         Talk(text, chat, m, total)
  PROVE  Cardinality(Spots(chat, m)) = 1
<1>5. PICK k \in DOMAIN chat : ToldIn(text, chat, m, k)
  BY OwnPlace
<1>1. /\ Tale(chat[k]) = m
      /\ \A i \in 1 .. k - 1 : Tale(chat[i]) # m
      /\ \A i \in k + 1 .. Len(chat) : Tale(chat[i]) # m
  BY <1>5 DEF ToldIn
<1>2. DOMAIN chat = 1 .. Len(chat) /\ Len(chat) \in Nat
  OBVIOUS
<1>3. \A i \in DOMAIN chat : i \in 1 .. k - 1 \/ i = k \/ i \in k + 1 .. Len(chat)
  BY <1>2
<1>4. Spots(chat, m) = {k}
  BY <1>1, <1>3 DEF Spots
<1>. QED BY <1>4, FS_Singleton

\* Texts are left out: the message under way is there once or not at all.
LEMMA KeptTold ==
  ASSUME NEW text, NEW chat \in Seq(Chatted), NEW m \in Message, NEW total,
         Talk(text, chat, m, total), NEW keep,
         \A i \in DOMAIN chat : chat[i].role \in {"calls", "tool"} => chat[i] \in keep
  PROVE  Cardinality(Spots(Those(chat, keep), m)) = IF Own(text, m) \in keep THEN 1 ELSE 0
<1>6. PICK k \in DOMAIN chat : ToldIn(text, chat, m, k)
  BY OwnPlace
<1>2. /\ chat[k] = Own(text, m) /\ Tale(chat[k]) = m
      /\ \A i \in 1 .. k - 1 : Tale(chat[i]) # m
      /\ \A i \in k + 1 .. Len(chat) : chat[i].role \in {"calls", "tool"} /\ Tale(chat[i]) # m
  BY <1>6 DEF ToldIn
<1> DEFINE t == Those(chat, keep)
<1>1. /\ Len(chat) \in Nat /\ DOMAIN chat = 1 .. Len(chat) /\ t \in Seq(Chatted)
      /\ Range(t) = Range(chat) \cap keep
  BY ThoseProperties
<1>3. \A i \in k + 1 .. Len(chat) : chat[i] \in keep
  <2>1. \A i \in k + 1 .. Len(chat) : i \in DOMAIN chat
    BY <1>1
  <2>. QED BY <1>2, <2>1
<1>4. CASE Own(text, m) \in keep
  <2> DEFINE j == k - 1
             rest == Len(chat) - j
  <2>1. j \in 0 .. Len(chat) /\ {chat[i] : i \in j + 1 .. Len(chat)} \subseteq keep
    <3>1. \A i \in j + 1 .. Len(chat) : i = k \/ i \in k + 1 .. Len(chat)
      BY <1>1
    <3>2. j \in 0 .. Len(chat)
      BY <1>1
    <3>. QED BY <1>2, <1>3, <1>4, <3>1, <3>2
  <2>2. EndsAs(t, chat, j)
    BY <2>1, ThoseTail
  <2>3. PICK a \in Nat :
          /\ Len(t) = a + rest
          /\ \A i \in 1 .. a : \E h \in 1 .. j : t[i] = chat[h]
          /\ \A i \in 1 .. rest : t[a + i] = chat[j + i]
    BY <2>2 DEF EndsAs
  <2>4. rest \in Nat /\ rest >= 1 /\ j + 1 = k /\ j + rest = Len(chat)
    BY <1>1
  <2>5. DOMAIN t = 1 .. a + rest
    BY <1>1, <2>3
  <2> HIDE DEF t, rest
  <2>6. a + 1 \in DOMAIN t /\ t[a + 1] = chat[k]
    <3>1. 1 \in 1 .. rest
      BY <2>4
    <3>2. t[a + 1] = chat[j + 1]
      BY <2>3, <3>1
    <3>. QED BY <2>3, <2>4, <2>5, <3>2
  <2>7. ASSUME NEW i \in DOMAIN t, Tale(t[i]) = m PROVE i = a + 1
    <3>1. i \notin 1 .. a
      BY <1>2, <2>3, <2>7
    <3>2. PICK x \in 1 .. rest : i = a + x
      <4>1. i - a \in 1 .. rest /\ i = a + (i - a)
        BY <2>3, <2>4, <2>5, <3>1
      <4>. QED BY <4>1
    <3>3. t[i] = chat[j + x]
      BY <2>3, <3>2
    <3>4. j + x \in k + 1 .. Len(chat) \/ x = 1
      BY <1>1, <2>4, <3>2
    <3>. QED BY <1>2, <2>7, <3>2, <3>3, <3>4
  <2>8. Spots(t, m) = {a + 1}
    BY <1>2, <2>6, <2>7 DEF Spots
  <2>9. Cardinality(Spots(t, m)) = 1
    BY <2>8, FS_Singleton
  <2>. QED BY <1>4, <2>9 DEF t
<1>5. CASE Own(text, m) \notin keep
  <2> DEFINE rest == Len(chat) - k
  <2>1. k \in 0 .. Len(chat) /\ {chat[i] : i \in k + 1 .. Len(chat)} \subseteq keep
    BY <1>1, <1>3
  <2>2. EndsAs(t, chat, k)
    BY <2>1, ThoseTail
  <2>3. PICK a \in Nat :
          /\ Len(t) = a + rest
          /\ \A i \in 1 .. a : \E h \in 1 .. k : t[i] = chat[h]
          /\ \A i \in 1 .. rest : t[a + i] = chat[k + i]
    BY <2>2 DEF EndsAs
  <2>4. rest \in Nat /\ k + rest = Len(chat)
    BY <1>1
  <2>5. DOMAIN t = 1 .. a + rest /\ \A i \in DOMAIN t : t[i] \in keep
    BY <1>1, <2>3 DEF Range
  <2> HIDE DEF t, rest
  <2>6. ASSUME NEW i \in DOMAIN t PROVE Tale(t[i]) # m
    <3>1. CASE i \in 1 .. a
      <4>1. PICK h \in 1 .. k : t[i] = chat[h]
        BY <2>3, <3>1
      <4>2. h # k
        BY <1>2, <1>5, <2>5, <4>1
      <4>3. h \in 1 .. k - 1
        BY <1>1, <4>2
      <4>. QED BY <1>2, <4>1, <4>3
    <3>2. CASE i \notin 1 .. a
      <4>1. i - a \in 1 .. rest /\ i = a + (i - a) /\ k + (i - a) \in k + 1 .. Len(chat)
        BY <1>1, <2>3, <2>4, <2>5, <3>2
      <4>2. t[a + (i - a)] = chat[k + (i - a)]
        BY <2>3, <4>1
      <4>. QED BY <1>2, <4>1, <4>2
    <3>. QED BY <3>1, <3>2
  <2>7. Spots(t, m) = {}
    BY <2>6 DEF Spots
  <2>8. Cardinality(Spots(t, m)) = 0
    BY <2>7, FS_EmptySet
  <2>. QED BY <1>5, <2>8 DEF t
<1>. QED BY <1>4, <1>5

\* The form that each adapter makes of a conversation is well-formed, and tells
\* the message under way once, or not at all when it is empty and the adapter
\* drops what is empty.
LEMMA FormsPaired ==
  ASSUME NEW text, NEW chat \in Seq(Chatted), NEW m \in Message, Talk(text, chat, m, Len(chat)),
         NEW p \in Provider
  PROVE  LET form == Form(p, chat)
         IN  /\ Paired(form)
             /\ Cardinality(ToldAt(form, m)) = IF text \/ p \in KeepsEmpty THEN 1 ELSE 0
<1>1. Len(chat) \in Nat /\ DOMAIN chat = 1 .. Len(chat) /\ Exchanged(chat)
  BY TalkExchanged
<1>2. Paired(OpenAiForm(chat)) /\ Cardinality(ToldAt(OpenAiForm(chat), m)) = 1
  <2> DEFINE n == Len(chat)
             form == [i \in 1 .. n |-> ChatTurn(chat[i])]
  <2>1. \A i \in 1 .. n : ChatTurn(chat[i]) \in Turns /\ Tells(chat[i], ChatTurn(chat[i]))
    <3> TAKE i \in 1 .. n
    <3>1. chat[i] \in Chatted
      BY <1>1
    <3>2. PICK turn : turn = ChatTurn(chat[i])
      OBVIOUS
    <3>. QED BY <3>1, <3>2, ChattedKinds, TurnTells DEF ChatTurn
  <2>2. OpenAiForm(chat) = form
    BY <1>1 DEF OpenAiForm
  <2> HIDE DEF n
  <2>3. form \in Seq(Turns)
    BY <1>1, <2>1, IsASeq DEF n
  <2>4. Len(form) = n /\ \A i \in 1 .. n : Tells(chat[i], form[i])
    BY <1>1, <2>1 DEF n
  <2> HIDE DEF form
  <2>5. Paired(form)
    BY <1>1, <2>3, <2>4, ToldAnswered, AnsweredPaired DEF n
  <2>6. ToldAt(form, m) = Spots(chat, m)
    BY <1>1, <2>3, <2>4, FormSpots DEF n
  <2>. QED BY <2>2, <2>5, <2>6, ToldOnce
<1>3. /\ Paired(AnthropicForm(chat))
      /\ Cardinality(ToldAt(AnthropicForm(chat), m)) = IF text THEN 1 ELSE 0
  <2> DEFINE Kept == {msg \in Range(chat) :
                        msg.role \in {"calls", "tool"} \/ (msg.role # "system" /\ msg.text)}
             TurnOf(msg) == CASE msg.role = "calls" -> Turn("assistant", 0, msg.ids, <<>>)
                              [] msg.role = "tool"  -> Turn("user", 0, <<>>, <<msg.id>>)
                              [] OTHER              -> Turn(msg.role, msg.of, <<>>, <<>>)
             kept == Those(chat, Kept)
             n == Len(kept)
             form == [i \in 1 .. n |-> TurnOf(kept[i])]
  <2>1. AnthropicForm(chat) = [i \in DOMAIN kept |-> TurnOf(kept[i])]
    BY DEF AnthropicForm
  <2>2. \A i \in DOMAIN chat : chat[i].role \in {"calls", "tool"} => chat[i] \in Kept
    BY DEF Range
  <2>8. Own(text, m) \in Kept <=> text
    BY <1>1, OwnThere DEF Own, Says
  <2> HIDE DEF Kept
  <2>3. kept \in Seq(Chatted) /\ Exchanged(kept)
    BY <2>2, KeptExchanged
  <2>9. Cardinality(Spots(kept, m)) = IF text THEN 1 ELSE 0
    BY <2>2, <2>8, KeptTold
  <2> HIDE DEF kept
  <2>4. n \in Nat /\ DOMAIN kept = 1 .. n /\ AnthropicForm(chat) = form
    BY <2>1, <2>3
  <2>5. \A i \in 1 .. n : TurnOf(kept[i]) \in Turns /\ Tells(kept[i], TurnOf(kept[i]))
    <3> TAKE i \in 1 .. n
    <3>1. kept[i] \in Chatted
      BY <2>3
    <3>2. PICK turn : turn = TurnOf(kept[i])
      OBVIOUS
    <3>. QED BY <3>1, <3>2, ChattedKinds, TurnTells
  <2> HIDE DEF TurnOf, n
  <2>6. form \in Seq(Turns)
    BY <2>4, <2>5, IsASeq
  <2>7. Len(form) = n /\ \A i \in 1 .. n : Tells(kept[i], form[i])
    BY <2>4, <2>5
  <2> HIDE DEF form
  <2>10. Paired(form)
    BY <2>3, <2>6, <2>7, ToldAnswered, AnsweredPaired DEF n
  <2>11. ToldAt(form, m) = Spots(kept, m)
    BY <2>3, <2>6, <2>7, FormSpots DEF n
  <2>. QED BY <2>4, <2>9, <2>10, <2>11
<1>4. /\ Paired(GeminiForm(chat))
      /\ Cardinality(ToldAt(GeminiForm(chat), m)) = IF text THEN 1 ELSE 0
  <2> DEFINE Kept == {msg \in Range(chat) : msg.role \in {"calls", "tool"} \/ msg.text}
             TurnOf(msg) == CASE msg.role = "calls"     -> Turn("assistant", 0, msg.ids, <<>>)
                              [] msg.role = "tool"      -> Turn("user", 0, <<>>, <<msg.id>>)
                              [] msg.role = "assistant" -> Turn("assistant", msg.of, <<>>, <<>>)
                              [] OTHER                  -> Turn("user", msg.of, <<>>, <<>>)
             kept == Those(chat, Kept)
             n == Len(kept)
             form == [i \in 1 .. n |-> TurnOf(kept[i])]
  <2>1. GeminiForm(chat) = [i \in DOMAIN kept |-> TurnOf(kept[i])]
    BY DEF GeminiForm
  <2>2. \A i \in DOMAIN chat : chat[i].role \in {"calls", "tool"} => chat[i] \in Kept
    BY DEF Range
  <2>8. Own(text, m) \in Kept <=> text
    BY <1>1, OwnThere DEF Own, Says
  <2> HIDE DEF Kept
  <2>3. kept \in Seq(Chatted) /\ Exchanged(kept)
    BY <2>2, KeptExchanged
  <2>9. Cardinality(Spots(kept, m)) = IF text THEN 1 ELSE 0
    BY <2>2, <2>8, KeptTold
  <2> HIDE DEF kept
  <2>4. n \in Nat /\ DOMAIN kept = 1 .. n /\ GeminiForm(chat) = form
    BY <2>1, <2>3
  <2>5. \A i \in 1 .. n : TurnOf(kept[i]) \in Turns /\ Tells(kept[i], TurnOf(kept[i]))
    <3> TAKE i \in 1 .. n
    <3>1. kept[i] \in Chatted
      BY <2>3
    <3>2. PICK turn : turn = TurnOf(kept[i])
      OBVIOUS
    <3>. QED BY <3>1, <3>2, ChattedKinds, TurnTells
  <2> HIDE DEF TurnOf, n
  <2>6. form \in Seq(Turns)
    BY <2>4, <2>5, IsASeq
  <2>7. Len(form) = n /\ \A i \in 1 .. n : Tells(kept[i], form[i])
    BY <2>4, <2>5
  <2> HIDE DEF form
  <2>10. Paired(form)
    BY <2>3, <2>6, <2>7, ToldAnswered, AnsweredPaired DEF n
  <2>11. ToldAt(form, m) = Spots(kept, m)
    BY <2>3, <2>6, <2>7, FormSpots DEF n
  <2>. QED BY <2>4, <2>9, <2>10, <2>11
<1>. QED BY <1>2, <1>3, <1>4 DEF Form, Provider, KeepsEmpty, GrokForm, OpenRouterForm

-----------------------------------------------------------------------------
(* The conversation of a run. *)

\* It begins with the prompt, the history and the message, which the history
\* does not hold.
LEMMA MessagesTalk ==
  ASSUME Types, NEW m \in Message, NEW text \in BOOLEAN, HasText(m) = text
  PROVE  Talk(text, ProviderMessages(m), m, Len(ProviderMessages(m)))
<1> DEFINE keep == {entry \in Entry : entry.of # m}
           others == Those(History, keep)
           sys == Says("system", TRUE, 0)
           own == Own(text, m)
           n == Len(others)
           chat == <<sys>> \o others \o <<own>>
<1>1. others \in Seq(Entry) /\ Range(others) \subseteq keep
  BY HistoryType, ThoseProperties
<1>2. 0 \in 0 .. MaxMails /\ m \in 0 .. MaxMails
  BY RunBounds DEF Message
<1>3. /\ sys \in Entry /\ sys.role = "system" /\ sys.of # m
      /\ own \in Entry /\ own.role = "user" /\ own.of = m
  <2>1. m # 0
    BY RunBounds DEF Message
  <2>2. sys \in Entry /\ own \in Entry
    BY <1>2, EntryTypes DEF Own
  <2>3. sys.role = "system" /\ sys.of = 0 /\ own.role = "user" /\ own.of = m
    BY DEF Says, Own
  <2>. QED BY <2>1, <2>2, <2>3
<1>4. ProviderMessages(m) = chat
  BY DEF ProviderMessages, Own
<1>5. \A x \in keep : x \in Entry /\ x.of # m
  OBVIOUS
<1>6. \A x \in Entry : x.role \notin {"calls", "tool"}
  BY DEF Entry
<1> HIDE DEF keep, others, sys, own
<1>7. /\ n \in Nat /\ Len(chat) = n + 2 /\ DOMAIN chat = 1 .. n + 2
      /\ chat[1] = sys /\ chat[n + 2] = own
      /\ \A i \in 1 .. n : chat[i + 1] = others[i]
  <2>1. <<sys>> \in Seq(Entry) /\ <<own>> \in Seq(Entry) /\ n \in Nat
    BY <1>1, <1>3
  <2> DEFINE front == <<sys>> \o others
  <2>2. /\ front \in Seq(Entry) /\ Len(front) = n + 1 /\ front[1] = sys
        /\ \A i \in 1 .. n : front[i + 1] = others[i]
    BY <1>1, <2>1
  <2>3. chat = Append(front, own)
    BY <1>3, <2>2, AppendIsConcat
  <2> HIDE DEF front, chat
  <2>. QED BY <1>3, <2>1, <2>2, <2>3
<1> HIDE DEF chat
<1>8. ASSUME NEW i \in 1 .. n + 1 PROVE chat[i] \in Entry /\ chat[i].of # m
  <2>1. CASE i = 1
    BY <1>3, <1>7, <2>1
  <2>2. CASE i # 1
    <3>1. i - 1 \in 1 .. n /\ (i - 1) + 1 = i
      BY <1>7, <2>2
    <3>2. others[i - 1] \in keep
      BY <1>1, <1>7, <3>1 DEF Range
    <3>3. chat[i] \in Entry /\ chat[i].of # m
      BY <1>5, <1>7, <3>1, <3>2
    <3>. QED BY <1>3, <3>3
  <2>. QED BY <2>1, <2>2
<1>9. \A i \in 1 .. n + 2 : chat[i].role \notin {"calls", "tool"}
  <2> TAKE i \in 1 .. n + 2
  <2>1. i \in 1 .. n + 1 \/ i = n + 2
    BY <1>7
  <2>. QED BY <1>3, <1>6, <1>7, <1>8, <2>1
<1>10. /\ n + 2 \in DOMAIN chat /\ (n + 2) - 1 = n + 1
       /\ \A i \in (n + 2) + 1 .. Len(chat) : FALSE
  BY <1>7
<1>. QED BY <1>4, <1>7, <1>8, <1>9, <1>10 DEF Talk, own

\* Calls follow a conversation whose calls are all answered.
LEMMA CallsPending ==
  ASSUME NEW text, NEW chat \in Seq(Chatted), NEW m, Talk(text, chat, m, Len(chat)),
         NEW ids \in Seq(Nat), \A j \in 1 .. Len(ids) : ids[j] = j
  PROVE  Pending(text, Append(chat, Calls(ids)), m, 1, Len(ids))
<1> DEFINE msg == Calls(ids)
           t == Append(chat, msg)
           l == Len(chat)
           n == Len(ids)
<1>1. msg \in Chatted /\ msg.role = "calls" /\ msg.ids = ids /\ n \in Nat
  BY DEF Calls, Chatted
<1> HIDE DEF msg
<1>2. /\ l \in Nat /\ DOMAIN chat = 1 .. l /\ Len(t) = l + 1 /\ DOMAIN t = 1 .. l + 1
      /\ \A i \in 1 .. l : t[i] = chat[i]
      /\ t[l + 1] = msg
  BY <1>1, AppendProperties
<1> HIDE DEF t
<1>3. \E k \in DOMAIN t :
        /\ t[k] = Own(text, m)
        /\ \A i \in 1 .. k - 1 : t[i] \in Entry /\ t[i].of # m
        /\ \A i \in k + 1 .. Len(t) : t[i].role \in {"calls", "tool"}
  <2>1. PICK k \in DOMAIN chat :
          /\ chat[k] = Own(text, m)
          /\ \A i \in 1 .. k - 1 : chat[i] \in Entry /\ chat[i].of # m
          /\ \A i \in k + 1 .. Len(chat) : chat[i].role \in {"calls", "tool"}
    BY DEF Talk
  <2>2. k \in DOMAIN t /\ t[k] = Own(text, m)
    BY <1>2, <2>1
  <2>3. \A i \in 1 .. k - 1 : t[i] \in Entry /\ t[i].of # m
    <3>1. \A i \in 1 .. k - 1 : i \in 1 .. l
      BY <1>2
    <3>. QED BY <1>2, <2>1, <3>1
  <2>4. \A i \in k + 1 .. Len(t) : t[i].role \in {"calls", "tool"}
    <3> TAKE i \in k + 1 .. Len(t)
    <3>1. (i \in k + 1 .. l /\ i \in 1 .. l) \/ i = l + 1
      BY <1>2
    <3>. QED BY <1>1, <1>2, <2>1, <3>1
  <2>. QED BY <2>2, <2>3, <2>4
<1>4. ASSUME NEW i \in DOMAIN t, t[i].role = "calls"
      PROVE  /\ i + Len(t[i].ids) <= (l + 1) + n
             /\ \A j \in 1 .. Len(t[i].ids) :
                  t[i].ids[j] = j /\ (i + j <= Len(t) => t[i + j] = Result(j))
  <2>1. CASE i = l + 1
    <3>1. t[i].ids = ids
      BY <1>1, <1>2, <2>1
    <3>2. \A j \in 1 .. n : ~ (i + j <= Len(t))
      BY <1>1, <1>2, <2>1
    <3>. QED BY <1>1, <1>2, <2>1, <3>1, <3>2
  <2>2. CASE i # l + 1
    <3>1. i \in 1 .. l /\ t[i] = chat[i] /\ chat[i].role = "calls" /\ i \in DOMAIN chat
      BY <1>2, <1>4, <2>2
    <3> DEFINE c == Len(chat[i].ids)
    <3>2. c \in Nat
      <4>1. chat[i] \in Chatted
        BY <3>1
      <4>. QED BY <3>1, <4>1, ChattedKinds
    <3>3. /\ i + c <= l
          /\ \A j \in 1 .. c :
               chat[i].ids[j] = j /\ (i + j <= l => chat[i + j] = Result(j))
      BY <3>1 DEF Talk
    <3> HIDE DEF c
    <3>4. \A j \in 1 .. c : i + j \in 1 .. l
      BY <1>2, <3>1, <3>2, <3>3
    <3>5. i + c <= (l + 1) + n
      BY <1>1, <1>2, <3>1, <3>2, <3>3
    <3>. QED BY <1>2, <3>1, <3>3, <3>4, <3>5 DEF c
  <2>. QED BY <2>1, <2>2
<1>5. ASSUME NEW i \in DOMAIN t, t[i].role = "tool"
      PROVE  \E h \in 1 .. i - 1 : t[h].role = "calls" /\ i <= h + Len(t[h].ids)
  <2>1. i \in DOMAIN chat /\ t[i] = chat[i]
    BY <1>1, <1>2, <1>5
  <2>2. PICK h \in 1 .. i - 1 : chat[h].role = "calls" /\ i <= h + Len(chat[h].ids)
    BY <1>5, <2>1 DEF Talk
  <2>3. t[h] = chat[h]
    BY <1>2, <2>1
  <2>. QED BY <2>2, <2>3
<1>6. Talk(text, t, m, (l + 1) + n)
  BY <1>3, <1>4, <1>5 DEF Talk
<1>7. /\ 1 \in 1 .. n + 1 /\ l + 1 \in DOMAIN t /\ Len(t) = (l + 1) + 1 - 1
      /\ t[l + 1].role = "calls" /\ Len(t[l + 1].ids) = n
  BY <1>1, <1>2
<1>. QED BY <1>6, <1>7 DEF Pending, t, msg

\* Results follow in the order of the calls under way.
LEMMA ResultsPending ==
  ASSUME NEW text, NEW chat \in Seq(Chatted), NEW m, NEW at \in Nat, NEW n \in Nat,
         Pending(text, chat, m, at, n),
         NEW rest \in Seq(Chatted), at + Len(rest) <= n + 1,
         \A x \in 1 .. Len(rest) : rest[x] = Result((at - 1) + x)
  PROVE  Pending(text, chat \o rest, m, at + Len(rest), n)
<1> DEFINE t == chat \o rest
           l == Len(chat)
           d == Len(rest)
<1>1. /\ l \in Nat /\ d \in Nat /\ DOMAIN chat = 1 .. l
      /\ Len(t) = l + d /\ DOMAIN t = 1 .. l + d
      /\ \A i \in 1 .. l : t[i] = chat[i]
      /\ \A i \in l + 1 .. l + d : t[i] = rest[i - l]
  BY ConcatProperties
<1>2. at + d <= n + 1 /\ \A x \in 1 .. d : rest[x] = Result((at - 1) + x)
  OBVIOUS
<1> HIDE DEF t, d
<1>3. PICK o \in DOMAIN chat :
        /\ l = o + at - 1
        /\ chat[o].role = "calls" /\ Len(chat[o].ids) = n
        /\ Talk(text, chat, m, o + n)
  BY DEF Pending
<1>4. at \in 1 .. n + 1 /\ o \in Nat /\ o <= l /\ o >= 1
  BY <1>1 DEF Pending
<1> HIDE DEF l
<1>5. \A i : Result(i).role = "tool"
  BY DEF Result
<1>6. ASSUME NEW x \in 1 .. d PROVE t[l + x] = Result((at - 1) + x)
  <2>1. l + x \in l + 1 .. l + d /\ (l + x) - l = x
    BY <1>1
  <2>. QED BY <1>1, <1>2, <2>1
<1>7. ASSUME NEW i \in DOMAIN t
      PROVE  \/ i \in DOMAIN chat /\ i \in 1 .. l /\ t[i] = chat[i]
             \/ \E x \in 1 .. d : i = l + x
  <2>1. i \in 1 .. l + d /\ l \in Nat /\ d \in Nat
    BY <1>1
  <2>2. i \in 1 .. l \/ (i - l \in 1 .. d /\ i = l + (i - l))
    BY <2>1
  <2>. QED BY <1>1, <2>2
<1>8. \A i \in DOMAIN t : i \in 1 .. l \/ t[i].role = "tool"
  BY <1>5, <1>6, <1>7
<1>9. \E k \in DOMAIN t :
        /\ t[k] = Own(text, m)
        /\ \A i \in 1 .. k - 1 : t[i] \in Entry /\ t[i].of # m
        /\ \A i \in k + 1 .. Len(t) : t[i].role \in {"calls", "tool"}
  <2>1. PICK k \in DOMAIN chat :
          /\ chat[k] = Own(text, m)
          /\ \A i \in 1 .. k - 1 : chat[i] \in Entry /\ chat[i].of # m
          /\ \A i \in k + 1 .. Len(chat) : chat[i].role \in {"calls", "tool"}
    BY <1>3 DEF Talk
  <2>2. k \in DOMAIN t /\ t[k] = Own(text, m)
    BY <1>1, <2>1
  <2>3. \A i \in 1 .. k - 1 : t[i] \in Entry /\ t[i].of # m
    <3>1. \A i \in 1 .. k - 1 : i \in 1 .. l
      BY <1>1
    <3>. QED BY <1>1, <2>1, <3>1
  <2>4. \A i \in k + 1 .. Len(t) : t[i].role \in {"calls", "tool"}
    <3> TAKE i \in k + 1 .. Len(t)
    <3>1. i \in DOMAIN t /\ (i \in 1 .. l => i \in k + 1 .. l)
      BY <1>1
    <3>. QED BY <1>1, <1>8, <2>1, <3>1 DEF l
  <2>. QED BY <2>2, <2>3, <2>4
<1>10. ASSUME NEW i \in DOMAIN t, t[i].role = "calls"
       PROVE  /\ i + Len(t[i].ids) <= o + n
              /\ \A j \in 1 .. Len(t[i].ids) :
                   t[i].ids[j] = j /\ (i + j <= Len(t) => t[i + j] = Result(j))
  <2>1. i \in DOMAIN chat /\ i \in 1 .. l /\ t[i] = chat[i]
    BY <1>1, <1>8, <1>10
  <2> DEFINE c == Len(chat[i].ids)
  <2>2. c \in Nat
    <3>1. chat[i] \in Chatted
      BY <2>1
    <3>. QED BY <1>10, <2>1, <3>1, ChattedKinds
  <2>3. /\ i + c <= o + n
        /\ \A j \in 1 .. c :
             chat[i].ids[j] = j /\ (i + j <= Len(chat) => chat[i + j] = Result(j))
    BY <1>3, <1>10, <2>1 DEF Talk
  <2>4. i = o => c = n
    BY <1>3
  <2> HIDE DEF c
  <2>5. ASSUME NEW j \in 1 .. c, i + j <= Len(t) PROVE t[i + j] = Result(j)
    <3>1. CASE i + j <= l
      <4>1. i + j \in 1 .. l
        BY <2>1, <2>2, <3>1
      <4>. QED BY <1>1, <2>3, <3>1, <4>1 DEF l
    <3>2. CASE ~ (i + j <= l)
      <4>1. (i + j) - l \in 1 .. d /\ l + ((i + j) - l) = i + j
        BY <1>1, <2>1, <2>2, <2>5, <3>2
      <4>2. t[i + j] = Result((at - 1) + ((i + j) - l))
        BY <1>6, <4>1
      <4>3. CASE i = o
        <5>1. (at - 1) + ((i + j) - l) = j
          BY <1>1, <1>3, <1>4, <2>2, <4>3, SMTT(30)
        <5>. QED BY <4>2, <5>1
      <4>4. CASE i < o
        <5>1. o - i \in 1 .. c /\ i + (o - i) = o /\ o <= l
          BY <1>1, <1>4, <2>1, <2>2, <3>2, <4>4
        <5>2. chat[o] = Result(o - i)
          BY <2>3, <5>1 DEF l
        <5>. QED BY <1>3, <1>5, <5>2
      <4>5. CASE i > o
        <5>1. i - o \in 1 .. n /\ o + (i - o) = i /\ i <= l
          BY <1>1, <1>3, <1>4, <2>1, <4>5, SMTT(30)
        <5>2. \A j2 \in 1 .. n : o + j2 <= Len(chat) => chat[o + j2] = Result(j2)
          BY <1>3 DEF Talk
        <5>3. chat[i] = Result(i - o)
          BY <5>1, <5>2 DEF l
        <5>. QED BY <1>5, <1>10, <2>1, <5>3
      <4>. QED BY <1>4, <2>1, <4>3, <4>4, <4>5
    <3>. QED BY <3>1, <3>2
  <2>6. i + Len(t[i].ids) <= o + n
    BY <2>1, <2>3 DEF c
  <2>. QED BY <2>1, <2>3, <2>5, <2>6 DEF c
<1>11. ASSUME NEW i \in DOMAIN t, t[i].role = "tool"
       PROVE  \E h \in 1 .. i - 1 : t[h].role = "calls" /\ i <= h + Len(t[h].ids)
  <2>1. CASE i \in 1 .. l
    <3>1. i \in DOMAIN chat /\ t[i] = chat[i]
      BY <1>1, <2>1
    <3>2. PICK h \in 1 .. i - 1 : chat[h].role = "calls" /\ i <= h + Len(chat[h].ids)
      BY <1>3, <1>11, <3>1 DEF Talk
    <3>3. t[h] = chat[h]
      BY <1>1, <2>1
    <3>. QED BY <3>2, <3>3
  <2>2. CASE i \notin 1 .. l
    <3>1. o \in 1 .. i - 1 /\ i <= o + n
      BY <1>1, <1>2, <1>3, <1>4, <2>2, SMTT(30)
    <3>2. t[o] = chat[o]
      BY <1>1, <1>4
    <3>. QED BY <1>3, <3>1, <3>2
  <2>. QED BY <2>1, <2>2
<1>12. Talk(text, t, m, o + n)
  BY <1>9, <1>10, <1>11 DEF Talk
<1>13. /\ at + d \in 1 .. n + 1 /\ o \in DOMAIN t /\ Len(t) = o + (at + d) - 1
       /\ t[o].role = "calls" /\ Len(t[o].ids) = n
  <2>1. at + d \in 1 .. n + 1 /\ o \in 1 .. l + d /\ Len(t) = o + (at + d) - 1
    <3>1. at + d \in 1 .. n + 1
      BY <1>1, <1>2, <1>3
    <3>2. o \in 1 .. l + d
      BY <1>1, <1>4
    <3>3. Len(t) = o + (at + d) - 1
      BY <1>1, <1>3, <1>4
    <3>. QED BY <3>1, <3>2, <3>3
  <2>2. t[o] = chat[o]
    BY <1>1, <1>4
  <2>. QED BY <1>1, <1>3, <2>1, <2>2
<1>. QED BY <1>12, <1>13 DEF Pending, t, d

\* The last result ends what is under way.
LEMMA PendingDone ==
  ASSUME NEW text, NEW chat \in Seq(Chatted), NEW m, NEW n \in Nat, Pending(text, chat, m, n + 1, n)
  PROVE  Talk(text, chat, m, Len(chat))
<1>1. PICK o \in DOMAIN chat : Len(chat) = o + (n + 1) - 1 /\ Talk(text, chat, m, o + n)
  BY DEF Pending
<1>2. Len(chat) = o + n
  BY <1>1
<1>. QED BY <1>1, <1>2

-----------------------------------------------------------------------------
(* The conversations under the steps of a run. *)

\* A run that is over has no conversation.
LEMMA OverChats ==
  ASSUME NEW text, NEW run, NEW stage \in {"alerting", "done", "failed", "lost"}
  PROVE  ChatFits(text, Over(run, stage)) /\ ChatFits(text, Throws(run))
<1>1. Over(run, stage).stage = stage /\ Over(run, "alerting").stage = "alerting"
  BY DEF Over, Idle
<1>. QED BY <1>1 DEF ChatFits, Acting, Throws

LEMMA NextTurnChats ==
  ASSUME NEW text, NEW run \in Runs, Talk(text, run.chat, run.message, Len(run.chat))
  PROVE  ChatFits(text, NextTurn(run))
<1>1. CASE run.turn >= MaxTurns
  BY <1>1, OverChats DEF NextTurn
<1>2. CASE ~ (run.turn >= MaxTurns)
  <2> DEFINE new == NextTurn(run)
  <2>1. new = [run EXCEPT !.stage = "asking", !.turn = @ + 1, !.calls = <<>>, !.at = 0,
                         !.tries = 0]
    BY <1>2 DEF NextTurn
  <2>2. new.stage = "asking" /\ new.chat = run.chat /\ new.message = run.message
    BY <2>1 DEF Runs
  <2> HIDE DEF new
  <2>3. ChatFits(text, new)
    BY <2>2 DEF ChatFits, Acting
  <2>. QED BY <2>3 DEF new
<1>. QED BY <1>1, <1>2

LEMMA StartCallChats ==
  ASSUME NEW text, NEW run \in Runs, Pending(text, run.chat, run.message, run.at, Len(run.calls))
  PROVE  ChatFits(text, StartCall(run))
<1> DEFINE new == StartCall(run)
<1>1. /\ new.stage = "calling" /\ new.chat = run.chat /\ new.message = run.message
      /\ new.at = run.at /\ new.calls = run.calls
  BY DEF StartCall, Runs
<1> HIDE DEF new
<1>2. ChatFits(text, new)
  BY <1>1 DEF ChatFits
<1>. QED BY <1>2 DEF new

\* The result of the call under way.
LEMMA ToldPending ==
  ASSUME NEW text, NEW run, InCall(run), NEW end \in {"ok", "failed"},
         Pending(text, run.chat, run.message, run.at, Len(run.calls))
  PROVE  LET told == Told(run, end)
         IN  Pending(text, told.chat, told.message, told.at + 1, Len(told.calls))
<1> DEFINE told == Told(run, end)
           chat == run.chat
           m == run.message
           at == run.at
           n == Len(run.calls)
           rest == <<Result(at)>>
<1>1. /\ run \in Runs /\ chat \in Seq(Chatted) /\ at \in Nat /\ n \in Nat
      /\ at \in 1 .. n
  BY DEF InCall, Runs
<1>2. told.chat = Append(chat, Result(at)) /\ told.message = m /\ told.at = at /\ Len(told.calls) = n
  BY <1>1 DEF Told, Runs
<1>3. Pending(text, chat, m, at, n)
  OBVIOUS
<1>4. Result(at) \in Chatted
  BY <1>1, ResultType
<1>5. rest \in Seq(Chatted) /\ Len(rest) = 1 /\ rest[1] = Result(at)
  BY <1>4
<1>6. Append(chat, Result(at)) = chat \o rest
  BY <1>1, <1>4, AppendIsConcat
<1> HIDE DEF told, chat, m, at, n, rest
<1>7. at + Len(rest) <= n + 1
  BY <1>1, <1>5
<1>8. \A x \in 1 .. Len(rest) : rest[x] = Result((at - 1) + x)
  <2>1. \A x \in 1 .. 1 : x = 1 /\ (at - 1) + x = at
    BY <1>1
  <2>. QED BY <1>5, <2>1
<1>9. Pending(text, chat \o rest, m, at + Len(rest), n)
  BY <1>1, <1>3, <1>5, <1>7, <1>8, ResultsPending
<1>. QED BY <1>2, <1>5, <1>6, <1>9 DEF told

\* The results of the calls that are skipped.
LEMMA SkippedTalk ==
  ASSUME NEW text, NEW run \in Runs, run.at \in 1 .. Len(run.calls),
         Pending(text, run.chat, run.message, run.at + 1, Len(run.calls))
  PROVE  LET next == SkipRest(run)
         IN  Talk(text, next.chat, next.message, Len(next.chat))
<1> DEFINE next == SkipRest(run)
           chat == run.chat
           m == run.message
           at == run.at
           n == Len(run.calls)
           d == Cardinality(at + 1 .. n)
           rest == [i \in 1 .. d |-> Result(at + i)]
<1>1. chat \in Seq(Chatted) /\ at \in Nat /\ n \in Nat /\ at \in 1 .. n
  BY DEF Runs
<1>2. next.chat = chat \o rest /\ next.message = m
  BY DEF SkipRest, Runs
<1>3. Pending(text, chat, m, at + 1, n)
  OBVIOUS
<1> HIDE DEF next, chat, m, at, n
<1>4. d = n - at /\ d \in Nat
  <2>1. at + 1 \in Int /\ n \in Int
    BY <1>1
  <2>2. d = IF at + 1 > n THEN 0 ELSE n - (at + 1) + 1
    BY <2>1, FS_Interval
  <2> HIDE DEF d
  <2>. QED BY <1>1, <2>2
<1> HIDE DEF d
<1>5. rest \in Seq(Chatted) /\ Len(rest) = d
  <2>1. \A i \in 1 .. d : Result(at + i) \in Chatted
    BY <1>1, <1>4, ResultType
  <2>. QED BY <1>4, <2>1, IsASeq
<1>6. \A x \in 1 .. Len(rest) : rest[x] = Result(((at + 1) - 1) + x)
  <2>1. (at + 1) - 1 = at
    BY <1>1
  <2>. QED BY <1>5, <2>1
<1> HIDE DEF rest
<1>7. at + 1 \in Nat /\ (at + 1) + Len(rest) <= n + 1 /\ (at + 1) + Len(rest) = n + 1
  BY <1>1, <1>4, <1>5
<1>8. Pending(text, chat \o rest, m, (at + 1) + Len(rest), n)
  BY <1>1, <1>3, <1>5, <1>6, <1>7, ResultsPending
<1>9. chat \o rest \in Seq(Chatted)
  BY <1>1, <1>5, ConcatProperties
<1>10. Talk(text, chat \o rest, m, Len(chat \o rest))
  BY <1>1, <1>7, <1>8, <1>9, PendingDone
<1>. QED BY <1>2, <1>10 DEF next

LEMMA ResumeChats ==
  ASSUME NEW text, NEW run, InCall(run), NEW end \in {"ok", "failed"},
         Pending(text, run.chat, run.message, run.at, Len(run.calls))
  PROVE  ChatFits(text, Resume(run, end))
<1> DEFINE told == Told(run, end)
<1>1. run.at \in 1 .. Len(run.calls) /\ Len(run.calls) \in Nat /\ run.at \in Nat
  BY DEF InCall, Runs
<1>2. /\ Rested(told) /\ told.message = run.message /\ told.calls = run.calls
      /\ told.at = run.at
  BY ToldRests
<1>3. Pending(text, told.chat, told.message, told.at + 1, Len(told.calls))
  BY ToldPending
<1>4. Resume(run, end) =
        IF end = "failed" THEN NextTurn(SkipRest(told))
        ELSE IF run.at < Len(run.calls) THEN StartCall([told EXCEPT !.at = @ + 1])
        ELSE NextTurn(told)
  BY DEF Resume
<1>5. told \in Runs /\ told.at \in 1 .. Len(told.calls)
  BY <1>1, <1>2 DEF Rested
<1> HIDE DEF told
<1>6. CASE end = "failed"
  <2>1. Rested(SkipRest(told))
    BY <1>2, <1>5, SkippedRests
  <2>2. Talk(text, SkipRest(told).chat, SkipRest(told).message, Len(SkipRest(told).chat))
    BY <1>3, <1>5, SkippedTalk
  <2>3. ChatFits(text, NextTurn(SkipRest(told)))
    BY <2>1, <2>2, NextTurnChats DEF Rested
  <2>. QED BY <1>4, <1>6, <2>3
<1>7. CASE end # "failed" /\ run.at < Len(run.calls)
  <2> DEFINE on == [told EXCEPT !.at = @ + 1]
  <2>1. /\ on \in Runs /\ on.message = told.message /\ on.chat = told.chat
        /\ on.calls = told.calls /\ on.at = told.at + 1
    <3>1. told.at + 1 \in Nat
      BY <1>1, <1>2
    <3>. QED BY <1>5, <3>1 DEF Runs
  <2> HIDE DEF on
  <2>2. ChatFits(text, StartCall(on))
    BY <1>3, <2>1, StartCallChats
  <2>. QED BY <1>4, <1>7, <2>2 DEF on
<1>8. CASE end # "failed" /\ ~ (run.at < Len(run.calls))
  <2> DEFINE n == Len(told.calls)
  <2>1. n \in Nat /\ told.at + 1 = n + 1
    BY <1>1, <1>2, <1>8
  <2>2. told.chat \in Seq(Chatted)
    BY <1>5 DEF Runs
  <2>3. Pending(text, told.chat, told.message, n + 1, n)
    BY <1>3, <2>1
  <2> HIDE DEF n
  <2>4. Talk(text, told.chat, told.message, Len(told.chat))
    BY <2>1, <2>2, <2>3, PendingDone
  <2>5. ChatFits(text, NextTurn(told))
    BY <1>5, <2>4, NextTurnChats
  <2>. QED BY <1>4, <1>8, <2>5
<1>. QED BY <1>6, <1>7, <1>8

\* A call ends, in any way.
LEMMA EndChats ==
  ASSUME NEW text, NEW r, NEW run, InCall(run), NEW end \in {"ok", "failed", "fatal"}, End(r, run, end),
         Pending(text, run.chat, run.message, run.at, Len(run.calls))
  PROVE  \E new : runs' = [runs EXCEPT ![r] = new] /\ ChatFits(text, new)
<1> DEFINE new == IF end = "fatal" THEN Throws(run) ELSE Resume(run, end)
<1>1. runs' = [runs EXCEPT ![r] = new]
  BY DEF End, Put
<1>2. ChatFits(text, new)
  <2>1. CASE end = "fatal"
    BY <2>1, OverChats
  <2>2. CASE end # "fatal"
    <3>1. end \in {"ok", "failed"}
      BY <2>2
    <3>. QED BY <2>2, <3>1, ResumeChats
  <2>. QED BY <2>1, <2>2
<1> HIDE DEF new
<1>. QED BY <1>1, <1>2

\* The text that a run is given is the one of its mail.
LEMMA TextTold ==
  ASSUME InboundInv, NEW r \in RunId, runs[r].message \in Message
  PROVE  TextOf(runs[r].message) \in BOOLEAN /\ HasText(runs[r].message) = TextOf(runs[r].message)
<1> DEFINE m == runs[r].message
<1>1. Rooted(m) /\ Held(m)
  BY DEF InboundInv
<1>2. m \in Born /\ mails[m] \in Mail
  BY <1>1 DEF InboundInv, Types, Rooted, Born
<1>3. TextOf(m) \in BOOLEAN
  BY <1>2 DEF TextOf, Mail
<1>4. CASE TextOf(m) = TRUE
  BY <1>1, <1>3, <1>4 DEF Held, Row, HasText, TextOf
<1>5. CASE TextOf(m) = FALSE
  <2>1. ASSUME Inbound(m, TRUE) \in Range(timeline) PROVE FALSE
    <3>1. FaithfulRow(Inbound(m, TRUE))
      BY <2>1 DEF InboundInv
    <3>. QED BY <1>5, <3>1 DEF FaithfulRow, Inbound, TextOf
  <2>2. ~HasText(m)
    BY <2>1 DEF HasText
  <2>3. HasText(m) \in BOOLEAN
    BY DEF HasText
  <2>. QED BY <1>3, <1>5, <2>2, <2>3
<1>. QED BY <1>3, <1>4, <1>5

LEMMA HarnessChats ==
  ASSUME ChatsInv, NEW r \in RunId, RunStep(r) \/ ShellCloses(r)
  PROVE  \E new : runs' = [runs EXCEPT ![r] = new] /\ ChatFits(TextOf(runs[r].message), new)
<1> DEFINE run == runs[r]
           text == TextOf(run.message)
<1>1. run \in Runs /\ RunFits(run) /\ ChatFits(text, run) /\ Types /\ run.chat \in Seq(Chatted)
  BY DEF ChatsInv, InboundInv, Types, RunFits, Runs
<1>2. run.stage # "free" => run.message # 0
  BY <1>1 DEF RunFits
<1>3. run.stage \in Acting =>
        InCall(run) /\ Pending(text, run.chat, run.message, run.at, Len(run.calls))
  BY <1>1, <1>2 DEF RunFits, InCall, Acting, ChatFits
<1>4. run.stage = "asking" => Talk(text, run.chat, run.message, Len(run.chat))
  BY <1>1 DEF ChatFits
<1>5. ASSUME NEW end \in {"ok", "failed", "fatal"}, NEW b \in BOOLEAN,
             run.stage \in Acting, End(r, [run EXCEPT !.acted = b], end)
      PROVE  \E new : runs' = [runs EXCEPT ![r] = new] /\ ChatFits(text, new)
  <2> DEFINE acted == [run EXCEPT !.acted = b]
  <2>1. InCall(acted)
    BY <1>3, <1>5, InCallActed
  <2>2. Pending(text, acted.chat, acted.message, acted.at, Len(acted.calls))
    <3>1. /\ acted.chat = run.chat /\ acted.message = run.message /\ acted.at = run.at
          /\ acted.calls = run.calls
      BY <1>1 DEF Runs
    <3>. QED BY <1>3, <1>5, <3>1
  <2>3. End(r, acted, end)
    BY <1>5
  <2> HIDE DEF acted
  <2>. QED BY <2>1, <2>2, <2>3, EndChats
<1>6. \A old, stage : stage \in {"alerting", "done", "failed", "lost"} =>
        ChatFits(text, Over(old, stage)) /\ ChatFits(text, Throws(old))
  BY OverChats
<1>7. CASE Begin(r)
  <2> DEFINE chat == ProviderMessages(run.message)
             new == [run EXCEPT !.stage = "asking", !.turn = 1, !.chat = chat]
  <2>1. runs' = [runs EXCEPT ![r] = new] /\ run.stage = "queued"
    BY <1>7 DEF Begin, Put
  <2>2. run.message \in Message
    BY <1>1, <1>2, <2>1 DEF Runs, Message
  <2>6. text \in BOOLEAN /\ HasText(run.message) = text
    BY <1>1, <2>2, TextTold DEF ChatsInv
  <2>3. Talk(text, chat, run.message, Len(chat))
    BY <1>1, <2>2, <2>6, MessagesTalk
  <2> HIDE DEF chat
  <2>4. new.stage = "asking" /\ new.message = run.message /\ new.chat = chat
    BY <1>1 DEF Runs
  <2> HIDE DEF new
  <2>5. ChatFits(text, new)
    BY <2>3, <2>4 DEF ChatFits, Acting
  <2>. QED BY <2>1, <2>5
<1>8. CASE BeginThrows(r)
  BY <1>6, <1>8 DEF BeginThrows, Put
<1>9. CASE CallTools(r)
  <2>1. PICK calls \in CallsGiven :
          runs' = [runs EXCEPT ![r] = StartCall([runs[r] EXCEPT
            !.chat = Append(@, Calls([i \in DOMAIN calls |-> i])),
            !.calls = calls, !.at = 1])]
    BY <1>9 DEF CallTools, Put
  <2> DEFINE ids == [i \in DOMAIN calls |-> i]
             entry == Calls(ids)
             chat == Append(run.chat, entry)
             on == [run EXCEPT !.chat = chat, !.calls = calls, !.at = 1]
             new == StartCall(on)
  <2>2. runs' = [runs EXCEPT ![r] = new] /\ run.stage = "asking"
    BY <1>9, <2>1 DEF CallTools
  <2>3. calls \in Seq(Tool)
    BY CallsType
  <2>4. ids \in Seq(Nat) /\ Len(ids) = Len(calls) /\ \A j \in 1 .. Len(ids) : ids[j] = j
    BY <2>3
  <2> HIDE DEF ids
  <2>5. Talk(text, run.chat, run.message, Len(run.chat))
    BY <1>4, <2>2
  <2>6. Pending(text, chat, run.message, 1, Len(ids))
    <3> DEFINE c == run.chat
               m == run.message
    <3>1. c \in Seq(Chatted) /\ Talk(text, c, m, Len(c))
      BY <1>1, <2>5
    <3> HIDE DEF c, m
    <3>2. Pending(text, Append(c, Calls(ids)), m, 1, Len(ids))
      BY <2>4, <3>1, CallsPending
    <3>. QED BY <3>2 DEF c, m
  <2>7. chat \in Seq(Chatted)
    <3>1. entry \in Chatted
      BY <2>4 DEF Calls, Chatted
    <3> HIDE DEF entry
    <3>. QED BY <1>1, <3>1
  <2> HIDE DEF entry, chat
  <2>8. /\ on \in Runs /\ on.chat = chat /\ on.message = run.message /\ on.at = 1
        /\ on.calls = calls
    BY <1>1, <2>3, <2>7 DEF Runs
  <2> HIDE DEF on
  <2>9. ChatFits(text, StartCall(on))
    BY <2>4, <2>6, <2>8, StartCallChats
  <2>. QED BY <2>2, <2>9
<1>10. CASE Reply(r)
  <2>1. runs' = [runs EXCEPT ![r] = Over(run, "done")] \/ runs' = [runs EXCEPT ![r] = Throws(run)]
    BY <1>10 DEF Reply, Put
  <2>. QED BY <1>6, <2>1
<1>11. CASE AskThrows(r)
  BY <1>6, <1>11 DEF AskThrows, Put
<1>12. run.acted \in BOOLEAN /\ run = [run EXCEPT !.acted = run.acted]
  BY <1>1 DEF Runs
<1>13. CASE ToolRefuses(r)
  <2>1. PICK end \in Refusals(run.calls[run.at]) : End(r, run, end)
    BY <1>13 DEF ToolRefuses
  <2>2. end \in {"ok", "failed", "fatal"}
    BY <2>1 DEF Refusals
  <2>3. run.stage \in Acting
    BY <1>13 DEF ToolRefuses, Acting
  <2>4. InCall(run) /\ Pending(text, run.chat, run.message, run.at, Len(run.calls))
    BY <1>3, <2>3
  <2> HIDE DEF run, text
  <2>5. \E new : runs' = [runs EXCEPT ![r] = new] /\ ChatFits(text, new)
    BY <2>1, <2>2, <2>4, EndChats
  <2>. QED BY <2>5 DEF run, text
<1>14. CASE ActionReturns(r)
  <2> DEFINE tool == run.calls[run.at]
             b == run.acted \/ ActsOutside(tool)
  <2>1. PICK end \in ActionEnds(tool) : End(r, [run EXCEPT !.acted = b], end)
    BY <1>14 DEF ActionReturns
  <2>2. end \in {"ok", "failed", "fatal"}
    BY <2>1 DEF ActionEnds
  <2>3. b \in BOOLEAN
    BY <1>12 DEF ActsOutside
  <2>4. run.stage \in Acting
    BY <1>14 DEF ActionReturns, Acting
  <2> HIDE DEF b
  <2>. QED BY <1>5, <2>1, <2>2, <2>3, <2>4
<1>15. CASE MailReturns(r)
  <2>1. PICK end \in {"ok", "failed"} : End(r, [run EXCEPT !.acted = TRUE], end)
    BY <1>15 DEF MailReturns
  <2>2. run.stage \in Acting
    BY <1>15 DEF MailReturns, Acting
  <2>. QED BY <1>5, <2>1, <2>2
<1>16. CASE EventThrows(r)
  BY <1>6, <1>16 DEF EventThrows, Put
<1>17. CASE ShellTimesOut(r)
  <2> DEFINE new == [run EXCEPT !.stage = "terminating"]
  <2>1. runs' = [runs EXCEPT ![r] = new] /\ run.stage \in Acting
    BY <1>17 DEF ShellTimesOut, Put, Acting
  <2>2. /\ new.stage = "terminating" /\ new.message = run.message /\ new.chat = run.chat
        /\ new.at = run.at /\ new.calls = run.calls
    BY <1>1 DEF Runs
  <2> HIDE DEF new
  <2>3. ChatFits(text, new)
    BY <1>3, <2>1, <2>2 DEF ChatFits
  <2>. QED BY <2>1, <2>3
<1>18. CASE AlertEnds(r)
  BY <1>6, <1>18 DEF AlertEnds, Put
<1>19. CASE ShellCloses(r)
  <2>1. End(r, [run EXCEPT !.acted = TRUE], "ok") /\ run.stage \in Acting
    BY <1>19 DEF ShellCloses, Acting
  <2>. QED BY <1>5, <2>1
<1>. QED BY <1>7, <1>8, <1>9, <1>10, <1>11, <1>13, <1>14, <1>15, <1>16, <1>17, <1>18, <1>19
         DEF RunStep

-----------------------------------------------------------------------------
(* The conversations under the steps of the gateway. *)

LEMMA ChatsInit ==
  ASSUME Init
  PROVE  \A r \in RunId : ChatFits(TextOf(runs[r].message), runs[r])
<1>1. \A r \in RunId : runs[r].stage = "free"
  BY DEF Init, HarnessInit, Idle
<1>. QED BY <1>1 DEF ChatFits, Acting

\* Mails stay as they are, and runs keep their messages.
LEMMA MessagesStay ==
  ASSUME InboundInv, [Next]_vars
  PROVE  /\ \A m \in Born : mails'[m] = mails[m]
         /\ \A r \in RunId :
              IF runs[r].stage = "free" THEN runs'[r].stage \in {"free", "queued"}
              ELSE runs'[r].message = runs[r].message
<1> DEFINE Stays(r) == IF runs[r].stage = "free" THEN runs'[r].stage \in {"free", "queued"}
                       ELSE runs'[r].message = runs[r].message
           Stay == mails' = mails /\ \A r \in RunId : Stays(r)
<1>1. Types /\ runs \in [RunId -> Runs] /\ mails \in Seq(Mail)
  BY DEF InboundInv, Types
<1>2. ASSUME runs' = runs, mails' = mails PROVE Stay
  BY <1>2
<1>3. ASSUME NEW m \in Message, RefuseUnknown(m) \/ Refuse(m) \/ RefuseAttachments(m)
                                 \/ AcceptThrows(m) \/ Acknowledge(m) \/ AnswerLost(m)
      PROVE  Stay
  BY <1>2, <1>3 DEF RefuseUnknown, Refuse, RefuseAttachments, AcceptThrows, Acknowledge,
                    AnswerLost, harnessVars
<1>4. ASSUME NEW m \in Message, Accept(m) PROVE Stay
  <2>1. HasFreeRun /\ runs' = [runs EXCEPT ![FreeRun] = NewRun(m)] /\ mails' = mails
    BY <1>4 DEF Accept, PersistAndEnqueue
  <2>2. runs[FreeRun].stage = "free"
    BY <2>1, FreeRunFree
  <2>3. NewRun(m).stage = "queued"
    BY NewRunFits
  <2> DEFINE f == FreeRun
             new == NewRun(m)
  <2> HIDE DEF f, new
  <2>4. runs' = [runs EXCEPT ![f] = new] /\ runs[f].stage = "free" /\ new.stage = "queued"
    BY <2>1, <2>2, <2>3 DEF f, new
  <2>. QED BY <1>1, <2>1, <2>4
<1>5. ASSUME Down PROVE Stay
  <2> SUFFICES ASSUME NEW r \in RunId PROVE Stays(r)
    BY <1>5 DEF Down
  <2>1. runs'[r] = IF runs[r].stage \in Active THEN Over(runs[r], "lost") ELSE runs[r]
    BY <1>5 DEF Down, RunsLost
  <2>2. Over(runs[r], "lost").message = runs[r].message
    BY DEF Over, Idle
  <2>3. "free" \notin Active
    BY DEF Active
  <2>. QED BY <2>1, <2>2, <2>3
<1>6. ASSUME NEW r \in RunId, Harness(r) \/ Shell(r) PROVE Stay
  <2>1. Moves(r) /\ mails' = mails
    BY <1>6, HarnessMoves DEF Harness, Shell, gatewayVars
  <2>2. PICK new : /\ runs[r].stage # "free" /\ runs' = [runs EXCEPT ![r] = new]
                   /\ new.message = runs[r].message
    BY <2>1 DEF Moves, Goes
  <2>. QED BY <1>1, <2>1, <2>2
<1>7. ASSUME NEW r \in RunId, SendMail(r)
      PROVE  (\A m \in Born : mails'[m] = mails[m]) /\ \A q \in RunId : Stays(q)
  <2> DEFINE new == [runs[r] EXCEPT !.stage = "sent", !.tries = @ + 1]
  <2>1. runs' = [runs EXCEPT ![r] = new] /\ runs[r].stage \in {"calling", "sent"}
    BY <1>7 DEF SendMail, Put
  <2>2. new.message = runs[r].message
    BY <1>1 DEF Runs
  <2>3. mails' = mails \/ \E child : mails' = Append(mails, child)
    BY <1>7 DEF SendMail
  <2> HIDE DEF new
  <2>4. \A m \in Born : mails'[m] = mails[m]
    <3>1. \A m \in Born : m \in 1 .. Len(mails)
      BY <1>1 DEF Born
    <3>2. ASSUME NEW child, mails' = Append(mails, child), NEW m \in 1 .. Len(mails)
          PROVE  mails'[m] = mails[m]
      BY <1>1, <3>2
    <3>. QED BY <2>3, <3>1, <3>2
  <2>. QED BY <1>1, <2>1, <2>2, <2>4
<1>8. ASSUME Crash \/ (\E m \in Message : CrashInAccept(m)) \/ (\E r \in RunId : ShellSpawnFails(r))
      PROVE  Stay
  BY <1>5, <1>8 DEF Crash, CrashInAccept, ShellSpawnFails
<1>9. ASSUME Restart \/ UNCHANGED vars PROVE Stay
  BY <1>2, <1>9 DEF Restart, harnessVars, gatewayVars, vars
<1> DEFINE Goal == (\A m \in Born : mails'[m] = mails[m]) /\ \A r \in RunId : Stays(r)
<1>10. Stay => Goal
  OBVIOUS
<1> HIDE DEF Stay, Stays
<1>11. Goal
  <2> HIDE DEF Goal
  <2>1. ASSUME NEW m \in Message, MailStep(m) \/ AnswerLost(m) \/ CrashInAccept(m) PROVE Goal
    BY <1>3, <1>4, <1>8, <1>10, <2>1 DEF MailStep
  <2>2. ASSUME NEW r \in RunId, Harness(r) \/ Shell(r) \/ SendMail(r) \/ ShellSpawnFails(r)
        PROVE  Goal
    <3>1. CASE SendMail(r)
      BY <1>7, <3>1 DEF Goal
    <3>. QED BY <1>6, <1>8, <1>10, <2>2, <3>1
  <2>3. CASE Crash \/ Restart \/ UNCHANGED vars
    BY <1>8, <1>9, <1>10, <2>3
  <2>. QED BY <2>1, <2>2, <2>3 DEF Next
<1>. QED BY <1>11 DEF Stays

LEMMA ChatsStep ==
  ASSUME ChatsInv, [Next]_vars
  PROVE  \A r \in RunId : ChatFits(TextOf(runs[r].message), runs'[r])
<1> DEFINE text(r) == TextOf(runs[r].message)
<1>1. runs \in [RunId -> Runs] /\ \A r \in RunId : ChatFits(text(r), runs[r])
  BY DEF ChatsInv, InboundInv, Types
<1>2. ASSUME runs' = runs PROVE \A r \in RunId : ChatFits(text(r), runs'[r])
  BY <1>1, <1>2
<1>3. ASSUME NEW r \in RunId, \E new : runs' = [runs EXCEPT ![r] = new] /\ ChatFits(text(r), new)
      PROVE  \A q \in RunId : ChatFits(text(q), runs'[q])
  <2> HIDE DEF text
  <2>. QED BY <1>1, <1>3
<1>4. CASE UNCHANGED vars
  BY <1>2, <1>4 DEF vars, harnessVars
<1>5. ASSUME NEW m \in Message, RefuseUnknown(m) \/ Refuse(m) \/ RefuseAttachments(m)
                                 \/ AcceptThrows(m) \/ Acknowledge(m) \/ AnswerLost(m)
      PROVE  \A r \in RunId : ChatFits(text(r), runs'[r])
  BY <1>2, <1>5 DEF RefuseUnknown, Refuse, RefuseAttachments, AcceptThrows, Acknowledge,
                    AnswerLost, harnessVars
<1>6. ASSUME NEW m \in Message, Accept(m) PROVE \A r \in RunId : ChatFits(text(r), runs'[r])
  <2> DEFINE f == FreeRun
             new == NewRun(m)
  <2>1. runs' = [runs EXCEPT ![f] = new]
    BY <1>6 DEF Accept, PersistAndEnqueue
  <2>2. \A any : ChatFits(any, new)
    <3>1. new.stage = "queued"
      BY NewRunFits
    <3>. QED BY <3>1 DEF ChatFits, Acting
  <2> HIDE DEF f, new, text
  <2>. QED BY <1>1, <2>1, <2>2
<1>7. ASSUME Down PROVE \A r \in RunId : ChatFits(text(r), runs'[r])
  <2> TAKE r \in RunId
  <2>1. runs'[r] = IF runs[r].stage \in Active THEN Over(runs[r], "lost") ELSE runs[r]
    BY <1>7 DEF Down, RunsLost
  <2>. QED BY <1>1, <2>1, OverChats
<1>8. ASSUME NEW r \in RunId, Harness(r) \/ Shell(r)
      PROVE  \A q \in RunId : ChatFits(text(q), runs'[q])
  <2>1. RunStep(r) \/ ShellCloses(r)
    BY <1>8 DEF Harness, Shell
  <2>. QED BY <1>3, <2>1, HarnessChats
<1>9. ASSUME NEW r \in RunId, SendMail(r) PROVE \A q \in RunId : ChatFits(text(q), runs'[q])
  <2> DEFINE run == runs[r]
             new == [run EXCEPT !.stage = "sent", !.tries = @ + 1]
  <2>1. runs' = [runs EXCEPT ![r] = new] /\ run.stage \in {"calling", "sent"}
    BY <1>9 DEF SendMail, Put
  <2>2. run \in Runs /\ ChatFits(text(r), run)
    BY <1>1
  <2>3. /\ new.stage = "sent" /\ new.message = run.message /\ new.chat = run.chat
        /\ new.at = run.at /\ new.calls = run.calls
    BY <2>2 DEF Runs
  <2> HIDE DEF run, new, text
  <2>4. ChatFits(text(r), new)
    BY <2>1, <2>2, <2>3 DEF ChatFits, Acting
  <2>. QED BY <1>3, <2>1, <2>4
<1>10. ASSUME Crash \/ (\E m \in Message : CrashInAccept(m)) \/ (\E r \in RunId : ShellSpawnFails(r))
       PROVE  \A r \in RunId : ChatFits(text(r), runs'[r])
  BY <1>7, <1>10 DEF Crash, CrashInAccept, ShellSpawnFails
<1>11. CASE Restart
  BY <1>2, <1>11 DEF Restart, harnessVars
<1>. QED BY <1>4, <1>5, <1>6, <1>8, <1>9, <1>10, <1>11 DEF Next, MailStep

\* The same in the next state, whose runs have the messages they had.
LEMMA ChatsKeep ==
  ASSUME ChatsInv, [Next]_vars, NEW r \in RunId
  PROVE  ChatFits(TextOf(runs[r].message)', runs'[r])
<1>1. InboundInv
  BY DEF ChatsInv
<1>2. ChatFits(TextOf(runs[r].message), runs'[r])
  BY ChatsStep
<1>3. CASE runs[r].stage = "free"
  <2>1. runs'[r].stage \in {"free", "queued"}
    BY <1>1, <1>3, MessagesStay
  <2>. QED BY <2>1 DEF ChatFits, Acting
<1>4. CASE runs[r].stage # "free"
  <2>1. runs'[r].message = runs[r].message
    BY <1>1, <1>4, MessagesStay
  <2>2. runs[r].message \in Message
    BY <1>1, <1>4 DEF InboundInv, RunFits, Runs, Message
  <2>3. runs[r].message \in Born
    BY <1>1, <2>2 DEF InboundInv, Rooted, Types
  <2>4. mails'[runs[r].message] = mails[runs[r].message]
    BY <1>1, <2>3, MessagesStay
  <2>5. TextOf(runs[r].message)' = TextOf(runs[r].message)
    BY <2>1, <2>4 DEF TextOf
  <2>. QED BY <1>2, <2>5
<1>. QED BY <1>3, <1>4

\* A run that asks has a conversation whose calls are all answered, in their
\* order and right behind them, and that holds the message once, behind the
\* prompt and the history; a run in a call has one that lacks only the results
\* of this call and of those after it.
THEOREM ChatsHold == Spec => []ChatsInv
<1>1. Init => ChatsInv
  BY InitFits, ChatsInit DEF ChatsInv
<1>2. ChatsInv /\ [Next]_vars => ChatsInv'
  <2> SUFFICES ASSUME ChatsInv, [Next]_vars PROVE ChatsInv'
    OBVIOUS
  <2>1. InboundInv'
    BY NextKeeps DEF ChatsInv
  <2>2. \A r \in RunId : ChatFits(TextOf(runs[r].message), runs[r])'
    <3> TAKE r \in RunId
    <3>1. ChatFits(TextOf(runs[r].message)', runs'[r])
      BY ChatsKeep
    <3>. QED BY <3>1 DEF ChatFits
  <2>. QED BY <2>1, <2>2 DEF ChatsInv, RunId
<1>. QED BY <1>1, <1>2, PTL DEF Spec

\* Each request that a run makes pairs every call with its result in the form
\* of every provider, and tells the message under way exactly once, or not at
\* all when it has no text and the adapter drops such messages; for any mails,
\* answers, tools, failures of tools, repeated deliveries, crashes and earlier
\* runs.
THEOREM RequestWellFormedHolds == Spec => []RequestWellFormed
<1>1. ChatsInv => RequestWellFormed
  <2> SUFFICES ASSUME ChatsInv, NEW r \in RunId, NEW p \in Provider, runs[r].stage = "asking"
               PROVE  LET m == runs[r].message
                          form == Form(p, runs[r].chat)
                          told == {i \in DOMAIN form : form[i].of = m}
                      IN  /\ Paired(form)
                          /\ Cardinality(told) =
                               IF mails[m].text \/ p \in KeepsEmpty THEN 1 ELSE 0
    BY DEF RequestWellFormed
  <2> DEFINE chat == runs[r].chat
             m == runs[r].message
             text == TextOf(m)
  <2>1. chat \in Seq(Chatted) /\ Talk(text, chat, m, Len(chat))
    BY DEF ChatsInv, InboundInv, Types, Runs, ChatFits
  <2>2. m \in Message
    BY DEF ChatsInv, InboundInv, RunFits, Runs, Message
  <2>3. text = mails[runs[r].message].text
    BY DEF TextOf
  <2> HIDE DEF chat, m, text
  <2>4. /\ Paired(Form(p, chat))
        /\ Cardinality(ToldAt(Form(p, chat), m)) = IF text \/ p \in KeepsEmpty THEN 1 ELSE 0
    BY <2>1, <2>2, FormsPaired
  <2>. QED BY <2>3, <2>4 DEF ToldAt, chat, m
<1>. QED BY <1>1, ChatsHold, PTL
=============================================================================
