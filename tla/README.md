# Verification of protege

TLA+ models of protege (an email-native agent framework and its relay), the TLC
runs that check them on small instances, and TLAPS proofs of the results that
matter most for every instance. All paths below are relative to `src/`.

## 1. The system

protege is two programs. The **gateway** (`framework/`) is one Node process per
workspace: it receives mail for *personas*, runs an LLM harness with tools for
each message, sends replies, and hosts the scheduler of *responsibilities* (cron
jobs written as markdown files). The **relay** (`relay/`) is a public Node process
with an SMTP port: it forwards mail to the gateways connected to it by websocket,
and sends their outbound mail on to the recipients' mail servers.

Node runs one callback at a time, so what interleaves is never two statements.
It is callbacks around an `await`; several processes over one SQLite file; peers
that disconnect, stay silent, or answer late; and crashes.

| Component | State it keeps | Operations | Talks to | What is hard |
|---|---|---|---|---|
| Responsibility scheduler (`framework/engine/scheduler`) | tables `responsibilities`, `responsibility_runs`; in memory: cron tasks, `inFlightRuns`, the cycle's position | sync, cron tick, claim, cycle, run, outcome, startup recovery | files on disk, harness (async), other processes through the tables | claims by two processes (a SELECT, then an UPDATE), recovery of live runs, crash between claim and outcome, cap, fairness of the cycle |
| Relay sessions and challenges (`relay/src/ws-*.ts`, `auth/`, `session-registry.ts`, `storage.ts`) | challenge records, three session indexes, per-socket auth state (memory only) | challenge, response, activate, remove, sweep | gateways (websocket) | replay, eviction of used records, replacement with a late close, messages on closing sockets |
| Relay SMTP ingress (`smtp-server.ts`, `smtp-ingress.ts`) | one transaction per message | RCPT, DATA, fan-out | session registry, senders | the registry changes between RCPT, the awaited evaluation and the fan-out |
| Gateway relay client (`gateway/relay-client.ts`) | socket, `authenticated`, two timers | open, challenge, auth_ok, error, close, reconnect, stop | relay | callbacks of old and new sockets, timers that race with closes |
| Outbound delivery (`gateway/outbound.ts`, `relay/src/outbound.ts`, `relay/src/index.ts`) | waiters, streams, the relay's deliveries (memory only) | send, retry, report, timeout, MX tries | relay client, mail servers | late and lost reports, retries on both sides, several recipients, a relay that dies |
| Gateway inbound (`gateway/inbound.ts`, `relay-tunnel.ts`, `index.ts`) | streams in assembly, messages, a queue in memory | ingest, persist, acknowledge, run, reply | relay client or SMTP, harness | crash between acknowledgement and run, stream ids used twice |
| Harness tool loop (`engine/harness/runtime.ts`, `storage.ts`) | message and tool-event rows | turn, tool call, failure, skip | providers, tools | partial tool traces |
| Hooks and memory (`engine/harness/hooks`, `memory`, `extensions/hooks`) | thread summaries with a watermark, dirty flag | dispatch, synthesise | providers (async) | state read before an await and written after it |
| Context pipeline, resolvers (`engine/harness/context`, `extensions/resolvers`) | none; reads the thread | build the prompt and the history | database, files | earlier runs that stopped halfway are part of the history |
| Provider adapters (`extensions/providers`) | none | request form, answer | vendors' HTTP APIs | five rules about which result follows which call |
| Tools (`extensions/tools`, `engine/harness/tools`) | child processes, requests | execute | shell, files, web, the gateway's `email.send` | children that do not end, errors that end the run or do not |
| Chat client (`engine/chat`) | rows, view, mode, selection, draft, editor; runs under way | keys, poll, send, quit | the personas' databases, harness | lists that change under the user, runs that end when the user is elsewhere or gone |
| CLI (`engine/cli`), configuration and personas (`engine/shared`) | `gateway.json`, `persona.json`s, `gateway.pid`, the systemd unit | init, setup, bootstrap, persona, gateway and daemon commands | the gateway, systemd | files without locks, truncated before they are written; kills; restarts |
| Database migrations (`engine/shared/database.ts`) | migration marks | apply | | a kill between a migration and its mark |
| Relay rate limits and signals (`relay/src/rate-limit.ts`, `auth-evaluator.ts`) | buckets | take, sweep | | none shared |

What makes each component correct:

* scheduler: one open run per responsibility, no overlapping execution but under a
  recovery, an outcome for every accepted run, the cap, no outcome revised but that
  of a recovered run;
* sessions: a session belongs to whoever proved its key, one session per
  challenge, no session lost to a late close;
* ingress: mail only reaches sessions of its recipients, and the sender is not told
  otherwise;
* client: never stranded, never two reconnects, back in session after every connection
  that ended or failed (one whose peer is silent does not end);
* delivery: "sent" means taken by every recipient's server, failures are real,
  duplicates have a cause, a send ends, and a failed send leaves the gateway up;
* inbound: what a sender will not repeat is stored, with its files and a run;
  personas that answer each other stop;
* harness: each request pairs calls with results whatever the tools came to and
  whatever earlier runs left; what was done can be read from the tool events; each
  run ends;
* memory: a summary and its watermark belong together, no update is forgotten but
  those known to be lost, and a dirty persona is looked at again after a restart;
* chat: the editor never writes in a thread that is only read or that the user did
  not open, replies stay in their thread, the inbox catches up;
* workspace: a serving gateway and its personas agree on the domain, each gateway
  can be stopped, a service that fails comes back.

## 2. What is modelled

| Module | Stands for |
|---|---|
| `SchedulerRuns` | the scheduler: files, index, run table, cron ticks, cycle, runner, recovery, crashes, several gateway processes |
| `ResponsibilityLedger` | what the scheduler promises of runs; abstract specification that `SchedulerRuns` implements |
| `MCScheduler` | instances of the above |
| `RelaySessions` | challenge store, verification, session registry, connections |
| `RelayIngress` | SMTP transactions composed with `RelaySessions` |
| `MCRelay` | instances of the above |
| `RelayClient` | the websocket client of one persona |
| `RelayDelivery` | one `email.send` end to end, composed with `RelayClient` |
| `MCDelivery` | instances of the above |
| `ProviderForms` | the five provider adapters: request forms and answers, as operators |
| `HarnessRuns` | the runs of the harness: context, turns, tools, tool events, reply, alert |
| `GatewayInbound` | a mail from its receipt to its run, with policies, recursion and crashes; extends `HarnessRuns` |
| `MCInbound` | instances of the above |
| `MemorySynthesis` | hook dispatcher, thread memory, active memory, recovery |
| `MCMemory` | instances of the above |
| `ChatClient` | the chat in the terminal |
| `MCChat` | instances of the above |
| `Workspace` | configuration, personas, pid file and service of one workspace, and the commands and gateways that share them |
| `MCWorkspace` | instances of the above |
| `Subsequences` | what a loop over a list keeps, as a recursive function |
| `SequenceFacts` | lemmas: induction over the naturals, what recursive functions and folds over sequences return |
| `SchedulerProofs`, `RelayProofs`, `DeliveryProofs`, `InboundProofs`, `MemoryProofs`, `ChatProofs`, `WorkspaceProofs` | theorems of the module they extend, and their proofs |

**SchedulerRuns.** `runStatus`, `runResponsibility` are the columns of
`responsibility_runs`; `indexed` is the `responsibilities` table; `files` the
directory. `promise[p]` is `inFlightRuns` of process `p` (`settled`: the promise
rejected but its `finally` has not run, because the cycle has not awaited yet).
`loop` and `cursor` say where `processSchedulerCycle` stands: a step for each
statement on the database, so another process can act between any two.
`Tick` is `enqueueResponsibilityRunIfIdle`, a single `INSERT ... WHERE NOT EXISTS`.
The dispatch of a run is three statements and three steps: `TryDispatch` asks whether
the persona has queued runs, `Select` reads the oldest row it may claim into
`selected`, and `Claim` updates it if it is queued still. A claim that comes to
nothing, because another gateway was faster, still leaves a promise in
`inFlightRuns`; `empty` counts those. `Started` is the synchronous start of the
runner: a missing prompt file and, with `StartFaults`, an unreadable `persona.json`
or a snapshot that cannot be written reject the promise at once and leave the row
running. `Succeed`/`Fail`/`AlertDone` are the continuations of the runner; `Start`
is the whole synchronous startup. `markRunSucceeded` updates by id alone, and so does
`Succeed`. Not modelled: cron expressions (a task may tick at any time), alert
texts, and the runner's branch for a responsibility whose row is gone (rows are
only ever disabled).

**RelaySessions / RelayIngress.** Every relay handler is synchronous, so it is one
action. `stored`/`used` are the challenge records; challenges are numbered in
`createdAt` order and expire in that order, so `expired` is a number. A signature
is the Boolean `signed`: it verifies under the key in the response or it does not.
`link` is the connection as the relay sees it; `closing` is the time between the
relay's own `close` and the close event, during which messages are still
dispatched and the session stays registered. `silent` is a peer that vanished.
`provedBy` is a history variable: which challenge authenticated a connection.
A key of `Malformed` decodes to no Ed25519 key: the response throws instead of being
refused, nothing catches that, and `RelayDies` takes connections, challenges and
registry with it (`Die` also breaks off the SMTP transactions); the process is
started again with empty memory.
`FanOut` reads the registry again after the awaited evaluation, like the code.

**RelayClient / RelayDelivery.** One persona's client, and one send with attempts,
one stream per recipient and attempt, the waiters of
`relayPendingSignalsByClient`, the relay's tries, and the reports. `waiters` and
`awaited` are kept apart because the code registers a waiter before it hands it to
`Promise.all`. `lane` holds the streams that reached the relay over the current
connection: the relay reports to the socket id a stream came from, so a report
after a reconnect has nowhere to go. `copies` and `doubted` are external state: what
the mail servers took, and for whom an acknowledgement was lost. The relay keeps no
spool, so `RelayDies` loses its deliveries.

**ProviderForms / HarnessRuns / GatewayInbound.** `mails` are the mails that exist:
a stranger's, of any make, and those that runs send to personas of the same gateway.
`transfer` is how far the *sender* is with each: over SMTP it repeats a mail until
it has an answer, over the relay nobody repeats anything. `Accept` is the
synchronous stretch of `processInboundMessage` and `onMessage` (raw MIME,
attachments, the message row, the microtask with the run); `CrashInAccept` is the
process ending between any two of its writes. A run is a record whose `stage` is
the await it is at, `chat` the conversation it keeps in memory, `trace` the tool
events it has stored. `Begin` builds the context from `timeline` and the traces of
all runs, as `thread-history` does: tool events appear there as texts, never as
calls, which is why a trace that stopped halfway cannot break a later request.
`RequestWellFormed` then asks of the form *each adapter* makes of the chat what its
provider demands. The answers are the sequences of blocks in `Answers`, which may
lack a name or an id, or hold broken JSON; each adapter drops them, throws, or reads
them as nothing, as its code does. A stored message may have an empty text (`text` of the mail): Anthropic's and Gemini's
adapters drop what is empty, the message under way included, so those requests can
lack it, or be empty but for the prompt; the other three send it. `header`, `hops`
and `by` follow the recursion budget through `email.send`, whose call makes up to
`MaxAttempts` attempts, each a mail with a `Message-ID` of its own: `tries` counts
them, and an attempt told as failed may have delivered. Left out: the assembly of a
tunnel stream, MIME, threading (one thread), and the token budget of the history.

**MemorySynthesis.** `items` counts what a thread holds; a summary is the set of
items it was made from, so what a synthesis forgets is seen. `busy` are the
syntheses under way, each with what it read before its await (`made`, `seen`); the
write comes at its end whatever was written meanwhile, as in the code. Two
processes share the database: the gateway, and a chat whose runs complete threads as
well. `Reached` is the dispatcher's loop: a hook of the user that throws before it returns a
promise ends it. `Dispatch` is what `active-memory-updater` does with an event: it
marks the persona and synthesises, or marks it and stops (`HeldBack`: the debounce, a
failure it stores), or never comes to the mark (`Lapses`: the path, the database or
the write threw, or another hook did). Three history variables say what is lost and
until when: `behind` are the threads whose last run no summary was made of, `lapsed`
those whose last summary no active memory was made of, and `recovery` is what the
persona got of the last start of the gateway. Each entry is that of *one* update and
goes with the next synthesis that makes up for it.

**ChatClient.** A key handler up to its first await is one action, chosen by view
and mode as the controller does (`PickerKey`, `ComposeKey`, `InboxKey`, `ThreadKey`);
the rest of `handleSendRequested` is `AfterRun`, which happens when the run ends.
`ui.rows` is what the last refresh read, `ui.index` the cursor in it, `ui.draft` and
`ui.editor` the text in the controller and in the compose box. `Keymap` is the
default one; the assumptions on it are the validations of `runtime-config.ts`.
`Listed` takes `Limit` rows of each persona, merged by last activity, so a thread
under the editor can drop off the list. A run calls `email.send` as often as it likes
(`RunActs`, `MaxReplies`): each call stores a reply in the thread, or is refused; that
it was called is noted before it is done, so that a refused one, too, suppresses the
final response, which the harness stores otherwise. After `Quit` the runs go on with
closed databases.

**Workspace.** Every file write is two actions, because the code truncates and then
writes, and every command is a sequence of such steps that others interleave with;
`Cut` kills a process between any two. `procs[n].step` is where a command or a
gateway stands, `config` in it what it has read or will write. `pidFile` holds the
process the file names. Slot 1 is the process systemd starts, the others are the
operator's. `half` is a gateway that lost the port: `main.ts` only sets the exit
code, and relay clients or the scheduler's interval keep the process alive. systemd
is modelled from the unit file the code writes (`Restart=on-failure`, SIGTERM is no
failure). The unit sets `StartLimitIntervalSec` and `StartLimitBurst` in `[Service]`,
where systemd ignores them, and the default limit is more than `RestartSec` leaves
room for: the model has none. `causes` says what `DomainsAgree` and
`GatewaysReachable` must allow for: writers that raced, threw or were cut off, and a
gateway started beside another.

`Wrong variant` operators stand before the definitions they alter. They are the
mutants of `PROJECT.json`: plausible bugs, each of which makes one property fail.
They are used by no action.

## 3. Runs

| Run | Instance | Shows |
|---|---|---|
| `SchedulerShared` | 2 personas, 2 responsibilities, 2 gateways, cap 1, 2 rows, 1 crash, malformed files, starts of runs that throw | one open run, the cap, executions that overlap only after a recovery, the ledger is implemented |
| `SchedulerLive` | 1 gateway, cap 2, 3 rows, 1 crash, malformed files | every queued and every running row gets an outcome |
| `SchedulerStuckRun` | 1 gateway, 2 rows, a file that can be deleted | violated: a deleted prompt file leaves its run `running` |
| `RelayIngress` | 2 personas and a malformed key, 2 connections, 3 challenges, store of 2, 1 transaction | whose session it is, one per challenge, no session lost to a late close, mail only to its recipients |
| `RelayClosingSession` | the same with 2 challenges | violated: 250 for mail written to a closing socket |
| `RelayDelivery` | 2 recipients, 2 attempts, 2 tries, 1 connection fault | delivery, client and their liveness |
| `RelayDeliveryOrphan` | the same | violated: the timer of a waiter nobody awaits ends the process |
| `InboundGateway` | 2 senders, one denied; 3 mails in up to 2 attempts a call, 2 runs of 2 turns, 2 tool calls, 2 kinds of answers; depth 1; 1 crash or lost answer | what is taken is stored, requests are well-formed for all providers, the trace explains the run, recursion stops, runs end unless they stay in a shell |
| `InboundShell` | 1 mail, 1 run that calls a shell, no faults | violated: a run ends |
| `MemorySynthesis` | 2 threads of 2 items, 1 item a synthesis, 1 recent thread, 2 syntheses at once, 1 process that ends | watermark and summary fit, no update is forgotten but those known to be lost, dirty personas are recovered |
| `ChatClient` | 2 personas with 1 row each, 2 threads, 1 mail, 2 sends, 2 replies a run, texts of 1, 1 database error; every key of the keymap | the editor is safe, replies stay home, the inbox catches up |
| `Workspace` | 2 personas, `localhost` and one relay domain, the service's gateway and 1 command or second gateway, 2 kills or restarts of the service's process | domains agree, gateways are reachable, the service returns |

**Why the bounds are enough.** Two of each actor is the least at which the hazards
exist: two processes for one table, two personas for one cap, two sockets for one
key, two recipients for one send. Two rows show an open run beside a refused or a
new one, a lost claim, and a recovered run beside its successor; the third row of
`SchedulerLive` adds a run after recovery. Three challenges over a store of two make the cap evict, a used record among others.
Three mails are the stranger's, one that answers it within the budget and one that
answers that with the budget used up, or two attempts of one call; two runs interleave in
one thread; two tool calls are a failed one with one to skip. A longer chain of personas
is left to `RecursionBoundedHolds`. Two threads with one row per list make a thread
drop off the list, in the chat as in the memories; two syntheses overlap. Two replies
are more than one for a text. In `Workspace` two processes are a gateway with one
command beside it, at any step of both; two commands that write at once are not
reached (the model has them: `Raced`, and `MaxProcs` 3 does). Two cuts end a gateway,
and its successor while it starts.
Two attempts and two tries are one retry on each side; one fault is a break at
every possible point followed by a clean reconnect. `ManyCopies` counts copies
to two, which tells a duplicate. Beyond these bounds no safety property of a passing
run rests on TLC: section 4. The bounds `MaxRuns`, `MaxCrashes`,
`MaxChallenges`, `MaxFaults`, `ManyCopies`, `MaxMails`, `MaxToolUses`, `MaxItems`,
`MaxBusy`, `MaxThreads`, `MaxSends`, `MaxReplies`, `MaxText`, `MaxPersonas`, `MaxProcs` and
`MaxCuts` cap counters and have no counterpart in the code; `MaxConcurrent`, `MaxRecords`,
`MaxRecipients`, `MaxAttempts`, `RelayTries`, `MaxTurns`, `DefaultDepth`,
`MaxDeltaItems`, `RecentThreads` and `Limit` are values of the configuration or
constants of the code, made small. Kills of commands in `Workspace` are not bounded;
those of the service's process are, by `MaxCuts`.

**Symmetry** is used in `RelayIngress` (personas and connections are alike), which has no
liveness.
**Deadlock** is checked except in the delivery, inbound, memory and chat runs: they
follow one send, some mails, the items of some threads or one session to their end,
where the system really stops.

**Fairness.** Weak fairness throughout, and only of steps that the event loop or
the environment surely takes: a timer that is due fires and a settled promise is
continued (`Cycle` of the scheduler, `Timeout`, `HeartbeatFires`, `ReconnectFires`); a
harness run and a mail-server session end with an outcome or an error
(`Execution`, `Delivered`/`TryFails`, `HookStep`, `RunStep`, `Harness`: requests
to a provider are given up by the HTTP client, tool timers fire); a requested close completes, and a handshake with a relay that is alive
goes on (a handshake slower than the timer counts as a fault, `MaxFaults` of them);
a gateway that died is started again (`Restart=on-failure`, `engine/cli/daemon.ts`;
in `Workspace` that is systemd's own step `Spawn`); the poll timer
of the chat fires; a command under way goes on (`Advance`). Nothing is assumed of
users, operators, senders, reports, or streams on the wire: reports may never come. Nor does
anything make a shell close (`ShellCloses` has no fairness): the call gets one SIGTERM
and then waits. `RunsEndWithShells` says that this is all a run can be stuck in; that a
run ends without that premise is false, which `InboundShell` shows.

## 4. What is proved

Every invariant of a passing run, both of their action properties
(`EndsWithItsSocket`, `NoResendAfterTimeout`) and the refinement (`LedgerSpec`) is a
theorem: for every number of personas, responsibilities, processes, sockets,
challenges, messages, recipients, attempts, threads, mails, runs, tools and faults,
every keymap that the settings accept, every answer of a provider. The proofs assume
the named `ASSUME`s of the modules and nothing else: numbers are of the right range,
owners are personas, `NoKey` and `NoSocket` are no values, answers are sequences of
blocks (`AnswersAreBlocks`), the keymap passes the validation of `runtime-config.ts`
(`KeymapIsValid`), personas are listed once (`SomePersona`), `localhost` is a domain
(`LocalDomain`). TLC evaluates each of them in the runs. Each of
the inductive invariants (`LiveInv` and `RoomInv`, `RelayInv`, `SendInv`, `InboundInv` and `ChatsInv`, `KeptInv`,
`SessionInv` and `RepliesInv`, `DomInv`) also holds on the
instance of its run: a cfg with the proof module and the invariant shows it.

`SchedulerProofs`: `TypeCorrect`, `OneOpenRunHolds`, `OverlapIsRecoveredHolds`,
`CapHolds`, `LedgerHolds`, for any number of gateways on one table.
*Argument.* `OneOpenRun` alone is not inductive: `Tick` writes the row `runCount + 1`,
which must be known to be unused, so the invariant carries "rows beyond the count are
absent"; and a claim takes effect a step after its select, so `Claim` is safe because
the row is tested again and because a row leaves `queued` for good. For overlap
(`LiveInv`): the row of an executing promise was claimed, is `running` or has an
outcome, and no other process executes the same row, since only a `queued` row can be
claimed; two executions of one responsibility then have different rows, of which
`OneOpenRun` leaves one open at most, and the other was closed under its run, which
only recovery does. The cap follows from `RoomInv`: a process between the test of the cap
and its claim has room for one more promise, claimed or empty. `LedgerHolds` is the
refinement: each step of the scheduler is a step of `ResponsibilityLedger` or a
stutter. A tick is `Accept` or `Refuse`, `Claim` is `Begin`, an outcome is `End` when its
row is still running and `Revise` when a recovery closed it (`markRunSucceeded` asks
for no status), a startup with its recovery is one `Interrupt` of all rows that were
running, those that another gateway executes becoming orphans, and a crash is
`Abandon`.

`RelayProofs`: `TypeCorrect`, `RegistryHolds`, `RegisteredHolds`,
`ChallengeOpensOne`, `KeyHolds`, `DeliveryIsolated`, `EndsHolds`.
*Argument.* `OneSessionPerChallenge` needs more than the check `c \notin used`,
because used records are evicted: the strengthening `ProvedIsUsed` says that a
challenge that opened a session is used for as long as it is stored, and an
evicted one is not accepted at all; the end of the process (`DeathKeeps`) empties the
store, which is an eviction of everything. The registry theorems rest on lemmas about
`Removed` and `Activated` as functions on registries, which say that both preserve
the agreement of the three indexes; `EndsHolds` is an action property from the same
invariant.

`DeliveryProofs`: `TypeCorrect`, `NeverStrandedHolds`, `SentHolds`,
`DuplicatesHold`, `FailureHolds`, `NoResendHolds`. *Argument.* `SendInv` has two
halves. *Evidence*: whatever the gateway was told is true of the relay's
deliveries, and every sent delivery left a copy. *Progress*: streams of later
attempts are untouched, awaited waiters belong to the attempt that runs, and an
attempt that is over was either never written or has a delivery that failed for
good. A duplicate then needs two sent streams of one recipient, hence an earlier
attempt that is over, hence a failed delivery of somebody else in it. TLC checked
`SendInv` on the instance of `RelayDelivery` before it was proved.

`InboundProofs`: `TypeCorrect`, `TakenIsStoredHolds`, `RequestWellFormedHolds`,
`TraceExplainsHolds`, `RecursionBoundedHolds`. *Argument.* `InboundInv` says five things.
`RunFits`: a run in a call has this call as the last event of its trace, any other run
that goes on has none open. `Recorded`: the mails a run sent, and the attempts its
present call has left, are no more than `MaxAttempts` for each recorded call of
`send_email`; what is *owed* is what makes `TraceExplains` survive the step that sends. `Rooted`: what
has a row or a run is on disk and was let in. `BudgetFits`: header and hops of a mail add
up to at most one more than the first budget, unless the header is used up, and such a
mail is never stored. `Stored`: what is answered or taken has its row and its run.
`RequestWellFormed` needs the conversation itself, and `ChatsInv` adds it: `Talk` says
that a conversation is texts that end in the message under way, then calls, each
with its results in their order right behind it; `Pending` that only the results of the
last calls, from the one under way on, are missing. `ResultsPending` is the step: a
result told, or the rest skipped, fills the next places and no others, because a call
is never within the reach of another call. `FormsPaired` then takes a `Talk` through
each adapter: what an adapter drops are texts, all of them before the first call
(`KeptExchanged`), so calls and results stay beside each other. The message under way is
told once by the form when the adapter keeps it (`KeptTold`), which it does unless
its text is empty and the provider is Anthropic or Gemini.

`MemoryProofs`: `TypeCorrect`, `SummaryFitsMarkHolds`, `UpdatesAreKeptHolds`.
*Argument.* A synthesis reads before its await and writes after it, so the
invariant speaks of the jobs under way: what each of them made fits the watermark it saw
(`JobsFit`), whatever was written meanwhile. For `UpdatesAreKept`, each job carries what
happened that it has not seen (`unseen`): a synthesis of a thread has seen the thread's
last run or is marked so, and a summary that is behind has one that saw it or is known
to be behind (`ThreadsKept`); a synthesis of the persona holds every summary it takes
or is marked so (`JobsHear`), which is what makes clearing the dirty flag either right
or a recorded loss (`PersonaKept`).

`ChatProofs`: `TypeCorrect`, `ComposeIsSafeHolds`, `RepliesStayHomeHolds`. *Argument.*
`Sound` relates the session to the stored threads: an editor is open only in a local
thread that can be written, the draft is its text, and the thread is listed or its
persona has more than `Limit` threads, since a thread can only drop off a list that
is full (`InboxRows`, which counts the rows of a persona). `RepliesInv` gives each text a number of its own, says that a text whose run
is under way is in the thread that the run was started with, that it has a reply only
if the run called `email.send`, and a final response only if its run is over: wherever
the user is when the run ends, what it stores has a place, and a final response no
company.

`WorkspaceProofs`: `TypeCorrect`, `GatewaysReachableHolds`, `DomainsAgreeHolds`. *Argument.*
`TypedSteps` knows the steps of each kind of process, `HoldsOK` that no two processes
have the same `persona.json` half-written and that it cannot be read meanwhile, `Alone`
that two gateways, or two commands that write addresses, have left a cause. Then
`Agree`: while a gateway works under the present configuration and nothing has gone wrong,
every persona that can be read has its domain or is still on the list of a process
that will write it, and a persona that is being made will get it.

*Induction.* The provers cannot instantiate the induction rules of the library, which
take an operator. `SequenceFacts` derives induction over sets (`SetInduction`) from the
order of the naturals, and from it what recursive functions return: the folds of the
community modules, sums, and `Those`, the loop that keeps some items of a list. No module
uses RECURSIVE operators.

Only model-checked: liveness, which with fairness and ENABLED is outside what the prover
does: `QueuedRunsResolve`, `RunningRunsResolve`, `CallEnds`, `SessionReturns`,
`RunsEndWithShells`, `DirtyIsRecovered`, `InboxCatchesUp`, `ServiceReturns`. The four findings of section 5 are
counterexamples of TLC.

## 5. Where the code and its documents part

Four runs end in a violation on purpose; `PROJECT.json` quotes the lines under
"findings". In short: a run whose prompt file is gone stays `running`; a 250 may be
given for mail that a closing socket dropped; a send without a session leaves a
waiter whose timeout is an unhandled rejection; and a command that does not close its
output after SIGTERM holds its run without a bound. In `SchedulerLive` the files
cannot vanish, which keeps the first of these out of `RunningRunsResolve` there, and
`RunsEndWithShells` states its premise; everything else those runs cover holds.

The models show further disagreements, which no run of their own demonstrates:

* *Memory.* `docs/adr/0033` (line 44) and `site/developer-experience/extensions/hooks.md`
  (line 84) say that hook failures are isolated and logged. A callback that throws
  before it returns a promise ends the dispatcher's loop
  (`framework/engine/harness/hooks/registry.ts:112`), and the hooks behind it miss the
  event: `Reached`, `Lapses`. `docs/adr/0037` (line 58) says that the dirty state is in
  the database so that signals survive restarts. The mark does; but it may never be
  made, or be cleared by a synthesis that had not seen it: `lapsed`.
* *Setup.* On an initialised workspace `hydrateSetupSeedFromExistingProject`
  (`framework/engine/cli/setup.ts:465`) reads the mode of the workspace after the
  command line and overrides it, so that `protege setup --non-interactive --outbound
  relay` leaves a local workspace local (`Hydrated`), where
  `site/reference/cli.md` (line 38) says "use flags only".
* *Chat.* `site/reference/chat.md` (line 78) has Esc in the editor as "Back to command
  mode", and `controller.ts:124` returns `enter_command_mode`; `runtime.ts:694` answers
  that by dropping the draft and leaving for the inbox (`Closed`). A thread that can be
  written therefore has no command mode, though `view-model.ts:135` offers to enter
  compose mode from it.
* *Relay session.* `site/internal-architecture/gateway.md` (line 74) says that the
  connection is dropped without a heartbeat. The client's timer is one for the
  handshake and ends with `auth_ok` (`framework/engine/gateway/relay-client.ts:143`): a
  peer that falls silent after that is never noticed. `SessionReturns` is about
  connections that end.

Some properties that hold name what the code leaves open, where no document
promises more: mail the relay has handed over and a crash then lost is not repeated
(`TakenIsStored` speaks of what was taken); a run that was under way in a crash is
not taken up again (`Restart`); a second gateway's recovery closes rows under live runs,
whose outcomes then revise them (`OverlapIsRecovered`, `Revise`); a request may lack the
message it is about when that is empty (`RequestWellFormed`); an older synthesis may
replace a newer summary, with its watermark (`SummaryFitsMark`); an `email.send` that
was refused leaves a text of the chat without an answer (`RunEnds`); a gateway that
lost its port does not exit, and is up without serving (`GatewaysReachable`,
`ServiceReturns`); a setup writes the address of the first persona only, until a
gateway with the relay starts (`DomainsAgree`).

## 6. Not modelled, and the plan

Not modelled for good: the file and web tools, the texts of the resolvers, the
wizards' prompts, status output, logging, the relay's token bucket and the site.
They are translation or single I/O calls; what they could break is not an
interleaving. MIME composition and parsing, DNS order, cron parsing and the
signatures are data to the models above. Database migrations are two statements and
a mark: the models start on a migrated database.

Next, most important first:

1. The steps behind the liveness properties that need no fairness, as action
   properties with theorems: a run of the harness only moves forward in turns and
   calls, a delivery's attempts and tries only grow, a pass of the cycle visits each
   persona once. Each is the variant that the liveness run rests on.
2. The assembly of tunnel streams from their frames, composed with `RelayIngress`:
   a socket that closes within a stream, and the map that keeps it.
3. `RelayDelivery` as an implementation of a small abstract send, one outcome per
   recipient, in the manner of `ResponsibilityLedger`.
4. `Workspace` with three processes, once the state space allows two commands that
   write at once beside the gateway; the theorems cover them already.
