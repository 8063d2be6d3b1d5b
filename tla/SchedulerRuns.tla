--------------------------- MODULE SchedulerRuns ---------------------------
(***************************************************************************)
(* The responsibility scheduler hosted by the gateway process              *)
(* (framework/engine/scheduler): the run table, cron ticks, the polling    *)
(* cycle that claims and executes queued runs under a global cap, startup  *)
(* recovery, and process crashes.                                          *)
(*                                                                         *)
(* Each gateway process is single threaded: while a cycle scans the        *)
(* personas no cron tick and no settled promise of the same process can    *)
(* run, but another process may act between two of its statements on the   *)
(* database, so each of those is a step (`loop' = "scan", "claim").        *)
(* Several processes may share one workspace: nothing in `gateway start'   *)
(* refuses a second one, and one whose SMTP port is taken keeps its        *)
(* scheduler alive.                                                        *)
(***************************************************************************)
EXTENDS Integers, Sequences, FiniteSets

CONSTANTS
  Resp,           \* responsibilities, one markdown file each
  Persona,        \* personas; each owns a database and responsibilities
  PersonaOf,      \* [Resp -> Persona]
  PersonaSeq,     \* the personas in the order the runtime iterates them
  Procs,          \* gateway processes that may run in the workspace
  MaxConcurrent,  \* scheduler.max_global_concurrent_runs
  FileStates,     \* what an edit may leave of a responsibility file
  StartFaults,    \* whether persona.json or the prompt snapshot may fail after a claim
  MaxRuns,        \* bound: rows ever inserted in responsibility_runs
  MaxCrashes      \* bound: gateway crashes

AllFileStates == {"enabled", "disabled", "absent", "malformed"}

ASSUME ResponsibilityOwners == Resp # {} /\ PersonaOf \in [Resp -> Persona]
ASSUME PersonaOrder == /\ PersonaSeq \in Seq(Persona)
                       /\ \A q \in Persona : \E i \in DOMAIN PersonaSeq : PersonaSeq[i] = q
ASSUME PositiveCap == MaxConcurrent \in Nat \ {0}
ASSUME FileStatesKnown == FileStates \subseteq AllFileStates
ASSUME StartFaultsBoolean == StartFaults \in BOOLEAN
ASSUME RunBounds == MaxRuns \in Nat /\ MaxCrashes \in Nat

VARIABLES
  files,             \* the responsibilities/*.md files on disk
  indexed,           \* the responsibilities table
  runCount,          \* rows inserted so far in responsibility_runs
  runResponsibility, \* responsibility_id of each row
  runStatus,         \* status of each row
  gateway,           \* what the scheduler of each process came to at startup
  tasks,             \* cron tasks registered in each process
  loop,              \* where the polling cycle of each process stands
  cursor,            \* next position of personaStates in the current pass
  dispatched,        \* whether the current pass dispatched a run
  selected,          \* the row a claim has read and not yet updated, 0 for none
  promise,           \* inFlightRuns: the promise of each run a process claimed
  empty,             \* inFlightRuns: how many promises claimed nothing
  crashes            \* crashes so far

table   == <<runCount, runResponsibility, runStatus>>
process == <<gateway, tasks, loop, cursor, dispatched, selected, promise, empty>>
vars    == <<files, indexed, table, process, crashes>>

RunId    == 1 .. MaxRuns
Open     == {"queued", "running"}
Outcome  == {"succeeded", "failed", "skipped_overlap"}
NoPromise == [r \in RunId |-> "none"]

-----------------------------------------------------------------------------
(* What the SQL of storage.ts selects. *)

\* Wrong variant: only a running run counts as open.
OpenRunsRunning(x) == {r \in RunId : runResponsibility[r] = x /\ runStatus[r] = "running"}

OpenRuns(x) == {r \in RunId : runResponsibility[r] = x /\ runStatus[r] \in Open}

QueuedRunsOf(q) == {r \in RunId : /\ runStatus[r] = "queued"
                                  /\ PersonaOf[runResponsibility[r]] = q}

\* Wrong variant: the run's own queued row blocks it.
ClaimableUnlessOpen(q) == {r \in QueuedRunsOf(q) :
                             \A s \in RunId : runResponsibility[s] = runResponsibility[r]
                                                => runStatus[s] \notin Open}

\* The queued runs of a persona with no running run of the same responsibility.
Claimable(q) == {r \in QueuedRunsOf(q) :
                   \A s \in RunId : runResponsibility[s] = runResponsibility[r]
                                      => runStatus[s] # "running"}

\* Rows are numbered in triggered_at order, so the oldest has the least number.
NextClaim(q) == {r \in Claimable(q) : \A s \in Claimable(q) : r <= s}

Claimed(p) == {r \in RunId : promise[p][r] # "none"}

\* The size of inFlightRuns.
InFlight(p) == Cardinality(Claimed(p)) + empty[p]

\* Wrong variant: one more than the cap.
CapExceeded(p) == InFlight(p) > MaxConcurrent

CapReached(p) == InFlight(p) >= MaxConcurrent

Settled(p) == {r \in RunId : promise[p][r] = "settled"}

-----------------------------------------------------------------------------
(* File synchronisation. *)

\* Personas are synchronised in order and the first one with a file that does
\* not parse throws before any of its rows is written.
SyncablePersonas ==
  {PersonaSeq[i] : i \in {k \in DOMAIN PersonaSeq :
      \A x \in Resp : (\E j \in 1 .. k : PersonaOf[x] = PersonaSeq[j])
                        => files[x] # "malformed"}}

\* Every file of the directory is upserted; indexed rows without a file are
\* disabled; a file never seen stays unknown.
SyncedIndex(P) ==
  [x \in Resp |->
     CASE PersonaOf[x] \notin P -> indexed[x]
       [] PersonaOf[x] \in P /\ files[x] \in {"enabled", "disabled"} -> files[x]
       [] OTHER -> IF indexed[x] = "none" THEN "none" ELSE "disabled"]

\* Wrong variant: startup recovery fails queued runs too.
RecoveredOpen(P) ==
  [r \in RunId |-> IF runStatus[r] \in Open /\ PersonaOf[runResponsibility[r]] \in P
                   THEN "failed" ELSE runStatus[r]]

\* finalizeInterruptedRunningRuns for the personas in P.
Recovered(P) ==
  [r \in RunId |-> IF runStatus[r] = "running" /\ PersonaOf[runResponsibility[r]] \in P
                   THEN "failed" ELSE runStatus[r]]

-----------------------------------------------------------------------------
Init ==
  /\ files \in [Resp -> FileStates]
  /\ indexed = [x \in Resp |-> "none"]
  /\ runCount = 0
  /\ runResponsibility = [r \in RunId |-> CHOOSE x \in Resp : TRUE]
  /\ runStatus = [r \in RunId |-> "absent"]
  /\ gateway = [p \in Procs |-> "down"]
  /\ tasks = [p \in Procs |-> {}]
  /\ loop = [p \in Procs |-> "idle"]
  /\ cursor = [p \in Procs |-> 1]
  /\ dispatched = [p \in Procs |-> FALSE]
  /\ selected = [p \in Procs |-> 0]
  /\ promise = [p \in Procs |-> NoPromise]
  /\ empty = [p \in Procs |-> 0]
  /\ crashes = 0

\* A user edits, breaks, deletes or restores one responsibility file.
EditFile(x) ==
  /\ files' \in {[files EXCEPT ![x] = f] : f \in FileStates \ {files[x]}}
  /\ UNCHANGED <<indexed, table, process, crashes>>

\* `protege scheduler sync' in a process of its own: the table changes, the
\* cron tasks of running gateways do not.
CliSync ==
  /\ indexed' = SyncedIndex(SyncablePersonas)
  /\ UNCHANGED <<files, table, process, crashes>>

\* Startup: for each persona in turn, synchronise the files, fail the runs a
\* dead process left running, register cron tasks.  A persona that throws ends
\* startSchedulerRuntime before its poll timer exists; the gateway logs it and
\* keeps serving, with the cron tasks of the earlier personas registered.
Start(p) ==
  LET P == SyncablePersonas IN
  /\ gateway[p] = "down"
  /\ indexed' = SyncedIndex(P)
  /\ runStatus' = Recovered(P)
  /\ tasks' = [tasks EXCEPT ![p] = {x \in Resp : PersonaOf[x] \in P /\ indexed'[x] = "enabled"}]
  /\ gateway' = [gateway EXCEPT ![p] = IF P = Persona THEN "serving" ELSE "cron_only"]
  /\ UNCHANGED <<files, runCount, runResponsibility, loop, cursor, dispatched, selected,
                 promise, empty, crashes>>

\* One cron tick: enqueue a run if the responsibility has no open one, else
\* persist the skipped tick.  The task is the one captured at startup.
Tick(p, x) ==
  /\ gateway[p] # "down" /\ x \in tasks[p] /\ loop[p] \in {"idle", "wait"}
  /\ runCount < MaxRuns
  /\ runCount' = runCount + 1
  /\ runResponsibility' = [runResponsibility EXCEPT ![runCount + 1] = x]
  /\ runStatus' = [runStatus EXCEPT ![runCount + 1] =
                     IF OpenRuns(x) = {} THEN "queued" ELSE "skipped_overlap"]
  /\ UNCHANGED <<files, indexed, process, crashes>>

-----------------------------------------------------------------------------
(* The polling cycle. *)

StartPass(p) ==
  /\ loop' = [loop EXCEPT ![p] = "scan"]
  /\ cursor' = [cursor EXCEPT ![p] = 1]
  /\ dispatched' = [dispatched EXCEPT ![p] = FALSE]

\* The timer fires and no cycle is being processed.
Poll(p) ==
  /\ gateway[p] = "serving" /\ loop[p] = "idle"
  /\ StartPass(p)
  /\ UNCHANGED <<files, indexed, table, gateway, tasks, selected, promise, empty, crashes>>

ScanAt(p) == loop[p] = "scan" /\ cursor[p] <= Len(PersonaSeq)

\* tryDispatchRun has nothing to do for this persona: its queue is empty, or
\* the global cap is reached.
PassOver(p) ==
  /\ ScanAt(p)
  /\ \/ QueuedRunsOf(PersonaSeq[cursor[p]]) = {}
     \/ CapReached(p)
  /\ cursor' = [cursor EXCEPT ![p] = @ + 1]
  /\ UNCHANGED <<files, indexed, table, gateway, tasks, loop, dispatched, selected, promise,
                 empty, crashes>>

\* tryDispatchRun finds a queued run and room for it, and calls the runner.
TryDispatch(p) ==
  /\ ScanAt(p)
  /\ QueuedRunsOf(PersonaSeq[cursor[p]]) # {} /\ ~CapReached(p)
  /\ loop' = [loop EXCEPT ![p] = "claim"]
  /\ UNCHANGED <<files, indexed, table, gateway, tasks, cursor, dispatched, selected, promise,
                 empty, crashes>>

\* Wrong variant: the pass goes on claiming.
MoveOnClaiming(p) ==
  /\ UNCHANGED loop
  /\ dispatched' = [dispatched EXCEPT ![p] = TRUE]
  /\ cursor' = [cursor EXCEPT ![p] = @ + 1]
  /\ selected' = [selected EXCEPT ![p] = 0]

\* The runner returned its promise: tryDispatchRun goes on to the next persona.
MoveOn(p) ==
  /\ loop' = [loop EXCEPT ![p] = "scan"]
  /\ dispatched' = [dispatched EXCEPT ![p] = TRUE]
  /\ cursor' = [cursor EXCEPT ![p] = @ + 1]
  /\ selected' = [selected EXCEPT ![p] = 0]

\* The claim came to nothing: the promise resolves with "idle" and stays in
\* inFlightRuns until the cycle awaits.
ClaimsNothing(p) ==
  /\ empty' = [empty EXCEPT ![p] = @ + 1]
  /\ MoveOn(p)
  /\ UNCHANGED <<runStatus, promise>>

\* The claim reads the oldest row it may claim.  Another process may have taken
\* what was queued a moment ago.
Select(p) ==
  /\ loop[p] = "claim" /\ selected[p] = 0
  /\ \/ /\ \E r \in NextClaim(PersonaSeq[cursor[p]]) : selected' = [selected EXCEPT ![p] = r]
        /\ UNCHANGED <<loop, cursor, dispatched, empty, promise, runStatus>>
     \/ /\ Claimable(PersonaSeq[cursor[p]]) = {}
        /\ ClaimsNothing(p)
  /\ UNCHANGED <<files, indexed, runCount, runResponsibility, gateway, tasks, crashes>>

\* What the start of a run may come to.  The prompt file, the write of the
\* snapshot and persona.json come after the claim and before the try block:
\* when one of them throws the promise rejects at once, the cycle logs it,
\* and the row stays running.
Started(r) ==
  {s \in {"executing", "settled"} :
     /\ s = "executing" => files[runResponsibility[r]] # "absent"
     /\ s = "settled" => StartFaults \/ files[runResponsibility[r]] = "absent"}

\* Wrong variant: the update does not ask for a queued row.
ClaimAnyway(p) ==
  /\ loop[p] = "claim" /\ selected[p] # 0
  /\ runStatus' = [runStatus EXCEPT ![selected[p]] = "running"]
  /\ \E s \in Started(selected[p]) : promise' = [promise EXCEPT ![p][selected[p]] = s]
  /\ MoveOn(p)
  /\ UNCHANGED <<files, indexed, runCount, runResponsibility, gateway, tasks, empty, crashes>>

\* The update of the selected row, which takes effect only if it is queued
\* still: another process may have claimed it since the select.
Claim(p) ==
  /\ loop[p] = "claim" /\ selected[p] # 0
  /\ \/ /\ runStatus[selected[p]] = "queued"
        /\ runStatus' = [runStatus EXCEPT ![selected[p]] = "running"]
        /\ \E s \in Started(selected[p]) : promise' = [promise EXCEPT ![p][selected[p]] = s]
        /\ MoveOn(p)
        /\ UNCHANGED empty
     \/ /\ runStatus[selected[p]] # "queued"
        /\ ClaimsNothing(p)
  /\ UNCHANGED <<files, indexed, runCount, runResponsibility, gateway, tasks, crashes>>

\* The end of a pass: leave the cycle, await the first promise to settle, or
\* scan again at once.  Promises that settled during the pass leave
\* inFlightRuns as soon as the cycle awaits, and the cycle goes on.
EndPass(p) ==
  /\ loop[p] = "scan" /\ cursor[p] > Len(PersonaSeq)
  /\ LET await == InFlight(p) > 0 /\ (~dispatched[p] \/ CapReached(p))
         done  == Settled(p) # {} \/ empty[p] > 0
     IN \/ /\ InFlight(p) = 0 /\ ~dispatched[p]
           /\ loop' = [loop EXCEPT ![p] = "idle"]
           /\ UNCHANGED <<cursor, dispatched, promise, empty>>
        \/ /\ await /\ ~done
           /\ loop' = [loop EXCEPT ![p] = "wait"]
           /\ UNCHANGED <<cursor, dispatched, promise, empty>>
        \/ /\ await /\ done
           /\ promise' = [promise EXCEPT ![p] =
                            [r \in RunId |-> IF r \in Settled(p) THEN "none" ELSE @[r]]]
           /\ empty' = [empty EXCEPT ![p] = 0]
           /\ StartPass(p)
        \/ /\ ~await /\ dispatched[p]
           /\ StartPass(p)
           /\ UNCHANGED <<promise, empty>>
  /\ UNCHANGED <<files, indexed, table, gateway, tasks, selected, crashes>>

\* A promise of the awaited set settles and leaves it; the cycle scans again.
Resume(p, r) ==
  /\ promise' = [promise EXCEPT ![p][r] = "none"]
  /\ StartPass(p)
  /\ UNCHANGED <<selected, empty>>

\* The harness run completed: markRunSucceeded, whatever the row's status is.
Succeed(p, r) ==
  /\ loop[p] = "wait" /\ promise[p][r] = "executing"
  /\ runStatus' = [runStatus EXCEPT ![r] = "succeeded"]
  /\ Resume(p, r)
  /\ UNCHANGED <<files, indexed, runCount, runResponsibility, gateway, tasks, crashes>>

\* Wrong variant: the alert is sent and the row left as it is.
FailUnmarked(p, r) ==
  /\ loop[p] = "wait" /\ promise[p][r] = "executing"
  /\ promise' = [promise EXCEPT ![p][r] = "alerting"]
  /\ UNCHANGED <<files, indexed, table, gateway, tasks, loop, cursor, dispatched, selected,
                 empty, crashes>>

\* The harness run threw: markRunFailed, then the failure alert is awaited.
Fail(p, r) ==
  /\ loop[p] = "wait" /\ promise[p][r] = "executing"
  /\ runStatus' = [runStatus EXCEPT ![r] = "failed"]
  /\ promise' = [promise EXCEPT ![p][r] = "alerting"]
  /\ UNCHANGED <<files, indexed, runCount, runResponsibility, gateway, tasks, loop, cursor,
                 dispatched, selected, empty, crashes>>

\* The alert was sent or its failure swallowed.
AlertDone(p, r) ==
  /\ loop[p] = "wait" /\ promise[p][r] = "alerting"
  /\ Resume(p, r)
  /\ UNCHANGED <<files, indexed, table, gateway, tasks, crashes>>

\* The process dies: its memory is lost, the tables stay.
Crash(p) ==
  /\ gateway[p] # "down" /\ crashes < MaxCrashes
  /\ crashes' = crashes + 1
  /\ gateway' = [gateway EXCEPT ![p] = "down"]
  /\ tasks' = [tasks EXCEPT ![p] = {}]
  /\ loop' = [loop EXCEPT ![p] = "idle"]
  /\ cursor' = [cursor EXCEPT ![p] = 1]
  /\ dispatched' = [dispatched EXCEPT ![p] = FALSE]
  /\ selected' = [selected EXCEPT ![p] = 0]
  /\ promise' = [promise EXCEPT ![p] = NoPromise]
  /\ empty' = [empty EXCEPT ![p] = 0]
  /\ UNCHANGED <<files, indexed, table>>

-----------------------------------------------------------------------------
Cycle(p) == Poll(p) \/ PassOver(p) \/ TryDispatch(p) \/ Select(p) \/ Claim(p) \/ EndPass(p)

Execution(p) == \E r \in RunId : Succeed(p, r) \/ Fail(p, r) \/ AlertDone(p, r)

Next ==
  \/ CliSync
  \/ \E x \in Resp : EditFile(x)
  \/ \E p \in Procs :
       \/ Start(p)
       \/ \E x \in Resp : Tick(p, x)
       \/ Cycle(p)
       \/ Execution(p)
       \/ Crash(p)

Spec == Init /\ [][Next]_vars

\* The event loop keeps turning: a timer that is due and a continuation that
\* is ready run; harness runs and alert sends end, with an outcome or an error;
\* a gateway that died is started again (systemd Restart=).
Fairness == \A p \in Procs : WF_vars(Start(p) \/ Cycle(p) \/ Execution(p))

FairSpec == Spec /\ Fairness

-----------------------------------------------------------------------------
TypeOK ==
  /\ files \in [Resp -> AllFileStates]
  /\ indexed \in [Resp -> {"none", "enabled", "disabled"}]
  /\ runCount \in 0 .. MaxRuns
  /\ runResponsibility \in [RunId -> Resp]
  /\ runStatus \in [RunId -> {"absent"} \cup Open \cup Outcome]
  /\ gateway \in [Procs -> {"down", "serving", "cron_only"}]
  /\ tasks \in [Procs -> SUBSET Resp]
  /\ loop \in [Procs -> {"idle", "scan", "claim", "wait"}]
  /\ cursor \in [Procs -> 1 .. Len(PersonaSeq) + 1]
  /\ \A p \in Procs : loop[p] = "claim" => cursor[p] <= Len(PersonaSeq)
  /\ dispatched \in [Procs -> BOOLEAN]
  /\ selected \in [Procs -> {0} \cup RunId]
  /\ promise \in [Procs -> [RunId -> {"none", "executing", "alerting", "settled"}]]
  /\ empty \in [Procs -> Nat]
  /\ crashes \in 0 .. MaxCrashes

\* A responsibility never has two open rows, whatever processes tick, claim,
\* crash and recover (enqueueResponsibilityRunIfIdle, claimNextQueuedRun).
\* It also means that a persona with a queued run always has one to claim:
\* were it violated the cycle would spin on an unclaimable run.
OneOpenRun ==
  \A r, s \in RunId :
     /\ runResponsibility[r] = runResponsibility[s]
     /\ runStatus[r] \in Open /\ runStatus[s] \in Open
     => r = s

\* No more promises in flight than the configured cap, counting the ones that
\* already settled, claimed nothing or still await their alert (tryDispatchRun).
CapRespected == \A p \in Procs : InFlight(p) <= MaxConcurrent

Executing == {e \in Procs \X RunId : promise[e[1]][e[2]] = "executing"}

\* Two harness runs of one responsibility execute at the same time only when
\* startup recovery (finalizeInterruptedRunningRuns) closed the row of one of
\* them under its run: two gateways never claim the same row, although a claim
\* is a SELECT and an UPDATE (claimNextQueuedRun), and never two rows of one
\* responsibility (ADR-0031 "one active run per responsibility").
OverlapIsRecovered ==
  \A e, f \in Executing :
     e # f /\ runResponsibility[e[2]] = runResponsibility[f[2]]
       => /\ e[2] # f[2]
          /\ runStatus[e[2]] \in Outcome \/ runStatus[f[2]] \in Outcome

\* The gateways of a workspace implement the ledger the scheduler promises: one
\* open run per responsibility, refused ticks recorded, and outcomes that are
\* revised in one case alone, although markRun* update by id: by a run whose row
\* another gateway's recovery closed.
Ledger == INSTANCE ResponsibilityLedger WITH
  open    <- [x \in Resp |-> IF OpenRuns(x) = {} THEN 0 ELSE CHOOSE r \in OpenRuns(x) : TRUE],
  begun   <- {x \in Resp : \E r \in OpenRuns(x) : runStatus[r] = "running"},
  closed  <- [r \in RunId |-> IF runStatus[r] \in Outcome THEN runStatus[r] ELSE "pending"],
  orphans <- {r \in RunId : /\ runStatus[r] \in Outcome
                            /\ \E p \in Procs : promise[p][r] = "executing"}

LedgerSpec == Ledger!Spec

AllServing == \A p \in Procs : gateway[p] = "serving"

\* While every gateway lives and its scheduler started, a queued run gets an
\* outcome: it is claimed by one of them in the end, through lost claims, the
\* cap and passes that await unrelated runs.
QueuedRunsResolve ==
  \A r \in RunId :
     (runStatus[r] = "queued" /\ AllServing) ~> (runStatus[r] \in Outcome \/ ~AllServing)

\* Run outcomes are explicit: while every gateway lives, a claimed run ends
\* succeeded or failed, also one whose gateway died and was started again
\* (scheduler README, "Run outcomes are explicit and persisted").
RunningRunsResolve ==
  \A r \in RunId :
     (runStatus[r] = "running" /\ AllServing) ~> (runStatus[r] \in Outcome \/ ~AllServing)
=============================================================================
