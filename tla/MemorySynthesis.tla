-------------------------- MODULE MemorySynthesis --------------------------
(***************************************************************************)
(* The memory of one persona (extensions/hooks/thread-memory-updater and   *)
(* active-memory-updater, harness/memory, harness/hooks): a run that is    *)
(* completed is an event; the first hook summarizes what is new in the     *)
(* thread and emits an event of its own; the second marks the persona      *)
(* dirty, and writes the active memory from the summaries.                 *)
(*                                                                         *)
(* Hooks are dispatched without waiting for one another: syntheses of the  *)
(* same thread and of the same persona overlap, in the gateway and in a    *)
(* chat, which is a process of its own on the same database.  A process    *)
(* can end at any await; only the gateway looks for dirty personas when it *)
(* starts.                                                                 *)
(*                                                                         *)
(* The items of a thread, messages and tool events, are numbered in the    *)
(* order of their times; a summary is the set of items it was made from.   *)
(***************************************************************************)
EXTENDS Naturals, FiniteSets, SequencesExt, Subsequences

CONSTANTS
  Thread,         \* threads of the persona
  Hooks,          \* names of the hooks, in the order of the manifest
  MaxItems,       \* bound: items of a thread
  MaxDeltaItems,  \* max_delta_items of the thread hook
  RecentThreads,  \* max_recent_threads of the active hook
  MaxBusy,        \* bound: syntheses under way
  MaxFaults       \* bound: processes that end

ASSUME SomeThread == Thread # {} /\ IsFiniteSet(Thread)
ASSUME MemoryBounds == {MaxItems, MaxDeltaItems, RecentThreads, MaxBusy} \subseteq Nat \ {0}
                         /\ MaxFaults \in Nat
ASSUME HooksAreNamed == Hooks \in Seq(STRING)

Process == {"gateway", "chat"}

VARIABLES
  items,    \* how many items each thread holds
  summary,  \* thread_memory_states: the items a summary was made from
  mark,     \* its watermark, source_received_at: the last item it has seen
  recent,   \* the threads with a summary, the last updated first
  dirty,    \* persona_memory_synthesis_state.dirty
  active,   \* active.md: the items of each thread it was made from
  busy,     \* syntheses under way
  emitted,  \* memory.thread.updated events on their way to the hooks
  live,     \* processes that live
  faults,
  behind,   \* threads whose last run no summary was made of
  lapsed,   \* threads whose last summary nothing made an active memory of
  recovery  \* what the persona got of the last start of the gateway

storeVars == <<summary, mark, recent, dirty, active>>
lossVars  == <<behind, lapsed, recovery>>
vars == <<items, storeVars, busy, emitted, live, faults, lossVars>>

Items == 1 .. MaxItems

\* The least number above the numbers in use: the name of a synthesis.
Fresh == CHOOSE n \in 1 .. MaxBusy : n \notin DOMAIN busy

With(jobs, n, job) == [k \in DOMAIN jobs \cup {n} |-> IF k = n THEN job ELSE jobs[k]]
Without(jobs, ns)  == [k \in DOMAIN jobs \ ns |-> jobs[k]]

ThreadJobs(t) == {k \in DOMAIN busy : busy[k].kind = "thread" /\ busy[k].thread = t}
ActiveJobs    == {k \in DOMAIN busy : busy[k].kind = "active"}

\* What changes in thread t is not seen by the syntheses under way that read it.
Unseen(jobs, t) ==
  [k \in DOMAIN busy |-> IF k \in jobs THEN [busy[k] EXCEPT !.unseen = @ \cup {t}] ELSE busy[k]]

Init ==
  /\ items = [t \in Thread |-> 0]
  /\ summary = [t \in Thread |-> {}]
  /\ mark = [t \in Thread |-> 0]
  /\ recent = <<>>
  /\ dirty = FALSE
  /\ active = [t \in Thread |-> {}]
  /\ busy = <<>>
  /\ emitted = {}
  /\ live = Process
  /\ faults = 0
  /\ behind = {} /\ lapsed = {} /\ recovery = "none"

-----------------------------------------------------------------------------
(* The dispatcher. *)

\* The hooks an event reaches: a callback that throws before its first await
\* ends the loop over the hooks; the logger reports that and goes on.
Reached(thrower) ==
  {Hooks[i] : i \in {j \in DOMAIN Hooks : \A k \in 1 .. j - 1 : Hooks[k] # thrower}}

\* Hooks that throw in this manner: not the two of the memory, whose callbacks
\* are asynchronous functions.
Throwers == {"none"} \cup (Range(Hooks) \ {"thread-memory-updater", "active-memory-updater"})

-----------------------------------------------------------------------------
(* The summary of a thread. *)

\* The newest n of the items above a mark.
Newest(n, above, last) == {i \in Items : i > above /\ i <= last /\ i + n > last}

\* What the hook reads before it asks the provider: the earlier summary and
\* the newest of the items after its watermark.
ThreadJob(t, proc, last) ==
  [kind |-> "thread", thread |-> t, proc |-> proc, seen |-> last, unseen |-> {},
   made |-> summary[t] \cup Newest(MaxDeltaItems, mark[t], last)]

\* Wrong variant: the watermark is taken when the summary is written.
WriteSummaryLate(t, job) ==
  /\ summary' = [summary EXCEPT ![t] = job.made]
  /\ mark' = [mark EXCEPT ![t] = items[t]]

\* upsertThreadMemoryState: whatever another synthesis wrote meanwhile.
WriteSummary(t, job) ==
  /\ summary' = [summary EXCEPT ![t] = job.made]
  /\ mark' = [mark EXCEPT ![t] = job.seen]

\* A run of the thread is completed in a process: its items are stored and
\* the event dispatched, all at once.
Complete(t, proc) ==
  /\ proc \in live /\ items[t] < MaxItems
  /\ Cardinality(DOMAIN busy) < MaxBusy
  /\ \E n \in items[t] + 1 .. MaxItems, thrower \in Throwers :
       /\ items' = [items EXCEPT ![t] = n]
       /\ IF "thread-memory-updater" \in Reached(thrower)
          THEN /\ busy' = With(Unseen(ThreadJobs(t), t), Fresh, ThreadJob(t, proc, n))
               /\ UNCHANGED behind
          ELSE /\ busy' = Unseen(ThreadJobs(t), t)
               /\ behind' = behind \cup {t}
  /\ UNCHANGED <<storeVars, emitted, live, faults, lapsed, recovery>>

\* Wrong variant: an INSERT without its ON CONFLICT clause.
Inserted(t) == <<t>> \o recent

\* The row of the thread is replaced, its updated_at is the newest.
Upserted(t) == <<t>> \o Those(recent, Thread \ {t})

ThreadDone(k) ==
  LET job == busy[k]
      t == job.thread
  IN  /\ job.kind = "thread"
      /\ WriteSummary(t, job)
      /\ recent' = Upserted(t)
      /\ busy' = Without(Unseen(ActiveJobs, t), {k})
      /\ emitted' = emitted \cup {<<job.proc, t>>}
      /\ behind' = IF t \in job.unseen THEN behind \cup {t} ELSE behind \ {t}
      /\ UNCHANGED <<items, dirty, active, live, faults, lapsed, recovery>>

\* The threads of syntheses that saw the last run of their thread.
Latest(ks) ==
  {busy[k].thread : k \in {j \in ks : busy[j].kind = "thread" /\ busy[j].thread \notin busy[j].unseen}}

\* The database, the provider or the prompt fails: the hook throws, which is
\* only logged.
ThreadFails(k) ==
  /\ busy[k].kind = "thread"
  /\ busy' = Without(busy, {k})
  /\ behind' = behind \cup Latest({k})
  /\ UNCHANGED <<items, storeVars, emitted, live, faults, lapsed, recovery>>

-----------------------------------------------------------------------------
(* The active memory. *)

\* listThreadMemoryStatesByPersona: the threads whose summaries it takes.
Heard == {recent[i] : i \in {j \in DOMAIN recent : j <= RecentThreads}}

\* What the hook reads: active.md and the summaries updated last.
ActiveJob(proc) ==
  [kind |-> "active", proc |-> proc, unseen |-> {},
   made |-> [t \in Thread |-> active[t] \cup IF t \in Heard THEN summary[t] ELSE {}]]

\* The persona is marked dirty and synthesized.
Synthesize(proc) ==
  /\ dirty' = TRUE
  /\ busy' = With(busy, Fresh, ActiveJob(proc))
  /\ UNCHANGED lapsed

\* The persona is marked dirty and no more: the last synthesis was a moment
\* ago, and nothing comes back to it when that moment is over; or the database
\* or a file cannot be read, which is stored with the flag.
HeldBack ==
  /\ dirty' = TRUE
  /\ UNCHANGED <<busy, lapsed>>

\* The event does not come to the mark: another hook threw before, or this
\* one threw when it opened the database or wrote to it.
Lapses(ts) ==
  /\ lapsed' = lapsed \cup ts
  /\ UNCHANGED <<dirty, busy>>

\* memory.thread.updated is dispatched in a process, for the threads ts.
Dispatch(proc, ts) ==
  /\ Cardinality(DOMAIN busy) < MaxBusy
  /\ \/ /\ \E thrower \in Throwers : "active-memory-updater" \in Reached(thrower)
        /\ Synthesize(proc) \/ HeldBack
     \/ Lapses(ts)
  /\ UNCHANGED <<items, summary, mark, recent, active, behind>>

ActiveStart(proc, t) ==
  /\ <<proc, t>> \in emitted
  /\ emitted' = emitted \ {<<proc, t>>}
  /\ Dispatch(proc, {t})
  /\ UNCHANGED <<live, faults, recovery>>

\* active.md is overwritten and the flag cleared, whatever was marked since.
ActiveDone(k) ==
  /\ busy[k].kind = "active"
  /\ active' = busy[k].made
  /\ dirty' = FALSE
  /\ busy' = Without(busy, {k})
  /\ lapsed' = busy[k].unseen
  /\ UNCHANGED <<items, summary, mark, recent, emitted, live, faults, behind, recovery>>

\* Wrong variant: the flag goes with the attempt.
ActiveForgets(k) ==
  /\ busy[k].kind = "active"
  /\ dirty' = FALSE
  /\ busy' = Without(busy, {k})
  /\ UNCHANGED <<items, summary, mark, recent, active, emitted, live, faults, lossVars>>

\* The failure is stored with the flag, if the database takes it; active.md
\* may have been written before.
ActiveFails(k) ==
  /\ busy[k].kind = "active"
  /\ \/ UNCHANGED <<active, lapsed>>
     \/ active' = busy[k].made /\ lapsed' = busy[k].unseen
  /\ dirty' \in {dirty, TRUE}
  /\ busy' = Without(busy, {k})
  /\ UNCHANGED <<items, summary, mark, recent, emitted, live, faults, behind, recovery>>

-----------------------------------------------------------------------------
(* Processes end and start. *)

\* With a process go its syntheses and the events it had not dispatched.
ProcessEnds(proc) ==
  LET gone == {k \in DOMAIN busy : busy[k].proc = proc}
      lost == {e \in emitted : e[1] = proc}
  IN  /\ proc \in live /\ faults < MaxFaults
      /\ live' = live \ {proc}
      /\ busy' = Without(busy, gone)
      /\ emitted' = emitted \ lost
      /\ faults' = faults + 1
      /\ behind' = behind \cup Latest(gone)
      /\ lapsed' = lapsed \cup {e[2] : e \in lost}
      /\ recovery' = IF proc = "gateway" THEN "none" ELSE recovery
      /\ UNCHANGED <<items, storeVars>>

ChatStarts ==
  /\ "chat" \notin live
  /\ live' = live \cup {"chat"}
  /\ UNCHANGED <<items, storeVars, busy, emitted, faults, lossVars>>

\* Wrong variant: a dirty persona waits for its next event.
GatewayIgnores ==
  /\ "gateway" \notin live
  /\ live' = live \cup {"gateway"}
  /\ UNCHANGED <<items, storeVars, busy, emitted, faults, lossVars>>

\* recoverDirtyMemorySynthesisStates: a dirty persona gets the event again.
GatewayStarts ==
  /\ "gateway" \notin live
  /\ live' = live \cup {"gateway"}
  /\ IF dirty
     THEN /\ Dispatch("gateway", {})
          /\ recovery' = IF busy' = busy THEN "passed" ELSE "begun"
     ELSE UNCHANGED <<items, storeVars, busy, lossVars>>
  /\ UNCHANGED <<emitted, faults>>

HookStep ==
  \/ \E k \in DOMAIN busy : ThreadDone(k) \/ ThreadFails(k) \/ ActiveDone(k) \/ ActiveFails(k)
  \/ \E proc \in Process, t \in Thread : ActiveStart(proc, t)

Next ==
  \/ \E t \in Thread, proc \in Process : Complete(t, proc)
  \/ HookStep
  \/ \E proc \in Process : ProcessEnds(proc)
  \/ ChatStarts \/ GatewayStarts

Spec == Init /\ [][Next]_vars

\* Requests to a provider end, and the service manager restarts the gateway.
FairSpec == Spec /\ WF_vars(HookStep) /\ WF_vars(GatewayStarts)

-----------------------------------------------------------------------------
(* Properties. *)

TypeOK ==
  /\ items \in [Thread -> 0 .. MaxItems] /\ mark \in [Thread -> 0 .. MaxItems]
  /\ summary \in [Thread -> SUBSET Items] /\ active \in [Thread -> SUBSET Items]
  /\ recent \in Seq(Thread) /\ Cardinality(Range(recent)) = Len(recent)
  /\ dirty \in BOOLEAN
  /\ DOMAIN busy \subseteq 1 .. MaxBusy
  /\ \A k \in DOMAIN busy : busy[k].proc \in live
  /\ emitted \subseteq live \X Thread
  /\ live \subseteq Process /\ faults \in 0 .. MaxFaults
  /\ behind \subseteq Thread /\ lapsed \subseteq Thread
  /\ recovery \in {"none", "begun", "passed"}

\* However syntheses of a thread overlap, and whichever writes last, the
\* watermark a summary is stored with is the one it was made for: the newest
\* items up to the watermark, as many as fit one synthesis, are in it, and
\* none after it.
SummaryFitsMark ==
  \A t \in Thread :
    /\ Newest(MaxDeltaItems, 0, mark[t]) \subseteq summary[t]
    /\ \A i \in summary[t] : i <= mark[t]

\* No update is forgotten but those that are known to be lost.  A summary that
\* is behind its thread has a synthesis under way that saw its last run, or
\* that run's own synthesis failed, ended with its process or was overwritten
\* by an older one.  An active memory that is behind a summary is marked dirty
\* or an event will mark it, or that summary's own event did not come to the
\* mark, or the mark was cleared by a synthesis that had not seen the summary.
\* The next synthesis of the thread, or of the persona, makes up for it.
UpdatesAreKept ==
  /\ \A t \in Thread :
       mark[t] = items[t] \/ t \in behind \/ \E k \in ThreadJobs(t) : busy[k].seen = items[t]
  /\ \A t \in Heard :
       summary[t] \subseteq active[t] \/ dirty \/ t \in lapsed
         \/ \E proc \in Process : <<proc, t>> \in emitted

\* A persona that is dirty while the gateway is down is looked at again: the
\* flag is cleared by a synthesis or one is under way, unless the debounce or
\* an error drops the event of that very start.
DirtyIsRecovered ==
  (dirty /\ "gateway" \notin live) ~> ~dirty \/ recovery = "passed" \/ ActiveJobs # {}
=============================================================================
