---------------------------- MODULE MemoryProofs ----------------------------
(***************************************************************************)
(* Proofs about MemorySynthesis, for any finite set of threads, any hooks  *)
(* of the user and any bounds.                                             *)
(***************************************************************************)
EXTENDS MemorySynthesis, SequenceFacts

\* The syntheses under way.
Jobs ==
  [kind : {"thread"}, thread : Thread, proc : Process, seen : 0 .. MaxItems,
   unseen : SUBSET Thread, made : SUBSET Items]
    \cup [kind : {"active"}, proc : Process, unseen : SUBSET Thread, made : [Thread -> SUBSET Items]]

BusyOK == busy \in [DOMAIN busy -> Jobs]

\* A synthesis never saw more than the thread holds, and what it makes of it
\* is as good as a summary.
JobsFit ==
  /\ \A t \in Thread : mark[t] <= items[t]
  /\ \A t \in Thread : \A k \in ThreadJobs(t) :
       /\ busy[k].seen <= items[t]
       /\ Newest(MaxDeltaItems, 0, busy[k].seen) \subseteq busy[k].made
       /\ \A i \in busy[k].made : i <= busy[k].seen

\* A synthesis of a thread has seen its last run, or is known not to have; and
\* a summary that is behind has one that saw it, or is known to be behind.
ThreadsKept ==
  \A t \in Thread :
    /\ \A k \in ThreadJobs(t) : t \in busy[k].unseen \/ busy[k].seen = items[t]
    /\ \/ mark[t] = items[t]
       \/ t \in behind
       \/ \E k \in ThreadJobs(t) : busy[k].seen = items[t] /\ t \notin busy[k].unseen

\* A synthesis of the persona holds every summary it takes, or is known not to.
JobsHear ==
  \A k \in ActiveJobs : \A t \in Heard : t \in busy[k].unseen \/ summary[t] \subseteq busy[k].made[t]

PersonaKept ==
  \A t \in Heard : \/ summary[t] \subseteq active[t]
                   \/ dirty
                   \/ t \in lapsed
                   \/ \E proc \in Process : <<proc, t>> \in emitted

-----------------------------------------------------------------------------
(* The syntheses that start and end. *)

LEMMA FreshIsFree ==
  ASSUME DOMAIN busy \subseteq 1 .. MaxBusy, Cardinality(DOMAIN busy) < MaxBusy
  PROVE  Fresh \in (1 .. MaxBusy) \ DOMAIN busy
<1>1. MaxBusy \in Nat /\ 1 \in Int /\ MaxBusy \in Int /\ ~ (1 > MaxBusy)
  BY MemoryBounds
<1>2. Cardinality(1 .. MaxBusy) = MaxBusy
  BY <1>1, FS_Interval
<1>3. DOMAIN busy # 1 .. MaxBusy
  BY <1>1, <1>2
<1>4. \E n \in 1 .. MaxBusy : n \notin DOMAIN busy
  BY <1>3
<1>. QED BY <1>4 DEF Fresh

\* The one synthesis that starts, and what became of those there were.
Begun(jobs, job) ==
  \E n \in (1 .. MaxBusy) \ DOMAIN busy :
    /\ DOMAIN busy' = DOMAIN busy \cup {n}
    /\ busy'[n] = job
    /\ \A k \in DOMAIN busy : busy'[k] = jobs[k]

LEMMA Starts ==
  ASSUME DOMAIN busy \subseteq 1 .. MaxBusy, Cardinality(DOMAIN busy) < MaxBusy,
         NEW jobs \in [DOMAIN busy -> Jobs], NEW job \in Jobs, busy' = With(jobs, Fresh, job)
  PROVE  BusyOK' /\ Begun(jobs, job)
<1> DEFINE n == Fresh
<1>1. n \in (1 .. MaxBusy) \ DOMAIN busy
  BY FreshIsFree
<1> HIDE DEF n
<1>2. busy' = [k \in DOMAIN busy \cup {n} |-> IF k = n THEN job ELSE jobs[k]]
  BY DEF With, n
<1>3. /\ DOMAIN busy' = DOMAIN busy \cup {n}
      /\ busy'[n] = job
      /\ \A k \in DOMAIN busy : busy'[k] = jobs[k]
  BY <1>1, <1>2
<1>4. BusyOK'
  BY <1>2, <1>3 DEF BusyOK
<1>. QED BY <1>1, <1>3, <1>4 DEF Begun

LEMMA Ends ==
  ASSUME NEW jobs \in [DOMAIN busy -> Jobs], NEW ns, busy' = Without(jobs, ns)
  PROVE  /\ BusyOK'
         /\ DOMAIN busy' = DOMAIN busy \ ns
         /\ \A k \in DOMAIN busy \ ns : busy'[k] = jobs[k]
<1>1. busy' = [k \in DOMAIN busy \ ns |-> jobs[k]]
  BY DEF Without
<1>2. DOMAIN busy' = DOMAIN busy \ ns /\ \A k \in DOMAIN busy \ ns : busy'[k] = jobs[k]
  BY <1>1
<1>3. BusyOK'
  BY <1>1, <1>2 DEF BusyOK
<1>. QED BY <1>2, <1>3

\* A synthesis that missed a change is the same otherwise.
LEMMA UnseenProperties ==
  ASSUME BusyOK, NEW ks, NEW t \in Thread
  PROVE  /\ Unseen(ks, t) \in [DOMAIN busy -> Jobs]
         /\ \A k \in DOMAIN busy :
              /\ Unseen(ks, t)[k].kind = busy[k].kind
              /\ Unseen(ks, t)[k].proc = busy[k].proc
              /\ Unseen(ks, t)[k].made = busy[k].made
              /\ busy[k].kind = "thread" =>
                   Unseen(ks, t)[k].thread = busy[k].thread /\ Unseen(ks, t)[k].seen = busy[k].seen
              /\ k \notin ks => Unseen(ks, t)[k].unseen = busy[k].unseen
              /\ k \in ks => Unseen(ks, t)[k].unseen = busy[k].unseen \cup {t}
<1> DEFINE u == Unseen(ks, t)
<1>1. DOMAIN u = DOMAIN busy /\ u = [k \in DOMAIN busy |-> u[k]]
  BY DEF Unseen
<1>2. ASSUME NEW k \in DOMAIN busy
      PROVE  /\ u[k] \in Jobs
             /\ u[k].kind = busy[k].kind /\ u[k].proc = busy[k].proc /\ u[k].made = busy[k].made
             /\ busy[k].kind = "thread" => u[k].thread = busy[k].thread /\ u[k].seen = busy[k].seen
             /\ k \notin ks => u[k].unseen = busy[k].unseen
             /\ k \in ks => u[k].unseen = busy[k].unseen \cup {t}
  <2>1. u[k] = IF k \in ks THEN [busy[k] EXCEPT !.unseen = @ \cup {t}] ELSE busy[k]
    BY DEF Unseen
  <2>2. busy[k] \in Jobs
    BY DEF BusyOK
  <2> HIDE DEF u
  <2>3. CASE k \notin ks
    BY <2>1, <2>2, <2>3
  <2>4. CASE k \in ks /\ busy[k] \in [kind : {"thread"}, thread : Thread, proc : Process, seen : 0 .. MaxItems,
                                      unseen : SUBSET Thread, made : SUBSET Items]
    BY <2>1, <2>4 DEF Jobs
  <2>5. CASE k \in ks /\ busy[k] \in [kind : {"active"}, proc : Process, unseen : SUBSET Thread,
                                      made : [Thread -> SUBSET Items]]
    BY <2>1, <2>5 DEF Jobs
  <2>. QED BY <2>2, <2>3, <2>4, <2>5 DEF Jobs
<1> HIDE DEF u
<1>3. u \in [DOMAIN busy -> Jobs]
  BY <1>1, <1>2
<1>. QED BY <1>2, <1>3 DEF u

\* What a synthesis is made of is of the right type.
LEMMA ThreadJobType ==
  ASSUME TypeOK, NEW t \in Thread, NEW proc \in Process, NEW n \in 0 .. MaxItems
  PROVE  ThreadJob(t, proc, n) \in Jobs
  BY DEF TypeOK, ThreadJob, Jobs, Newest, Items

LEMMA ActiveJobType ==
  ASSUME TypeOK, NEW proc \in Process
  PROVE  ActiveJob(proc) \in Jobs
<1>1. [t \in Thread |-> active[t] \cup IF t \in Heard THEN summary[t] ELSE {}] \in [Thread -> SUBSET Items]
  BY DEF TypeOK
<1>. QED BY <1>1 DEF ActiveJob, Jobs

LEMMA JobKinds ==
  ASSUME BusyOK, NEW k \in DOMAIN busy
  PROVE  /\ busy[k] \in Jobs
         /\ busy[k].proc \in Process
         /\ busy[k].unseen \in SUBSET Thread
         /\ busy[k].kind \in {"thread", "active"}
         /\ busy[k].kind = "thread" =>
              busy[k].thread \in Thread /\ busy[k].seen \in 0 .. MaxItems /\ busy[k].made \in SUBSET Items
         /\ busy[k].kind = "active" => busy[k].made \in [Thread -> SUBSET Items]
  BY DEF BusyOK, Jobs

\* The thread of a summary that is written comes first, once; no other thread
\* moves up.
LEMMA RecentTypes ==
  ASSUME TypeOK, NEW t \in Thread
  PROVE  /\ Upserted(t) \in Seq(Thread)
         /\ Cardinality(Range(Upserted(t))) = Len(Upserted(t))
         /\ \A j \in DOMAIN Upserted(t) : Upserted(t)[j] # t =>
              \E i \in DOMAIN recent : i <= j /\ recent[i] = Upserted(t)[j]
<1>1. recent \in Seq(Thread) /\ IsInjective(recent)
  BY InjectiveLength DEF TypeOK
<1> DEFINE u == Upserted(t)
           r == Those(recent, Thread \ {t})
<1>2. u \in Seq(Thread) /\ IsInjective(u)
  BY <1>1, MovedToFront DEF Upserted
<1>3. \A j \in 1 .. Len(r) : \E i \in {j, j + 1} : i \in 1 .. Len(recent) /\ recent[i] = r[j]
  <2>1. OnePlaceUp(recent, r)
    BY <1>1, OneLeftOut
  <2> HIDE DEF u, r
  <2>. QED BY <2>1 DEF OnePlaceUp
<1>4. r \in Seq(Thread) /\ u = <<t>> \o r
  BY <1>1, ThoseProperties DEF Upserted
<1> HIDE DEF u, r
<1>5. Cardinality(Range(u)) = Len(u)
  BY <1>2, InjectiveLength
<1>6. ASSUME NEW j \in DOMAIN u, u[j] # t
      PROVE  \E i \in DOMAIN recent : i <= j /\ recent[i] = u[j]
  <2>1. DOMAIN u = 1 .. Len(r) + 1 /\ Len(r) \in Nat
    BY <1>4
  <2>2. u[1] = t
    BY <1>4
  <2>3. j # 1
    BY <1>6, <2>2
  <2>4. j - 1 \in 1 .. Len(r) /\ u[j] = r[j - 1]
    BY <1>4, <2>1, <2>3
  <2>5. PICK i \in {j - 1, (j - 1) + 1} : i \in 1 .. Len(recent) /\ recent[i] = r[j - 1]
    BY <1>3, <2>4
  <2>6. i \in DOMAIN recent /\ i <= j
    BY <1>1, <2>1, <2>5
  <2>. QED BY <2>4, <2>5, <2>6
<1>. QED BY <1>2, <1>5, <1>6 DEF u

-----------------------------------------------------------------------------
(* What each step does to the syntheses. *)

\* What a completed run does to the syntheses of the threads.
LEMMA CompleteCases ==
  ASSUME TypeOK, BusyOK, NEW t \in Thread, NEW proc \in Process, Complete(t, proc)
  PROVE  /\ BusyOK'
         /\ UNCHANGED <<summary, mark, recent, dirty, active, emitted, live, faults, lapsed, recovery>>
         /\ \E n \in 1 .. MaxItems :
              /\ n > items[t] /\ items' = [items EXCEPT ![t] = n]
              /\ \/ Begun(Unseen(ThreadJobs(t), t), ThreadJob(t, proc, n)) /\ behind' = behind
                 \/ busy' = Unseen(ThreadJobs(t), t) /\ behind' = behind \cup {t}
<1>1. PICK n \in items[t] + 1 .. MaxItems :
        /\ items' = [items EXCEPT ![t] = n]
        /\ \/ busy' = With(Unseen(ThreadJobs(t), t), Fresh, ThreadJob(t, proc, n)) /\ behind' = behind
           \/ busy' = Unseen(ThreadJobs(t), t) /\ behind' = behind \cup {t}
  BY DEF Complete
<1>2. n \in 1 .. MaxItems /\ n > items[t] /\ n \in 0 .. MaxItems
  BY MemoryBounds DEF TypeOK
<1>3. ThreadJob(t, proc, n) \in Jobs
  BY <1>2, ThreadJobType
<1> DEFINE jobs == Unseen(ThreadJobs(t), t)
           job == ThreadJob(t, proc, n)
<1>4. jobs \in [DOMAIN busy -> Jobs]
  BY UnseenProperties
<1>5. DOMAIN busy \subseteq 1 .. MaxBusy /\ Cardinality(DOMAIN busy) < MaxBusy
  BY DEF Complete, TypeOK
<1>6. UNCHANGED <<summary, mark, recent, dirty, active, emitted, live, faults, lapsed, recovery>>
  BY DEF Complete, storeVars
<1>7. busy' = jobs => BusyOK'
  BY <1>4 DEF BusyOK
<1> HIDE DEF jobs, job
<1>8. busy' = With(jobs, Fresh, job) => BusyOK' /\ Begun(jobs, job)
  BY <1>3, <1>4, <1>5, Starts DEF job
<1>. QED BY <1>1, <1>2, <1>6, <1>7, <1>8 DEF jobs, job

\* What a summary that is written does.
LEMMA DoneCases ==
  ASSUME TypeOK, BusyOK, NEW k \in DOMAIN busy, ThreadDone(k)
  PROVE  LET t == busy[k].thread
         IN  /\ BusyOK'
             /\ t \in Thread /\ k \in ThreadJobs(t)
             /\ summary' = [summary EXCEPT ![t] = busy[k].made]
             /\ mark' = [mark EXCEPT ![t] = busy[k].seen]
             /\ recent' = Upserted(t)
             /\ emitted' = emitted \cup {<<busy[k].proc, t>>}
             /\ behind' = IF t \in busy[k].unseen THEN behind \cup {t} ELSE behind \ {t}
             /\ UNCHANGED <<items, dirty, active, live, faults, lapsed, recovery>>
             /\ DOMAIN busy' = DOMAIN busy \ {k}
             /\ \A j \in DOMAIN busy \ {k} : busy'[j] = Unseen(ActiveJobs, t)[j]
<1> DEFINE t == busy[k].thread
<1>1. t \in Thread /\ k \in ThreadJobs(t)
  BY JobKinds DEF ThreadDone, ThreadJobs
<1>2. Unseen(ActiveJobs, t) \in [DOMAIN busy -> Jobs] /\ busy' = Without(Unseen(ActiveJobs, t), {k})
  BY <1>1, UnseenProperties DEF ThreadDone
<1>3. /\ BusyOK' /\ DOMAIN busy' = DOMAIN busy \ {k}
      /\ \A j \in DOMAIN busy \ {k} : busy'[j] = Unseen(ActiveJobs, t)[j]
  BY <1>2, Ends
<1>. QED BY <1>1, <1>3 DEF ThreadDone, WriteSummary

\* What a synthesis that ends without a summary leaves.
LEMMA OverCases ==
  ASSUME BusyOK, NEW k \in DOMAIN busy, ThreadFails(k) \/ ActiveDone(k) \/ ActiveFails(k)
  PROVE  /\ BusyOK'
         /\ UNCHANGED <<items, summary, mark, recent, emitted, live, faults, recovery>>
         /\ DOMAIN busy' = DOMAIN busy \ {k}
         /\ \A j \in DOMAIN busy \ {k} : busy'[j] = busy[j]
<1>1. busy' = Without(busy, {k}) /\ busy \in [DOMAIN busy -> Jobs]
  BY DEF ThreadFails, ActiveDone, ActiveFails, BusyOK
<1>2. /\ BusyOK' /\ DOMAIN busy' = DOMAIN busy \ {k}
      /\ \A j \in DOMAIN busy \ {k} : busy'[j] = busy[j]
  BY <1>1, Ends
<1>. QED BY <1>2 DEF ThreadFails, ActiveDone, ActiveFails, storeVars

\* What a process takes with it.
LEMMA GoneCases ==
  ASSUME BusyOK, NEW proc \in Process, ProcessEnds(proc)
  PROVE  LET gone == {k \in DOMAIN busy : busy[k].proc = proc}
         IN  /\ BusyOK'
             /\ UNCHANGED <<items, summary, mark, recent, active, dirty>>
             /\ DOMAIN busy' = DOMAIN busy \ gone
             /\ \A j \in DOMAIN busy \ gone : busy'[j] = busy[j]
             /\ behind' = behind \cup Latest(gone)
<1> DEFINE gone == {k \in DOMAIN busy : busy[k].proc = proc}
<1>1. busy' = Without(busy, gone) /\ busy \in [DOMAIN busy -> Jobs]
  BY DEF ProcessEnds, BusyOK
<1>2. /\ BusyOK' /\ DOMAIN busy' = DOMAIN busy \ gone
      /\ \A j \in DOMAIN busy \ gone : busy'[j] = busy[j]
  BY <1>1, Ends
<1>. QED BY <1>2 DEF ProcessEnds, storeVars

\* What becomes of an event for the active memory: a synthesis starts, the
\* debounce holds it back, or it does not come to the mark.
LEMMA DispatchCases ==
  ASSUME TypeOK, BusyOK, NEW proc \in Process, NEW ts, Dispatch(proc, ts)
  PROVE  /\ BusyOK'
         /\ UNCHANGED <<items, summary, mark, recent, active, behind>>
         /\ \/ dirty' = TRUE /\ lapsed' = lapsed /\ Begun(busy, ActiveJob(proc))
            \/ dirty' = TRUE /\ lapsed' = lapsed /\ busy' = busy
            \/ dirty' = dirty /\ lapsed' = lapsed \cup ts /\ busy' = busy
<1>1. /\ DOMAIN busy \subseteq 1 .. MaxBusy /\ Cardinality(DOMAIN busy) < MaxBusy
      /\ UNCHANGED <<items, summary, mark, recent, active, behind>>
  BY DEF Dispatch, TypeOK
<1>2. ActiveJob(proc) \in Jobs /\ busy \in [DOMAIN busy -> Jobs]
  BY ActiveJobType DEF BusyOK
<1>3. CASE Synthesize(proc)
  <2>1. BusyOK' /\ Begun(busy, ActiveJob(proc))
    BY <1>1, <1>2, <1>3, Starts DEF Synthesize
  <2>. QED BY <1>1, <1>3, <2>1 DEF Synthesize
<1>4. busy' = busy => BusyOK'
  BY DEF BusyOK
<1>5. CASE HeldBack
  BY <1>1, <1>4, <1>5 DEF HeldBack
<1>6. CASE Lapses(ts)
  BY <1>1, <1>4, <1>6 DEF Lapses
<1>. QED BY <1>3, <1>5, <1>6 DEF Dispatch

\* A dispatch in a process that lives keeps the types.
LEMMA DispatchTypes ==
  ASSUME TypeOK, BusyOK, NEW proc \in Process, NEW ts \in SUBSET Thread, Dispatch(proc, ts),
         live \subseteq live', proc \in live'
  PROVE  /\ DOMAIN busy' \subseteq 1 .. MaxBusy
         /\ \A k \in DOMAIN busy' : busy'[k].proc \in live'
         /\ dirty' \in BOOLEAN /\ lapsed' \subseteq Thread
<1>1. CASE dirty' = TRUE /\ lapsed' = lapsed /\ Begun(busy, ActiveJob(proc))
  <2>1. ActiveJob(proc).proc = proc
    BY DEF ActiveJob
  <2>. QED BY <1>1, <2>1 DEF Begun, TypeOK
<1>2. CASE busy' = busy /\ dirty' \in {TRUE, dirty} /\ lapsed' \in {lapsed, lapsed \cup ts}
  BY <1>2 DEF TypeOK
<1>. QED BY <1>1, <1>2, DispatchCases

LEMMA InitTypes == Init => TypeOK /\ BusyOK
<1> SUFFICES ASSUME Init PROVE TypeOK /\ BusyOK
  OBVIOUS
<1>1. /\ items \in [Thread -> 0 .. MaxItems] /\ mark \in [Thread -> 0 .. MaxItems]
      /\ faults \in 0 .. MaxFaults
  BY MemoryBounds DEF Init
<1>2. recent \in Seq(Thread) /\ Cardinality(Range(recent)) = Len(recent)
  <2>1. <<>> \in Seq(Thread) /\ Len(<<>>) = 0 /\ Range(<<>>) = {}
    BY DEF Range
  <2>. QED BY <2>1, FS_EmptySet DEF Init
<1>3. DOMAIN busy = {} /\ BusyOK
  BY DEF Init, BusyOK
<1>. QED BY <1>1, <1>2, <1>3 DEF Init, TypeOK

LEMMA TypeStep == TypeOK /\ BusyOK /\ [Next]_vars => TypeOK' /\ BusyOK'
<1> SUFFICES ASSUME TypeOK, BusyOK, [Next]_vars PROVE TypeOK' /\ BusyOK'
  OBVIOUS
<1>1. ASSUME NEW t \in Thread, NEW proc \in Process, Complete(t, proc) PROVE TypeOK' /\ BusyOK'
  <2> DEFINE jobs == Unseen(ThreadJobs(t), t)
  <2>1. PICK n \in 1 .. MaxItems :
          /\ items' = [items EXCEPT ![t] = n]
          /\ \/ Begun(jobs, ThreadJob(t, proc, n)) /\ behind' = behind
             \/ busy' = jobs /\ behind' = behind \cup {t}
    BY <1>1, CompleteCases
  <2>2. BusyOK' /\ UNCHANGED <<summary, mark, recent, dirty, active, emitted, live, faults, lapsed, recovery>>
    BY <1>1, CompleteCases
  <2>3. items' \in [Thread -> 0 .. MaxItems] /\ behind' \subseteq Thread
    BY <2>1, MemoryBounds DEF TypeOK
  <2>4. DOMAIN jobs = DOMAIN busy /\ \A k \in DOMAIN busy : jobs[k].proc = busy[k].proc
    BY UnseenProperties
  <2>5. ThreadJob(t, proc, n).proc = proc /\ proc \in live
    BY <1>1 DEF ThreadJob, Complete
  <2> HIDE DEF jobs
  <2>6. DOMAIN busy' \subseteq 1 .. MaxBusy /\ \A k \in DOMAIN busy' : busy'[k].proc \in live
    BY <2>1, <2>4, <2>5 DEF Begun, TypeOK
  <2>. QED BY <2>2, <2>3, <2>6 DEF TypeOK
<1>2. ASSUME NEW k \in DOMAIN busy, ThreadDone(k) PROVE TypeOK' /\ BusyOK'
  <2> DEFINE t == busy[k].thread
  <2>1. /\ BusyOK' /\ t \in Thread
        /\ summary' = [summary EXCEPT ![t] = busy[k].made]
        /\ mark' = [mark EXCEPT ![t] = busy[k].seen]
        /\ recent' = Upserted(t)
        /\ emitted' = emitted \cup {<<busy[k].proc, t>>}
        /\ behind' = IF t \in busy[k].unseen THEN behind \cup {t} ELSE behind \ {t}
        /\ UNCHANGED <<items, dirty, active, live, faults, lapsed, recovery>>
    BY <1>2, DoneCases
  <2>2. /\ DOMAIN busy' = DOMAIN busy \ {k}
        /\ \A j \in DOMAIN busy \ {k} : busy'[j] = Unseen(ActiveJobs, t)[j]
    BY <1>2, DoneCases
  <2>3. busy[k].seen \in 0 .. MaxItems /\ busy[k].made \in SUBSET Items /\ busy[k].proc \in live
    BY <1>2, JobKinds DEF ThreadDone, TypeOK
  <2>4. \A j \in DOMAIN busy : Unseen(ActiveJobs, t)[j].proc = busy[j].proc
    BY <2>1, UnseenProperties
  <2>5. recent' \in Seq(Thread) /\ Cardinality(Range(recent')) = Len(recent')
    BY <2>1, RecentTypes
  <2> HIDE DEF t
  <2>6. /\ mark' \in [Thread -> 0 .. MaxItems] /\ summary' \in [Thread -> SUBSET Items]
        /\ emitted' \subseteq live \X Thread /\ behind' \subseteq Thread
    BY <2>1, <2>3 DEF TypeOK
  <2>7. DOMAIN busy' \subseteq 1 .. MaxBusy /\ \A j \in DOMAIN busy' : busy'[j].proc \in live'
    BY <2>1, <2>2, <2>4 DEF TypeOK
  <2>. QED BY <2>1, <2>5, <2>6, <2>7 DEF TypeOK
<1>3. ASSUME NEW k \in DOMAIN busy, ThreadFails(k) \/ ActiveDone(k) \/ ActiveFails(k) PROVE TypeOK' /\ BusyOK'
  <2>1. /\ BusyOK' /\ DOMAIN busy' = DOMAIN busy \ {k}
        /\ \A j \in DOMAIN busy \ {k} : busy'[j] = busy[j]
        /\ UNCHANGED <<items, summary, mark, recent, emitted, live, faults, recovery>>
    BY <1>3, OverCases
  <2>2. /\ busy[k].unseen \subseteq Thread
        /\ busy[k].kind = "active" => busy[k].made \in [Thread -> SUBSET Items]
        /\ Latest({k}) \subseteq Thread
    BY JobKinds DEF Latest
  <2>3. dirty' \in BOOLEAN /\ active' \in [Thread -> SUBSET Items] /\ behind' \subseteq Thread /\ lapsed' \subseteq Thread
    <3>1. CASE ThreadFails(k)
      BY <2>2, <3>1 DEF ThreadFails, TypeOK, storeVars
    <3>2. CASE ActiveDone(k)
      BY <2>2, <3>2 DEF ActiveDone, TypeOK
    <3>3. CASE ActiveFails(k)
      BY <2>2, <3>3 DEF ActiveFails, TypeOK
    <3>. QED BY <1>3, <3>1, <3>2, <3>3
  <2>. QED BY <2>1, <2>3 DEF TypeOK
<1>4. ASSUME NEW proc \in Process, NEW t \in Thread, ActiveStart(proc, t) PROVE TypeOK' /\ BusyOK'
  <2>1. Dispatch(proc, {t}) /\ proc \in live /\ live' = live
    BY <1>4 DEF ActiveStart, TypeOK
  <2>2. /\ BusyOK' /\ UNCHANGED <<items, summary, mark, recent, active, behind>>
        /\ DOMAIN busy' \subseteq 1 .. MaxBusy /\ dirty' \in BOOLEAN /\ lapsed' \subseteq Thread
        /\ \A k \in DOMAIN busy' : busy'[k].proc \in live'
    BY <2>1, DispatchCases, DispatchTypes
  <2>3. emitted' \subseteq live' \X Thread /\ UNCHANGED <<faults, recovery>>
    BY <1>4 DEF ActiveStart, TypeOK
  <2>. QED BY <2>1, <2>2, <2>3 DEF TypeOK
<1>5. ASSUME NEW proc \in Process, ProcessEnds(proc) PROVE TypeOK' /\ BusyOK'
  <2> DEFINE gone == {k \in DOMAIN busy : busy[k].proc = proc}
  <2>1. /\ BusyOK' /\ DOMAIN busy' = DOMAIN busy \ gone
        /\ \A j \in DOMAIN busy \ gone : busy'[j] = busy[j]
        /\ UNCHANGED <<items, summary, mark, recent, active, dirty>>
        /\ behind' = behind \cup Latest(gone)
    BY <1>5, GoneCases
  <2>2. \A k \in DOMAIN busy' : busy'[k].proc \in live'
    BY <1>5, <2>1 DEF ProcessEnds, TypeOK
  <2>3. emitted' \subseteq live' \X Thread /\ live' \subseteq Process
    BY <1>5 DEF ProcessEnds, TypeOK
  <2>4. faults' \in 0 .. MaxFaults
    <3>1. /\ faults \in 0 .. MaxFaults /\ faults < MaxFaults /\ faults' = faults + 1
          /\ MaxFaults \in Nat
      BY <1>5, MemoryBounds DEF ProcessEnds, TypeOK
    <3>. QED BY <3>1
  <2>5. behind' \subseteq Thread
    BY <2>1, JobKinds DEF Latest, TypeOK
  <2>6. lapsed' \subseteq Thread /\ recovery' \in {"none", "begun", "passed"}
    BY <1>5 DEF ProcessEnds, TypeOK
  <2>. QED BY <2>1, <2>2, <2>3, <2>4, <2>5, <2>6 DEF TypeOK
<1>6. CASE ChatStarts
  BY <1>6 DEF ChatStarts, TypeOK, BusyOK, storeVars, lossVars, Process
<1>7. CASE GatewayStarts
  <2>1. live' = live \cup {"gateway"} /\ "gateway" \in Process /\ UNCHANGED <<emitted, faults>>
    BY <1>7 DEF GatewayStarts, Process
  <2>2. CASE dirty
    <3>1. Dispatch("gateway", {}) /\ recovery' \in {"none", "begun", "passed"}
      BY <1>7, <2>2 DEF GatewayStarts
    <3>2. /\ BusyOK' /\ UNCHANGED <<items, summary, mark, recent, active, behind>>
          /\ DOMAIN busy' \subseteq 1 .. MaxBusy /\ dirty' \in BOOLEAN /\ lapsed' \subseteq Thread
          /\ \A k \in DOMAIN busy' : busy'[k].proc \in live'
      BY <2>1, <3>1, DispatchCases, DispatchTypes
    <3>. QED BY <2>1, <3>1, <3>2 DEF TypeOK
  <2>3. CASE ~dirty
    BY <1>7, <2>1, <2>3 DEF GatewayStarts, TypeOK, BusyOK, storeVars, lossVars
  <2>. QED BY <2>2, <2>3
<1>8. CASE UNCHANGED vars
  BY <1>8 DEF vars, storeVars, lossVars, TypeOK, BusyOK
<1>. QED BY <1>1, <1>2, <1>3, <1>4, <1>5, <1>6, <1>7, <1>8 DEF Next, HookStep

\* The types of TypeOK hold for any threads, hooks and bounds.
THEOREM TypeCorrect == Spec => []TypeOK
<1>1. TypeOK /\ BusyOK /\ [Next]_vars => (TypeOK /\ BusyOK)'
  BY TypeStep
<1>. QED BY InitTypes, <1>1, PTL DEF Spec

-----------------------------------------------------------------------------
(* Summaries and their watermarks. *)

\* Every step but these two leaves the items, the summaries and their marks
\* alone, and starts no synthesis of a thread.
LEMMA OtherSteps ==
  ASSUME TypeOK, BusyOK, [Next]_vars,
         ~ \E t \in Thread, proc \in Process : Complete(t, proc),
         ~ \E k \in DOMAIN busy : ThreadDone(k)
  PROVE  /\ UNCHANGED <<items, summary, mark, recent>>
         /\ \A t \in Thread : \A k \in ThreadJobs(t)' : k \in ThreadJobs(t) /\ busy'[k] = busy[k]
<1> DEFINE Kept == \A k \in DOMAIN busy' : busy'[k].kind = "active" \/ (k \in DOMAIN busy /\ busy'[k] = busy[k])
<1>1. SUFFICES UNCHANGED <<items, summary, mark, recent>> /\ Kept
  BY DEF ThreadJobs
<1>2. ASSUME NEW k \in DOMAIN busy, ThreadFails(k) \/ ActiveDone(k) \/ ActiveFails(k)
      PROVE UNCHANGED <<items, summary, mark, recent>> /\ Kept
  BY <1>2, OverCases
<1>3. ASSUME NEW proc \in Process, NEW ts, Dispatch(proc, ts)
      PROVE UNCHANGED <<items, summary, mark, recent>> /\ Kept
  <2>1. ActiveJob(proc).kind = "active"
    BY DEF ActiveJob
  <2>. QED BY <1>3, <2>1, DispatchCases DEF Begun
<1>4. ASSUME NEW proc \in Process, ProcessEnds(proc)
      PROVE UNCHANGED <<items, summary, mark, recent>> /\ Kept
  BY <1>4, GoneCases
<1>5. CASE ChatStarts \/ UNCHANGED vars
  BY <1>5 DEF ChatStarts, vars, storeVars
<1>6. CASE GatewayStarts
  BY <1>3, <1>6 DEF GatewayStarts, Process, storeVars
<1>. QED BY <1>2, <1>3, <1>4, <1>5, <1>6 DEF Next, HookStep, ActiveStart

\* The syntheses of the threads after a run of thread t is completed: the one
\* that starts, and those there were.
After(t, job) ==
  \A u \in Thread : \A k \in ThreadJobs(u)' :
    \/ u = t /\ busy'[k] = job
    \/ /\ k \in ThreadJobs(u) /\ busy'[k].seen = busy[k].seen /\ busy'[k].made = busy[k].made
       /\ busy'[k].unseen = IF u = t THEN busy[k].unseen \cup {t} ELSE busy[k].unseen

LEMMA ThreadJobsAfter ==
  ASSUME BusyOK, NEW t \in Thread, NEW proc, NEW n,
         \/ Begun(Unseen(ThreadJobs(t), t), ThreadJob(t, proc, n))
         \/ busy' = Unseen(ThreadJobs(t), t)
  PROVE  After(t, ThreadJob(t, proc, n))
<1> DEFINE jobs == Unseen(ThreadJobs(t), t)
<1>1. DOMAIN jobs = DOMAIN busy
  BY UnseenProperties
<1>2. ASSUME NEW u \in Thread, NEW k \in DOMAIN busy, jobs[k].kind = "thread", jobs[k].thread = u
      PROVE  /\ k \in ThreadJobs(u) /\ jobs[k].seen = busy[k].seen /\ jobs[k].made = busy[k].made
             /\ jobs[k].unseen = IF u = t THEN busy[k].unseen \cup {t} ELSE busy[k].unseen
  <2>1. busy[k].kind = "thread" /\ busy[k].thread = u
    BY <1>2, UnseenProperties
  <2>2. k \in ThreadJobs(u) /\ (k \in ThreadJobs(t) <=> u = t)
    BY <2>1 DEF ThreadJobs
  <2>3. jobs[k].seen = busy[k].seen /\ jobs[k].made = busy[k].made
    BY <2>1, UnseenProperties
  <2>4. /\ k \notin ThreadJobs(t) => jobs[k].unseen = busy[k].unseen
        /\ k \in ThreadJobs(t) => jobs[k].unseen = busy[k].unseen \cup {t}
    BY UnseenProperties
  <2> HIDE DEF jobs
  <2>. QED BY <2>2, <2>3, <2>4
<1>3. ThreadJob(t, proc, n).thread = t
  BY DEF ThreadJob
<1>4. Begun(jobs, ThreadJob(t, proc, n)) \/ busy' = jobs
  OBVIOUS
<1> HIDE DEF jobs
<1> SUFFICES ASSUME NEW u \in Thread, NEW k \in ThreadJobs(u)'
             PROVE  \/ u = t /\ busy'[k] = ThreadJob(t, proc, n)
                    \/ /\ k \in ThreadJobs(u) /\ busy'[k].seen = busy[k].seen /\ busy'[k].made = busy[k].made
                       /\ busy'[k].unseen = IF u = t THEN busy[k].unseen \cup {t} ELSE busy[k].unseen
  BY DEF After
<1>5. k \in DOMAIN busy' /\ busy'[k].kind = "thread" /\ busy'[k].thread = u
  BY DEF ThreadJobs
<1>6. \/ busy'[k] = ThreadJob(t, proc, n)
      \/ k \in DOMAIN busy /\ busy'[k] = jobs[k]
  BY <1>1, <1>4, <1>5 DEF Begun
<1>. QED BY <1>2, <1>3, <1>5, <1>6

\* A summary that is written leaves the other syntheses of threads alone.
LEMMA DoneThreadJobs ==
  ASSUME TypeOK, BusyOK, NEW k \in DOMAIN busy, ThreadDone(k)
  PROVE  \A u \in Thread :
           /\ ThreadJobs(u)' = ThreadJobs(u) \ {k}
           /\ \A j \in ThreadJobs(u)' : busy'[j] = busy[j]
<1> DEFINE jobs == Unseen(ActiveJobs, busy[k].thread)
<1>1. /\ busy[k].thread \in Thread /\ DOMAIN busy' = DOMAIN busy \ {k}
      /\ \A j \in DOMAIN busy \ {k} : busy'[j] = jobs[j]
  BY DoneCases
<1>2. ASSUME NEW j \in DOMAIN busy
      PROVE  /\ jobs[j].kind = busy[j].kind
             /\ busy[j].kind = "thread" => jobs[j] = busy[j]
  <2>1. busy[j].kind = "thread" => j \notin ActiveJobs
    BY DEF ActiveJobs
  <2>2. j \notin ActiveJobs => jobs[j] = busy[j]
    BY DEF Unseen
  <2>. QED BY <1>1, <2>1, <2>2, UnseenProperties
<1> HIDE DEF jobs
<1>. QED BY <1>1, <1>2 DEF ThreadJobs

FitInv == TypeOK /\ BusyOK /\ JobsFit /\ SummaryFitsMark

\* What a synthesis makes of a good summary and what is new fits what it saw.
LEMMA MadeFits ==
  ASSUME TypeOK, NEW t \in Thread, NEW proc, NEW n \in 0 .. MaxItems, mark[t] <= n,
         Newest(MaxDeltaItems, 0, mark[t]) \subseteq summary[t],
         \A i \in summary[t] : i <= mark[t]
  PROVE  /\ Newest(MaxDeltaItems, 0, n) \subseteq ThreadJob(t, proc, n).made
         /\ \A i \in ThreadJob(t, proc, n).made : i <= n
<1> DEFINE made == summary[t] \cup Newest(MaxDeltaItems, mark[t], n)
<1>1. ThreadJob(t, proc, n).made = made
  BY DEF ThreadJob
<1>2. mark[t] \in 0 .. MaxItems /\ MaxDeltaItems \in Nat /\ MaxItems \in Nat /\ summary[t] \subseteq Items
  BY MemoryBounds DEF TypeOK
<1>3. Newest(MaxDeltaItems, 0, n) \subseteq made
  BY <1>2 DEF Newest, Items
<1>4. \A i \in made : i <= n
  BY <1>2 DEF Newest, Items
<1>. QED BY <1>1, <1>3, <1>4

LEMMA FitStep == FitInv /\ [Next]_vars => FitInv'
<1> SUFFICES ASSUME FitInv, [Next]_vars PROVE FitInv'
  OBVIOUS
<1> USE DEF FitInv
<1>1. TypeOK' /\ BusyOK'
  BY TypeStep
<1>2. ASSUME NEW t \in Thread, NEW proc \in Process, Complete(t, proc)
      PROVE JobsFit' /\ SummaryFitsMark'
  <2>1. PICK n \in 1 .. MaxItems :
          /\ n > items[t] /\ items' = [items EXCEPT ![t] = n]
          /\ UNCHANGED <<summary, mark>>
          /\ \/ Begun(Unseen(ThreadJobs(t), t), ThreadJob(t, proc, n))
             \/ busy' = Unseen(ThreadJobs(t), t)
    BY <1>2, CompleteCases
  <2>2. \A u \in Thread : items[u] \in Nat /\ items'[u] \in Nat /\ mark[u] \in Nat /\ items[u] <= items'[u]
    BY <2>1, MemoryBounds DEF TypeOK
  <2>3. SummaryFitsMark' /\ \A u \in Thread : mark'[u] <= items'[u]
    BY <2>1, <2>2 DEF SummaryFitsMark, JobsFit
  <2>4. After(t, ThreadJob(t, proc, n))
    BY <2>1, ThreadJobsAfter
  <2>5. ASSUME NEW u \in Thread, NEW k \in ThreadJobs(u)'
        PROVE /\ busy'[k].seen <= items'[u]
              /\ Newest(MaxDeltaItems, 0, busy'[k].seen) \subseteq busy'[k].made
              /\ \A i \in busy'[k].made : i <= busy'[k].seen
    <3>1. CASE k \in ThreadJobs(u) /\ busy'[k].seen = busy[k].seen /\ busy'[k].made = busy[k].made
      <4>1. busy[k].seen \in Nat /\ busy[k].seen <= items[u]
        BY <3>1, JobKinds DEF JobsFit, ThreadJobs
      <4>. QED BY <3>1, <4>1, <2>2 DEF JobsFit
    <3>2. CASE u = t /\ busy'[k] = ThreadJob(t, proc, n)
      <4>1. busy'[k].seen = n
        BY <3>2 DEF ThreadJob
      <4>2. items'[t] = n /\ n \in 0 .. MaxItems /\ mark[t] <= n
        BY <2>1, <2>2, MemoryBounds DEF JobsFit, TypeOK
      <4>. QED BY <3>2, <4>1, <4>2, MadeFits DEF SummaryFitsMark
    <3>. QED BY <2>5, <2>4, <3>1, <3>2 DEF After
  <2>. QED BY <2>3, <2>5 DEF JobsFit
<1>3. ASSUME NEW k \in DOMAIN busy, ThreadDone(k) PROVE JobsFit' /\ SummaryFitsMark'
  <2> DEFINE t == busy[k].thread
  <2>1. /\ t \in Thread /\ k \in ThreadJobs(t)
        /\ summary' = [summary EXCEPT ![t] = busy[k].made]
        /\ mark' = [mark EXCEPT ![t] = busy[k].seen]
        /\ items' = items
    BY <1>3, DoneCases
  <2>2. /\ busy[k].seen <= items[t]
        /\ Newest(MaxDeltaItems, 0, busy[k].seen) \subseteq busy[k].made
        /\ \A i \in busy[k].made : i <= busy[k].seen
    BY <2>1 DEF JobsFit
  <2> HIDE DEF t
  <2>3. /\ summary'[t] = busy[k].made /\ mark'[t] = busy[k].seen
        /\ \A u \in Thread : u # t => summary'[u] = summary[u] /\ mark'[u] = mark[u]
    BY <2>1 DEF TypeOK
  <2>4. SummaryFitsMark' /\ \A u \in Thread : mark'[u] <= items'[u]
    BY <2>1, <2>2, <2>3 DEF SummaryFitsMark, JobsFit
  <2>5. \A u \in Thread : \A j \in ThreadJobs(u)' : j \in ThreadJobs(u) /\ busy'[j] = busy[j]
    BY <1>3, DoneThreadJobs
  <2>. QED BY <2>1, <2>4, <2>5 DEF JobsFit
<1>4. ASSUME ~ \E t \in Thread, proc \in Process : Complete(t, proc),
             ~ \E k \in DOMAIN busy : ThreadDone(k)
      PROVE JobsFit' /\ SummaryFitsMark'
  <2>1. /\ UNCHANGED <<items, summary, mark>>
        /\ \A t \in Thread : \A k \in ThreadJobs(t)' : k \in ThreadJobs(t) /\ busy'[k] = busy[k]
    BY <1>4, OtherSteps
  <2>. QED BY <2>1 DEF JobsFit, SummaryFitsMark
<1>. QED BY <1>1, <1>2, <1>3, <1>4

\* However syntheses of a thread overlap, fail or are lost with a process, a
\* summary is stored with the watermark it was made for (thread-memory-updater,
\* upsertThreadMemoryState).
THEOREM SummaryFitsMarkHolds == Spec => []SummaryFitsMark
<1>1. Init => FitInv
  <2> SUFFICES ASSUME Init PROVE JobsFit /\ SummaryFitsMark
    BY InitTypes DEF FitInv
  <2>1. Newest(MaxDeltaItems, 0, 0) = {}
    BY DEF Newest, Items
  <2>2. \A t \in Thread : ThreadJobs(t) = {} /\ mark[t] = 0 /\ items[t] = 0 /\ summary[t] = {}
    BY DEF Init, ThreadJobs
  <2>. QED BY <2>1, <2>2 DEF JobsFit, SummaryFitsMark
<1>2. FitInv /\ [Next]_vars => FitInv'
  BY FitStep
<1>3. FitInv => SummaryFitsMark
  BY DEF FitInv
<1>. QED BY <1>1, <1>2, <1>3, PTL DEF Spec

-----------------------------------------------------------------------------
(* Memories that are behind. *)

KeptInv == FitInv /\ ThreadsKept /\ JobsHear /\ PersonaKept

\* What ThreadsKept says of a thread after the step.
KeptAfter(u) ==
  /\ \A k \in ThreadJobs(u)' : u \in busy'[k].unseen \/ busy'[k].seen = items'[u]
  /\ \/ mark'[u] = items'[u]
     \/ u \in behind'
     \/ \E k \in ThreadJobs(u)' : busy'[k].seen = items'[u] /\ u \notin busy'[k].unseen

\* A run of another thread does not touch the syntheses of this one.
LEMMA ElsewhereKept ==
  ASSUME TypeOK, BusyOK, ThreadsKept, NEW t \in Thread, NEW proc \in Process, Complete(t, proc),
         NEW u \in Thread, u # t
  PROVE  KeptAfter(u)
<1> DEFINE jobs == Unseen(ThreadJobs(t), t)
<1>1. PICK n \in 1 .. MaxItems :
        /\ items' = [items EXCEPT ![t] = n]
        /\ \/ Begun(jobs, ThreadJob(t, proc, n)) /\ behind' = behind
           \/ busy' = jobs /\ behind' = behind \cup {t}
  BY CompleteCases
<1>2. mark' = mark /\ items'[u] = items[u]
  BY <1>1, CompleteCases DEF TypeOK
<1>3. DOMAIN jobs = DOMAIN busy /\ \A k \in DOMAIN busy : k \notin ThreadJobs(t) => jobs[k] = busy[k]
  BY DEF Unseen
<1>4. After(t, ThreadJob(t, proc, n))
  BY <1>1, ThreadJobsAfter
<1> HIDE DEF jobs
<1>5. \A k \in ThreadJobs(u) : k \in ThreadJobs(u)' /\ busy'[k] = busy[k]
  <2> TAKE k \in ThreadJobs(u)
  <2>1. k \in DOMAIN busy /\ k \notin ThreadJobs(t) /\ busy[k].kind = "thread" /\ busy[k].thread = u
    BY DEF ThreadJobs
  <2>2. k \in DOMAIN busy' /\ busy'[k] = busy[k]
    BY <1>1, <1>3, <2>1 DEF Begun
  <2>. QED BY <2>1, <2>2 DEF ThreadJobs
<1>6. \A k \in ThreadJobs(u)' : k \in ThreadJobs(u) /\ busy'[k].seen = busy[k].seen /\ busy'[k].unseen = busy[k].unseen
  BY <1>4 DEF After
<1>7. behind \subseteq behind'
  BY <1>1
<1>8. /\ \A k \in ThreadJobs(u) : u \in busy[k].unseen \/ busy[k].seen = items[u]
      /\ \/ mark[u] = items[u]
         \/ u \in behind
         \/ \E k \in ThreadJobs(u) : busy[k].seen = items[u] /\ u \notin busy[k].unseen
  BY DEF ThreadsKept
<1>9. \A k \in ThreadJobs(u)' : u \in busy'[k].unseen \/ busy'[k].seen = items'[u]
  BY <1>2, <1>6, <1>8
<1>10. \/ mark'[u] = items'[u]
       \/ u \in behind'
       \/ \E k \in ThreadJobs(u)' : busy'[k].seen = items'[u] /\ u \notin busy'[k].unseen
  BY <1>2, <1>5, <1>7, <1>8
<1>. QED BY <1>9, <1>10 DEF KeptAfter

\* The run's own thread: the synthesis that starts has seen it, and those that
\* were under way have not.
LEMMA CompletedKept ==
  ASSUME TypeOK, BusyOK, ThreadsKept, NEW t \in Thread, NEW proc \in Process, Complete(t, proc)
  PROVE  KeptAfter(t)
<1> DEFINE jobs == Unseen(ThreadJobs(t), t)
<1>1. PICK n \in 1 .. MaxItems :
        /\ items' = [items EXCEPT ![t] = n]
        /\ \/ Begun(jobs, ThreadJob(t, proc, n)) /\ behind' = behind
           \/ busy' = jobs /\ behind' = behind \cup {t}
  BY CompleteCases
<1>2. items'[t] = n
  BY <1>1 DEF TypeOK
<1>3. After(t, ThreadJob(t, proc, n))
  BY <1>1, ThreadJobsAfter
<1>4. /\ ThreadJob(t, proc, n).kind = "thread" /\ ThreadJob(t, proc, n).thread = t
      /\ ThreadJob(t, proc, n).seen = n /\ ThreadJob(t, proc, n).unseen = {}
  BY DEF ThreadJob
<1> HIDE DEF jobs
<1>5. \A k \in ThreadJobs(t)' : t \in busy'[k].unseen \/ busy'[k].seen = items'[t]
  BY <1>2, <1>3, <1>4 DEF After
<1>6. CASE Begun(jobs, ThreadJob(t, proc, n))
  <2>1. PICK m \in (1 .. MaxBusy) \ DOMAIN busy :
          DOMAIN busy' = DOMAIN busy \cup {m} /\ busy'[m] = ThreadJob(t, proc, n)
    BY <1>6 DEF Begun
  <2>2. m \in ThreadJobs(t)'
    BY <1>4, <2>1 DEF ThreadJobs
  <2>3. busy'[m].seen = items'[t] /\ t \notin busy'[m].unseen
    BY <1>2, <1>4, <2>1
  <2>. QED BY <1>5, <2>2, <2>3 DEF KeptAfter
<1>7. CASE behind' = behind \cup {t}
  BY <1>5, <1>7 DEF KeptAfter
<1>. QED BY <1>1, <1>6, <1>7

\* A summary that is written has seen the last run, or its thread is behind.
LEMMA WrittenKept ==
  ASSUME TypeOK, BusyOK, ThreadsKept, NEW k \in DOMAIN busy, ThreadDone(k), NEW u \in Thread
  PROVE  KeptAfter(u)
<1> DEFINE t == busy[k].thread
<1>1. /\ t \in Thread /\ k \in ThreadJobs(t)
      /\ mark' = [mark EXCEPT ![t] = busy[k].seen]
      /\ behind' = IF t \in busy[k].unseen THEN behind \cup {t} ELSE behind \ {t}
      /\ items' = items
  BY DoneCases
<1>2. ThreadJobs(u)' = ThreadJobs(u) \ {k} /\ \A j \in ThreadJobs(u)' : busy'[j] = busy[j]
  BY DoneThreadJobs
<1>3. u # t => k \notin ThreadJobs(u)
  BY DEF ThreadJobs
<1>4. t \in busy[k].unseen \/ busy[k].seen = items[t]
  BY <1>1 DEF ThreadsKept
<1> HIDE DEF t
<1>5. /\ \A j \in ThreadJobs(u) : u \in busy[j].unseen \/ busy[j].seen = items[u]
      /\ \/ mark[u] = items[u]
         \/ u \in behind
         \/ \E j \in ThreadJobs(u) : busy[j].seen = items[u] /\ u \notin busy[j].unseen
  BY DEF ThreadsKept
<1>6. \A j \in ThreadJobs(u)' : u \in busy'[j].unseen \/ busy'[j].seen = items'[u]
  BY <1>1, <1>2, <1>5
<1>7. CASE u = t
  <2>1. mark'[t] = busy[k].seen
    BY <1>1 DEF TypeOK
  <2>. QED BY <1>1, <1>4, <1>6, <1>7, <2>1 DEF KeptAfter
<1>8. CASE u # t
  <2>1. mark'[u] = mark[u] /\ (u \in behind => u \in behind') /\ ThreadJobs(u)' = ThreadJobs(u)
    BY <1>1, <1>2, <1>3, <1>8 DEF TypeOK
  <2>. QED BY <1>1, <1>2, <1>5, <1>6, <2>1 DEF KeptAfter
<1>. QED BY <1>7, <1>8

\* The synthesis of a thread that goes with a step leaves its thread behind,
\* if it saw the last run.
LEMMA LostKept ==
  ASSUME ThreadsKept, NEW u \in Thread, UNCHANGED <<items, mark>>,
         \A k \in ThreadJobs(u)' : k \in ThreadJobs(u) /\ busy'[k] = busy[k],
         behind \subseteq behind',
         \A k \in ThreadJobs(u) \ ThreadJobs(u)' : u \in busy[k].unseen \/ u \in behind'
  PROVE  KeptAfter(u)
<1>1. /\ \A j \in ThreadJobs(u) : u \in busy[j].unseen \/ busy[j].seen = items[u]
      /\ \/ mark[u] = items[u]
         \/ u \in behind
         \/ \E j \in ThreadJobs(u) : busy[j].seen = items[u] /\ u \notin busy[j].unseen
  BY DEF ThreadsKept
<1>2. \A j \in ThreadJobs(u)' : u \in busy'[j].unseen \/ busy'[j].seen = items'[u]
  BY <1>1
<1>3. CASE \E j \in ThreadJobs(u) : busy[j].seen = items[u] /\ u \notin busy[j].unseen
  BY <1>2, <1>3 DEF KeptAfter
<1>. QED BY <1>1, <1>2, <1>3 DEF KeptAfter

\* No step but the two above takes a synthesis of a thread away, unless the
\* thread is behind then.
LEMMA OthersLose ==
  ASSUME TypeOK, BusyOK, [Next]_vars,
         ~ \E t \in Thread, proc \in Process : Complete(t, proc),
         ~ \E k \in DOMAIN busy : ThreadDone(k),
         NEW u \in Thread
  PROVE  /\ behind \subseteq behind'
         /\ \A k \in ThreadJobs(u) \ ThreadJobs(u)' : u \in busy[k].unseen \/ u \in behind'
<1> DEFINE Lost == /\ behind \subseteq behind'
                   /\ \A k \in ThreadJobs(u) \ ThreadJobs(u)' : u \in busy[k].unseen \/ u \in behind'
<1>1. ASSUME NEW k \in DOMAIN busy, ThreadFails(k) \/ ActiveDone(k) \/ ActiveFails(k) PROVE Lost
  <2>1. /\ DOMAIN busy' = DOMAIN busy \ {k}
        /\ \A j \in DOMAIN busy \ {k} : busy'[j] = busy[j]
    BY <1>1, OverCases
  <2>2. \A j \in ThreadJobs(u) \ ThreadJobs(u)' : j = k
    BY <2>1 DEF ThreadJobs
  <2>3. behind' = behind \cup Latest({k}) \/ (behind' = behind /\ busy[k].kind = "active")
    BY <1>1 DEF ThreadFails, ActiveDone, ActiveFails
  <2>4. k \in ThreadJobs(u) /\ u \notin busy[k].unseen => u \in Latest({k})
    BY DEF Latest, ThreadJobs
  <2>5. busy[k].kind = "active" => k \notin ThreadJobs(u)
    BY DEF ThreadJobs
  <2>. QED BY <2>2, <2>3, <2>4, <2>5
<1>2. ASSUME NEW proc \in Process, NEW ts, Dispatch(proc, ts) PROVE Lost
  <2>1. behind' = behind /\ (Begun(busy, ActiveJob(proc)) \/ busy' = busy)
    BY <1>2, DispatchCases
  <2>2. ThreadJobs(u) \subseteq ThreadJobs(u)'
    BY <2>1 DEF Begun, ThreadJobs
  <2>. QED BY <2>1, <2>2
<1>3. ASSUME NEW proc \in Process, ProcessEnds(proc) PROVE Lost
  <2> DEFINE gone == {k \in DOMAIN busy : busy[k].proc = proc}
  <2>1. /\ DOMAIN busy' = DOMAIN busy \ gone
        /\ \A j \in DOMAIN busy \ gone : busy'[j] = busy[j]
        /\ behind' = behind \cup Latest(gone)
    BY <1>3, GoneCases
  <2>2. \A k \in gone : k \in ThreadJobs(u) /\ u \notin busy[k].unseen => u \in Latest(gone)
    BY DEF Latest, ThreadJobs
  <2> HIDE DEF gone
  <2>3. \A k \in ThreadJobs(u) \ ThreadJobs(u)' : k \in gone
    BY <2>1 DEF ThreadJobs
  <2>. QED BY <2>1, <2>2, <2>3
<1>4. CASE ChatStarts \/ UNCHANGED vars
  BY <1>4 DEF ChatStarts, vars, lossVars, ThreadJobs
<1>5. CASE GatewayStarts
  <2>1. dirty => Lost
    BY <1>2, <1>5 DEF GatewayStarts, Process
  <2>2. ~dirty => Lost
    BY <1>5 DEF GatewayStarts, lossVars, ThreadJobs
  <2>. QED BY <2>1, <2>2
<1>. QED BY <1>1, <1>2, <1>3, <1>4, <1>5 DEF Next, HookStep, ActiveStart

LEMMA ThreadsStep == KeptInv /\ [Next]_vars => ThreadsKept'
<1> SUFFICES ASSUME KeptInv, [Next]_vars PROVE ThreadsKept'
  OBVIOUS
<1>1. TypeOK /\ BusyOK /\ ThreadsKept
  BY DEF KeptInv, FitInv
<1>2. \A u \in Thread : KeptAfter(u)
  <2> TAKE u \in Thread
  <2>1. ASSUME NEW t \in Thread, NEW proc \in Process, Complete(t, proc) PROVE KeptAfter(u)
    BY <1>1, <2>1, CompletedKept, ElsewhereKept
  <2>2. ASSUME NEW k \in DOMAIN busy, ThreadDone(k) PROVE KeptAfter(u)
    BY <1>1, <2>2, WrittenKept
  <2>3. CASE /\ ~ \E t \in Thread, proc \in Process : Complete(t, proc)
             /\ ~ \E k \in DOMAIN busy : ThreadDone(k)
    <3>1. /\ UNCHANGED <<items, mark>>
          /\ \A k \in ThreadJobs(u)' : k \in ThreadJobs(u) /\ busy'[k] = busy[k]
      BY <1>1, <2>3, OtherSteps
    <3>2. /\ behind \subseteq behind'
          /\ \A k \in ThreadJobs(u) \ ThreadJobs(u)' : u \in busy[k].unseen \/ u \in behind'
      BY <1>1, <2>3, OthersLose
    <3>. QED BY <1>1, <3>1, <3>2, LostKept
  <2>. QED BY <2>1, <2>2, <2>3
<1>. QED BY <1>2 DEF ThreadsKept, KeptAfter

-----------------------------------------------------------------------------

\* What JobsHear and PersonaKept say after the step.
HearAfter == /\ \A k \in ActiveJobs' : \A t \in Heard' : t \in busy'[k].unseen \/ summary'[t] \subseteq busy'[k].made[t]
             /\ \A t \in Heard' : \/ summary'[t] \subseteq active'[t]
                                  \/ dirty'
                                  \/ t \in lapsed'
                                  \/ \E proc \in Process : <<proc, t>> \in emitted'

\* When no summary is written and no synthesis of the persona starts, it is
\* enough that none is cleared away.
LEMMA StillHeard ==
  ASSUME JobsHear, PersonaKept, UNCHANGED <<summary, recent, active>>,
         \A k \in ActiveJobs' : k \in ActiveJobs /\ busy'[k].made = busy[k].made /\ busy'[k].unseen = busy[k].unseen,
         dirty => dirty', lapsed \subseteq lapsed',
         \A proc \in Process, t \in Thread :
           <<proc, t>> \in emitted => <<proc, t>> \in emitted' \/ dirty' \/ t \in lapsed',
         TypeOK
  PROVE  HearAfter
<1>1. Heard' = Heard /\ Heard \subseteq Thread
  BY DEF Heard, TypeOK
<1>2. \A k \in ActiveJobs' : \A t \in Heard' : t \in busy'[k].unseen \/ summary'[t] \subseteq busy'[k].made[t]
  BY <1>1 DEF JobsHear
<1>3. \A t \in Heard' : \/ summary'[t] \subseteq active'[t]
                        \/ dirty'
                        \/ t \in lapsed'
                        \/ \E proc \in Process : <<proc, t>> \in emitted'
  BY <1>1 DEF PersonaKept
<1>. QED BY <1>2, <1>3 DEF HearAfter

\* A synthesis of the persona that writes active.md has every summary but
\* those it did not see.
LEMMA OverwrittenHeard ==
  ASSUME TypeOK, JobsHear, NEW k \in ActiveJobs, UNCHANGED <<summary, recent>>,
         active' = busy[k].made, lapsed' = busy[k].unseen,
         \A j \in ActiveJobs' : j \in ActiveJobs /\ busy'[j] = busy[j]
  PROVE  HearAfter
<1>1. Heard' = Heard
  BY DEF Heard
<1>2. \A t \in Heard : t \in busy[k].unseen \/ summary[t] \subseteq busy[k].made[t]
  BY DEF JobsHear
<1>3. \A j \in ActiveJobs' : \A t \in Heard' : t \in busy'[j].unseen \/ summary'[t] \subseteq busy'[j].made[t]
  BY <1>1 DEF JobsHear
<1>. QED BY <1>1, <1>2, <1>3 DEF HearAfter

\* A summary that is written is emitted, and the syntheses of the persona
\* under way have not seen it; no other summary is taken that was not.
LEMMA WrittenHeard ==
  ASSUME TypeOK, BusyOK, JobsHear, PersonaKept, NEW k \in DOMAIN busy, ThreadDone(k)
  PROVE  HearAfter
<1> DEFINE t == busy[k].thread
<1>1. /\ t \in Thread
      /\ summary' = [summary EXCEPT ![t] = busy[k].made]
      /\ recent' = Upserted(t)
      /\ emitted' = emitted \cup {<<busy[k].proc, t>>}
      /\ UNCHANGED <<dirty, active, lapsed>>
      /\ DOMAIN busy' = DOMAIN busy \ {k}
      /\ \A j \in DOMAIN busy \ {k} : busy'[j] = Unseen(ActiveJobs, t)[j]
  BY DoneCases
<1>2. busy[k].proc \in Process
  BY JobKinds
<1> HIDE DEF t
<1>3. \A u \in Heard' : u \in Thread /\ (u # t => u \in Heard)
  <2> SUFFICES ASSUME NEW u \in Heard' PROVE u \in Thread /\ (u # t => u \in Heard)
    OBVIOUS
  <2>1. PICK j \in DOMAIN Upserted(t) : j <= RecentThreads /\ u = Upserted(t)[j]
    BY <1>1 DEF Heard
  <2>2. u \in Thread /\ (u # t => \E i \in DOMAIN recent : i <= j /\ recent[i] = u)
    BY <1>1, <2>1, RecentTypes
  <2>3. ASSUME u # t PROVE u \in Heard
    <3>1. PICK i \in DOMAIN recent : i <= j /\ recent[i] = u
      BY <2>2, <2>3
    <3>2. i \in Nat /\ j \in Nat /\ RecentThreads \in Nat
      <4>1. recent \in Seq(Thread) /\ Upserted(t) \in Seq(Thread)
        BY <1>1, RecentTypes DEF TypeOK
      <4>2. \A s \in Seq(Thread) : DOMAIN s \subseteq Nat
        OBVIOUS
      <4>3. i \in Nat /\ j \in Nat
        BY <2>1, <3>1, <4>1, <4>2
      <4>. QED BY <4>3, MemoryBounds
    <3>3. i <= RecentThreads
      BY <2>1, <3>1, <3>2
    <3>. QED BY <3>1, <3>3 DEF Heard
  <2>. QED BY <2>2, <2>3
<1>4. ASSUME NEW j \in ActiveJobs'
      PROVE  /\ j \in ActiveJobs /\ busy'[j].made = busy[j].made
             /\ busy'[j].unseen = busy[j].unseen \cup {t}
  <2>1. j \in DOMAIN busy /\ busy'[j] = Unseen(ActiveJobs, t)[j] /\ busy'[j].kind = "active"
    BY <1>1 DEF ActiveJobs
  <2>2. j \in ActiveJobs
    BY <1>1, <2>1, UnseenProperties DEF ActiveJobs
  <2>. QED BY <1>1, <2>1, <2>2, UnseenProperties
<1>5. \A u \in Thread : u # t => summary'[u] = summary[u]
  BY <1>1 DEF TypeOK
<1>6. ASSUME NEW j \in ActiveJobs', NEW u \in Heard'
      PROVE  u \in busy'[j].unseen \/ summary'[u] \subseteq busy'[j].made[u]
  <2>1. u # t => u \in busy[j].unseen \/ summary[u] \subseteq busy[j].made[u]
    BY <1>3, <1>4 DEF JobsHear
  <2>2. busy'[j].made = busy[j].made /\ busy'[j].unseen = busy[j].unseen \cup {t}
    BY <1>4
  <2>. QED BY <1>3, <1>5, <2>1, <2>2
<1>7. ASSUME NEW u \in Heard'
      PROVE  \/ summary'[u] \subseteq active'[u] \/ dirty' \/ u \in lapsed'
             \/ \E proc \in Process : <<proc, u>> \in emitted'
  <2>1. CASE u = t
    BY <1>1, <1>2, <2>1
  <2>2. CASE u # t
    BY <1>1, <1>3, <1>5, <2>2 DEF PersonaKept
  <2>. QED BY <2>1, <2>2
<1>. QED BY <1>6, <1>7 DEF HearAfter

\* An event that is dispatched marks the persona, or it lapses; the synthesis
\* that starts reads the summaries as they are.
LEMMA DispatchedHeard ==
  ASSUME TypeOK, BusyOK, JobsHear, PersonaKept, NEW proc \in Process, NEW ts, Dispatch(proc, ts),
         \A p \in Process, t \in Thread : <<p, t>> \in emitted => <<p, t>> \in emitted' \/ t \in ts
  PROVE  HearAfter
<1>1. /\ UNCHANGED <<summary, recent, active>>
      /\ \/ dirty' = TRUE /\ lapsed' = lapsed /\ Begun(busy, ActiveJob(proc))
         \/ dirty' = TRUE /\ lapsed' = lapsed /\ busy' = busy
         \/ dirty' = dirty /\ lapsed' = lapsed \cup ts /\ busy' = busy
  BY DispatchCases
<1>2. CASE busy' = busy
  <2>1. \A k \in ActiveJobs' : k \in ActiveJobs /\ busy'[k].made = busy[k].made /\ busy'[k].unseen = busy[k].unseen
    BY <1>2 DEF ActiveJobs
  <2>2. (dirty => dirty') /\ lapsed \subseteq lapsed' /\ (dirty' \/ ts \subseteq lapsed')
    BY <1>1
  <2>. QED BY <1>1, <2>1, <2>2, StillHeard
<1>3. CASE dirty' = TRUE /\ Begun(busy, ActiveJob(proc))
  <2>1. PICK n \in (1 .. MaxBusy) \ DOMAIN busy :
          /\ DOMAIN busy' = DOMAIN busy \cup {n}
          /\ busy'[n] = ActiveJob(proc)
          /\ \A k \in DOMAIN busy : busy'[k] = busy[k]
    BY <1>3 DEF Begun
  <2>2. Heard' = Heard /\ Heard \subseteq Thread
    BY <1>1 DEF Heard, TypeOK
  <2>3. \A t \in Heard : summary[t] \subseteq ActiveJob(proc).made[t]
    BY <2>2 DEF ActiveJob
  <2>4. \A k \in ActiveJobs' : k = n \/ (k \in ActiveJobs /\ busy'[k] = busy[k])
    BY <2>1 DEF ActiveJobs
  <2>5. \A k \in ActiveJobs : \A t \in Heard : t \in busy[k].unseen \/ summary[t] \subseteq busy[k].made[t]
    BY DEF JobsHear
  <2>6. \A k \in ActiveJobs' : \A t \in Heard' : t \in busy'[k].unseen \/ summary'[t] \subseteq busy'[k].made[t]
    BY <1>1, <2>1, <2>2, <2>3, <2>4, <2>5
  <2>. QED BY <1>3, <2>6 DEF HearAfter
<1>. QED BY <1>1, <1>2, <1>3

LEMMA HearStep == KeptInv /\ [Next]_vars => JobsHear' /\ PersonaKept'
<1> SUFFICES ASSUME KeptInv, [Next]_vars PROVE HearAfter
  BY DEF HearAfter, JobsHear, PersonaKept
<1>0. TypeOK /\ BusyOK /\ JobsHear /\ PersonaKept
  BY DEF KeptInv, FitInv
<1>1. ASSUME NEW t \in Thread, NEW proc \in Process, Complete(t, proc) PROVE HearAfter
  <2> DEFINE jobs == Unseen(ThreadJobs(t), t)
  <2>1. PICK n \in 1 .. MaxItems : Begun(jobs, ThreadJob(t, proc, n)) \/ busy' = jobs
    BY <1>0, <1>1, CompleteCases
  <2>2. UNCHANGED <<summary, recent, dirty, active, emitted, lapsed>>
    BY <1>0, <1>1, CompleteCases
  <2>3. ThreadJob(t, proc, n).kind = "thread"
    BY DEF ThreadJob
  <2>4. DOMAIN jobs = DOMAIN busy
        /\ \A k \in DOMAIN busy : jobs[k].kind = "active" => k \in ActiveJobs /\ jobs[k] = busy[k]
    <3>1. ASSUME NEW k \in DOMAIN busy, jobs[k].kind = "active" PROVE k \in ActiveJobs /\ jobs[k] = busy[k]
      <4>1. busy[k].kind = "active"
        BY <1>0, <3>1, UnseenProperties
      <4>2. k \notin ThreadJobs(t)
        BY <4>1 DEF ThreadJobs
      <4>. QED BY <4>1, <4>2 DEF Unseen, ActiveJobs
    <3>. QED BY <3>1 DEF Unseen
  <2> HIDE DEF jobs
  <2>5. \A k \in ActiveJobs' : k \in ActiveJobs /\ busy'[k] = busy[k]
    BY <2>1, <2>3, <2>4 DEF Begun, ActiveJobs
  <2>. QED BY <1>0, <2>2, <2>5, StillHeard
<1>2. ASSUME NEW k \in DOMAIN busy, ThreadDone(k) PROVE HearAfter
  BY <1>0, <1>2, WrittenHeard
<1>3. ASSUME NEW k \in DOMAIN busy, ThreadFails(k) \/ ActiveDone(k) \/ ActiveFails(k) PROVE HearAfter
  <2>1. /\ DOMAIN busy' = DOMAIN busy \ {k}
        /\ \A j \in DOMAIN busy \ {k} : busy'[j] = busy[j]
        /\ UNCHANGED <<summary, recent, emitted>>
    BY <1>0, <1>3, OverCases
  <2>2. \A j \in ActiveJobs' : j \in ActiveJobs /\ busy'[j] = busy[j]
    BY <2>1 DEF ActiveJobs
  <2>3. CASE active' = busy[k].made /\ lapsed' = busy[k].unseen /\ k \in ActiveJobs
    BY <1>0, <2>1, <2>2, <2>3, OverwrittenHeard
  <2>4. CASE UNCHANGED <<active, lapsed>> /\ (dirty => dirty')
    BY <1>0, <2>1, <2>2, <2>4, StillHeard
  <2>5. CASE ThreadFails(k)
    BY <2>4, <2>5 DEF ThreadFails, storeVars
  <2>6. CASE ActiveDone(k)
    BY <2>3, <2>6 DEF ActiveDone, ActiveJobs
  <2>7. CASE ActiveFails(k)
    <3>1. k \in ActiveJobs /\ dirty' \in {dirty, TRUE}
      BY <2>7 DEF ActiveFails, ActiveJobs
    <3>2. dirty => dirty'
      BY <3>1
    <3>3. UNCHANGED <<active, lapsed>> \/ (active' = busy[k].made /\ lapsed' = busy[k].unseen)
      BY <2>7 DEF ActiveFails
    <3>. QED BY <2>3, <2>4, <3>1, <3>2, <3>3
  <2>. QED BY <1>3, <2>5, <2>6, <2>7
<1>4. ASSUME NEW proc \in Process, NEW t \in Thread, ActiveStart(proc, t) PROVE HearAfter
  <2>1. Dispatch(proc, {t}) /\ emitted' = emitted \ {<<proc, t>>}
    BY <1>4 DEF ActiveStart
  <2>2. \A p \in Process, u \in Thread : <<p, u>> \in emitted => <<p, u>> \in emitted' \/ u \in {t}
    BY <2>1
  <2>. QED BY <1>0, <2>1, <2>2, DispatchedHeard
<1>5. ASSUME NEW proc \in Process, ProcessEnds(proc) PROVE HearAfter
  <2> DEFINE gone == {k \in DOMAIN busy : busy[k].proc = proc}
             lost == {e \in emitted : e[1] = proc}
  <2>1. /\ UNCHANGED <<summary, recent, active, dirty>>
        /\ DOMAIN busy' = DOMAIN busy \ gone
        /\ \A j \in DOMAIN busy \ gone : busy'[j] = busy[j]
    BY <1>0, <1>5, GoneCases
  <2>2. emitted' = emitted \ lost /\ lapsed' = lapsed \cup {e[2] : e \in lost}
    BY <1>5 DEF ProcessEnds
  <2>3. \A p \in Process, u \in Thread : <<p, u>> \in emitted => <<p, u>> \in emitted' \/ u \in lapsed'
    BY <2>2
  <2>4. \A j \in ActiveJobs' : j \in ActiveJobs /\ busy'[j] = busy[j]
    BY <2>1 DEF ActiveJobs
  <2>. QED BY <1>0, <2>1, <2>2, <2>3, <2>4, StillHeard
<1>6. CASE ChatStarts \/ UNCHANGED vars \/ (GatewayStarts /\ ~dirty)
  <2>1. UNCHANGED <<summary, recent, active, dirty, emitted, busy, lapsed>>
    BY <1>6 DEF ChatStarts, GatewayStarts, vars, storeVars, lossVars
  <2>2. \A j \in ActiveJobs' : j \in ActiveJobs /\ busy'[j] = busy[j]
    BY <2>1 DEF ActiveJobs
  <2>. QED BY <1>0, <2>1, <2>2, StillHeard
<1>7. CASE GatewayStarts /\ dirty
  <2>1. Dispatch("gateway", {}) /\ emitted' = emitted /\ "gateway" \in Process
    BY <1>7 DEF GatewayStarts, Process
  <2>. QED BY <1>0, <2>1, DispatchedHeard
<1>. QED BY <1>1, <1>2, <1>3, <1>4, <1>5, <1>6, <1>7 DEF Next, HookStep

\* However syntheses overlap, fail or end with their process, a summary that
\* is behind its thread has a synthesis under way that saw the last run, or is
\* known to be behind; an active memory that is behind a summary is marked
\* dirty or will be, or that summary is known to have lapsed (the two memory
\* hooks, the dispatcher, recoverDirtyMemorySynthesisStates).
THEOREM UpdatesAreKeptHolds == Spec => []UpdatesAreKept
<1>1. Init => KeptInv
  <2> SUFFICES ASSUME Init PROVE KeptInv
    OBVIOUS
  <2>1. \A t \in Thread : ThreadJobs(t) = {} /\ mark[t] = 0 /\ items[t] = 0 /\ summary[t] = {}
    BY DEF Init, ThreadJobs
  <2>2. Newest(MaxDeltaItems, 0, 0) = {}
    BY DEF Newest, Items
  <2>3. JobsFit /\ SummaryFitsMark /\ ThreadsKept
    BY <2>1, <2>2 DEF JobsFit, SummaryFitsMark, ThreadsKept
  <2>4. ActiveJobs = {} /\ Heard = {}
    BY DEF Init, ActiveJobs, Heard
  <2>5. JobsHear /\ PersonaKept
    BY <2>4 DEF JobsHear, PersonaKept
  <2>. QED BY <2>3, <2>5, InitTypes DEF KeptInv, FitInv
<1>2. KeptInv /\ [Next]_vars => KeptInv'
  <2>1. KeptInv => FitInv
    BY DEF KeptInv
  <2>. QED BY <2>1, FitStep, ThreadsStep, HearStep DEF KeptInv
<1>3. KeptInv => UpdatesAreKept
  BY DEF KeptInv, ThreadsKept, PersonaKept, UpdatesAreKept
<1>. QED BY <1>1, <1>2, <1>3, PTL DEF Spec
=============================================================================
