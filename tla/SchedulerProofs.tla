-------------------------- MODULE SchedulerProofs --------------------------
(***************************************************************************)
(* Proofs about SchedulerRuns, for any set of responsibilities, personas   *)
(* and gateway processes, any cap and any number of runs.                  *)
(***************************************************************************)
EXTENDS SchedulerRuns, FiniteSetTheorems, TLAPS

-----------------------------------------------------------------------------
(* Type correctness. *)

LEMMA InitType == Init => TypeOK
<1> SUFFICES ASSUME Init PROVE TypeOK
  OBVIOUS
<1>1. (CHOOSE x \in Resp : TRUE) \in Resp
  BY ResponsibilityOwners
<1>2. runResponsibility \in [RunId -> Resp]
  BY <1>1 DEF Init
<1>3. cursor \in [Procs -> 1 .. Len(PersonaSeq) + 1]
  BY PersonaOrder DEF Init
<1>4. /\ runCount \in 0 .. MaxRuns
      /\ crashes \in 0 .. MaxCrashes
  BY RunBounds DEF Init
<1>5. files \in [Resp -> AllFileStates]
  BY FileStatesKnown DEF Init
<1>. QED
  BY <1>2, <1>3, <1>4, <1>5 DEF Init, TypeOK, NoPromise

\* What the two operators that compute a whole table return.
LEMMA SyncedIndexType ==
  ASSUME TypeOK, NEW P
  PROVE  SyncedIndex(P) \in [Resp -> {"none", "enabled", "disabled"}]
  BY DEF TypeOK, SyncedIndex, AllFileStates

LEMMA RecoveredType ==
  ASSUME TypeOK, NEW P
  PROVE  Recovered(P) \in [RunId -> {"absent"} \cup Open \cup Outcome]
  BY DEF TypeOK, Recovered, Outcome

ClaimInRange == \A p \in Procs : loop[p] = "claim" => cursor[p] <= Len(PersonaSeq)

\* The two ways in which the place of a cycle moves.
LEMMA StartPassType ==
  ASSUME TypeOK, NEW p \in Procs, StartPass(p)
  PROVE  /\ loop' \in [Procs -> {"idle", "scan", "claim", "wait"}]
         /\ cursor' \in [Procs -> 1 .. Len(PersonaSeq) + 1]
         /\ dispatched' \in [Procs -> BOOLEAN]
         /\ ClaimInRange'
  BY PersonaOrder DEF TypeOK, StartPass, ClaimInRange

LEMMA MoveOnType ==
  ASSUME TypeOK, NEW p \in Procs, loop[p] = "claim", MoveOn(p)
  PROVE  /\ loop' \in [Procs -> {"idle", "scan", "claim", "wait"}]
         /\ cursor' \in [Procs -> 1 .. Len(PersonaSeq) + 1]
         /\ dispatched' \in [Procs -> BOOLEAN]
         /\ selected' \in [Procs -> {0} \cup RunId]
         /\ ClaimInRange'
<1>1. /\ cursor[p] \in 1 .. Len(PersonaSeq) /\ Len(PersonaSeq) \in Nat
      /\ loop' = [loop EXCEPT ![p] = "scan"]
      /\ cursor' = [cursor EXCEPT ![p] = cursor[p] + 1]
  BY PersonaOrder DEF TypeOK, MoveOn
<1>2. cursor' \in [Procs -> 1 .. Len(PersonaSeq) + 1]
  BY <1>1 DEF TypeOK
<1>3. ClaimInRange'
  BY <1>1 DEF TypeOK, ClaimInRange
<1>. QED BY <1>2, <1>3 DEF TypeOK, MoveOn

\* At the end of a pass promises leave inFlightRuns, and none joins.
Shed(p) ==
  [promise EXCEPT ![p] = [r \in RunId |-> IF r \in Settled(p) THEN "none" ELSE promise[p][r]]]

LEMMA EndPassSheds ==
  ASSUME TypeOK, NEW p \in Procs, EndPass(p)
  PROVE  /\ promise' \in [Procs -> [RunId -> {"none", "executing", "alerting", "settled"}]]
         /\ empty' \in [Procs -> Nat]
         /\ \A q \in Procs, r \in RunId : promise'[q][r] \in {promise[q][r], "none"}
         /\ \A q \in Procs : empty'[q] <= empty[q]
<1>1. \/ promise' = promise /\ empty' = empty
      \/ promise' = Shed(p) /\ empty' = [empty EXCEPT ![p] = 0]
  BY DEF EndPass, Shed
<1>2. CASE promise' = promise /\ empty' = empty
  BY <1>2 DEF TypeOK
<1>3. CASE promise' = Shed(p) /\ empty' = [empty EXCEPT ![p] = 0]
  <2>1. /\ empty' \in [Procs -> Nat]
        /\ \A q \in Procs : empty'[q] <= empty[q]
    BY <1>3 DEF TypeOK
  <2>2. promise \in [Procs -> [RunId -> {"none", "executing", "alerting", "settled"}]]
    BY DEF TypeOK
  <2>3. /\ promise' \in [Procs -> [RunId -> {"none", "executing", "alerting", "settled"}]]
        /\ \A q \in Procs, r \in RunId : promise'[q][r] \in {promise[q][r], "none"}
    BY <1>3, <2>2 DEF Shed
  <2>. QED BY <2>1, <2>3
<1>. QED BY <1>1, <1>2, <1>3

LEMMA TypeStep == TypeOK /\ [Next]_vars => TypeOK'
<1> SUFFICES ASSUME TypeOK, [Next]_vars PROVE TypeOK'
  OBVIOUS
<1>1. CASE CliSync
  BY <1>1, SyncedIndexType DEF CliSync, TypeOK, table, process
<1>2. ASSUME NEW x \in Resp, EditFile(x) PROVE TypeOK'
  BY <1>2, FileStatesKnown DEF EditFile, TypeOK, table, process
<1>3. ASSUME NEW p \in Procs, Start(p) PROVE TypeOK'
  <2>1. indexed' \in [Resp -> {"none", "enabled", "disabled"}]
    BY <1>3, SyncedIndexType DEF Start
  <2>2. runStatus' \in [RunId -> {"absent"} \cup Open \cup Outcome]
    BY <1>3, RecoveredType DEF Start
  <2>3. /\ tasks' \in [Procs -> SUBSET Resp]
        /\ gateway' \in [Procs -> {"down", "serving", "cron_only"}]
    BY <1>3 DEF Start, TypeOK
  <2>. QED BY <1>3, <2>1, <2>2, <2>3 DEF Start, TypeOK
<1>4. ASSUME NEW p \in Procs, NEW x \in Resp, Tick(p, x) PROVE TypeOK'
  <2>1. runCount + 1 \in RunId
    BY <1>4, RunBounds DEF Tick, TypeOK, RunId
  <2>. QED BY <1>4, <2>1, RunBounds DEF Tick, TypeOK, Open, Outcome, process, RunId
<1>5. ASSUME NEW p \in Procs, Poll(p) PROVE TypeOK'
  BY <1>5, StartPassType DEF Poll, TypeOK, table, ClaimInRange
<1>6. ASSUME NEW p \in Procs, PassOver(p) PROVE TypeOK'
  <2>1. cursor[p] \in 1 .. Len(PersonaSeq) /\ Len(PersonaSeq) \in Nat
    BY <1>6, PersonaOrder DEF PassOver, ScanAt, TypeOK
  <2>2. cursor' \in [Procs -> 1 .. Len(PersonaSeq) + 1]
    BY <1>6, <2>1 DEF PassOver, TypeOK
  <2>3. ClaimInRange'
    BY <1>6 DEF PassOver, ScanAt, TypeOK, ClaimInRange
  <2>. QED BY <1>6, <2>2, <2>3 DEF PassOver, TypeOK, table, ClaimInRange
<1>7. ASSUME NEW p \in Procs, TryDispatch(p) PROVE TypeOK'
  BY <1>7 DEF TryDispatch, ScanAt, TypeOK, table
<1>8. ASSUME NEW p \in Procs, Select(p) PROVE TypeOK'
  <2>1. CASE \E r \in NextClaim(PersonaSeq[cursor[p]]) : selected' = [selected EXCEPT ![p] = r]
    <3>1. selected' \in [Procs -> {0} \cup RunId]
      BY <2>1 DEF TypeOK, NextClaim, Claimable, QueuedRunsOf
    <3>2. CASE UNCHANGED <<loop, cursor, dispatched, empty, promise, runStatus>>
      BY <1>8, <3>1, <3>2 DEF Select, TypeOK
    <3>3. CASE ClaimsNothing(p)
      BY <1>8, <3>3, MoveOnType DEF Select, ClaimsNothing, TypeOK, ClaimInRange
    <3>. QED BY <1>8, <3>2, <3>3 DEF Select
  <2>2. CASE ClaimsNothing(p)
    BY <1>8, <2>2, MoveOnType DEF Select, ClaimsNothing, TypeOK, ClaimInRange
  <2>. QED BY <1>8, <2>1, <2>2 DEF Select
<1>9. ASSUME NEW p \in Procs, NEW r \in RunId, Succeed(p, r) PROVE TypeOK'
  <2>1. /\ runStatus' \in [RunId -> {"absent"} \cup Open \cup Outcome]
        /\ promise' \in [Procs -> [RunId -> {"none", "executing", "alerting", "settled"}]]
    BY <1>9 DEF Succeed, Resume, TypeOK, Outcome
  <2>. QED BY <1>9, <2>1, StartPassType DEF Succeed, Resume, TypeOK, ClaimInRange
<1>10. ASSUME NEW p \in Procs, NEW r \in RunId, Fail(p, r) PROVE TypeOK'
  BY <1>10 DEF Fail, TypeOK, Outcome
<1>11. ASSUME NEW p \in Procs, NEW r \in RunId, AlertDone(p, r) PROVE TypeOK'
  BY <1>11, StartPassType DEF AlertDone, Resume, TypeOK, table, ClaimInRange
<1>12. ASSUME NEW p \in Procs, Crash(p) PROVE TypeOK'
  BY <1>12, RunBounds, PersonaOrder DEF Crash, TypeOK, NoPromise, table
<1>13. ASSUME NEW p \in Procs, Claim(p) PROVE TypeOK'
  <2>1. CASE ClaimsNothing(p)
    BY <1>13, <2>1, MoveOnType DEF Claim, ClaimsNothing, TypeOK, ClaimInRange
  <2>2. CASE ~ ClaimsNothing(p)
    <3>1. /\ selected[p] \in RunId
          /\ runStatus' = [runStatus EXCEPT ![selected[p]] = "running"]
          /\ \E s \in {"executing", "settled"} : promise' = [promise EXCEPT ![p][selected[p]] = s]
          /\ MoveOn(p) /\ UNCHANGED empty
      BY <1>13, <2>2 DEF Claim, Started, TypeOK
    <3>2. /\ runStatus' \in [RunId -> {"absent"} \cup Open \cup Outcome]
          /\ promise' \in [Procs -> [RunId -> {"none", "executing", "alerting", "settled"}]]
      BY <3>1 DEF TypeOK, Open
    <3>. QED BY <1>13, <3>1, <3>2, MoveOnType DEF Claim, TypeOK, ClaimInRange
  <2>. QED BY <2>1, <2>2
<1>14. ASSUME NEW p \in Procs, EndPass(p) PROVE TypeOK'
  <2>1. /\ promise' \in [Procs -> [RunId -> {"none", "executing", "alerting", "settled"}]]
        /\ empty' \in [Procs -> Nat]
    BY <1>14, EndPassSheds
  <2>2. /\ loop' \in [Procs -> {"idle", "scan", "claim", "wait"}]
        /\ cursor' \in [Procs -> 1 .. Len(PersonaSeq) + 1]
        /\ dispatched' \in [Procs -> BOOLEAN]
        /\ ClaimInRange'
    <3>1. CASE StartPass(p)
      BY <3>1, StartPassType
    <3>2. CASE ~StartPass(p)
      BY <1>14, <3>2 DEF EndPass, TypeOK, ClaimInRange
    <3>. QED BY <3>1, <3>2
  <2>. QED BY <1>14, <2>1, <2>2 DEF EndPass, TypeOK, table, ClaimInRange
<1>15. CASE UNCHANGED vars
  BY <1>15 DEF vars, TypeOK, table, process
<1>. QED
  BY <1>1, <1>2, <1>3, <1>4, <1>5, <1>6, <1>7, <1>8, <1>9, <1>10, <1>11, <1>12, <1>13, <1>14,
     <1>15
  DEF Next, Cycle, Execution

\* Every reachable state is well typed: in particular the cursor stays within
\* the pass and a claimed run is always a row of the table.
THEOREM TypeCorrect == Spec => []TypeOK
  BY InitType, TypeStep, PTL DEF Spec

-----------------------------------------------------------------------------
(* One open run per responsibility.  The invariant needs one more fact about *)
(* the table to be inductive: an open row has been inserted, so the row a tick *)
(* writes was not open.                                                      *)

RowsInserted == \A r \in RunId : runStatus[r] \in Open => r <= runCount

TableInv == TypeOK /\ RowsInserted /\ OneOpenRun

\* What a claim comes to: a promise for nothing, or the queued row it selected.
LEMMA ClaimMoves ==
  ASSUME TypeOK, NEW p \in Procs, Claim(p)
  PROVE  \/ /\ UNCHANGED <<runStatus, promise>>
            /\ empty' = [empty EXCEPT ![p] = @ + 1]
         \/ /\ empty' = empty
            /\ \E r \in RunId, s \in {"executing", "settled"} :
                 /\ runStatus[r] = "queued"
                 /\ runStatus' = [runStatus EXCEPT ![r] = "running"]
                 /\ promise' = [promise EXCEPT ![p][r] = s]
<1>1. selected[p] \in RunId
  BY DEF Claim, TypeOK
<1>. QED BY <1>1 DEF Claim, ClaimsNothing, Started

LEMMA InitTable == Init => TableInv
  BY InitType DEF Init, TableInv, RowsInserted, OneOpenRun, Open

\* Steps that only move open rows towards an outcome, or leave the rows alone,
\* keep both facts.
LEMMA TableOnlyCloses ==
  ASSUME TableInv,
         runCount' = runCount, runResponsibility' = runResponsibility,
         \A r \in RunId : runStatus'[r] \in Open => runStatus[r] \in Open
  PROVE  RowsInserted' /\ OneOpenRun'
  BY DEF TableInv, RowsInserted, OneOpenRun, RunId

LEMMA TableStep == TableInv /\ [Next]_vars => TableInv'
<1> SUFFICES ASSUME TableInv, [Next]_vars PROVE RowsInserted' /\ OneOpenRun'
  BY TypeStep DEF TableInv
<1>1. CASE UNCHANGED table
  BY <1>1, TableOnlyCloses DEF table
<1>2. ASSUME NEW p \in Procs, Start(p) PROVE RowsInserted' /\ OneOpenRun'
  BY <1>2, TableOnlyCloses DEF Start, Recovered, Open
<1>3. ASSUME NEW p \in Procs, NEW x \in Resp, Tick(p, x) PROVE RowsInserted' /\ OneOpenRun'
  <2> DEFINE new == runCount + 1
  <2>1. new \in RunId /\ runCount \in Nat
    BY <1>3, RunBounds DEF Tick, TableInv, TypeOK, RunId
  <2>2. /\ runCount' = new
        /\ runResponsibility' = [runResponsibility EXCEPT ![new] = x]
        /\ runStatus' = [runStatus EXCEPT ![new] =
                           IF OpenRuns(x) = {} THEN "queued" ELSE "skipped_overlap"]
    BY <1>3 DEF Tick
  <2>3. /\ runResponsibility'[new] = x
        /\ runStatus'[new] = IF OpenRuns(x) = {} THEN "queued" ELSE "skipped_overlap"
        /\ \A r \in RunId \ {new} : /\ runResponsibility'[r] = runResponsibility[r]
                                   /\ runStatus'[r] = runStatus[r]
    BY <2>1, <2>2 DEF TableInv, TypeOK
  <2>4. RowsInserted'
    BY <2>1, <2>2, <2>3 DEF TableInv, RowsInserted, RunId
  <2>5. ASSUME NEW r \in RunId, r # new, runStatus[r] \in Open, runResponsibility[r] = x
        PROVE  runStatus'[new] \notin Open
    BY <2>3, <2>5 DEF OpenRuns, Open
  <2>6. OneOpenRun'
    <3> SUFFICES ASSUME NEW r \in RunId, NEW s \in RunId,
                        runResponsibility'[r] = runResponsibility'[s],
                        runStatus'[r] \in Open, runStatus'[s] \in Open
                 PROVE  r = s
      BY DEF OneOpenRun
    <3>1. CASE r # new /\ s # new
      BY <3>1, <2>3 DEF TableInv, OneOpenRun
    <3>2. CASE r = new /\ s # new
      BY <3>2, <2>3, <2>5
    <3>3. CASE r # new /\ s = new
      BY <3>3, <2>3, <2>5
    <3>. QED BY <3>1, <3>2, <3>3
  <2>. QED BY <2>4, <2>6
<1>4. ASSUME NEW p \in Procs, Claim(p) PROVE RowsInserted' /\ OneOpenRun'
  <2>1. /\ runCount' = runCount /\ runResponsibility' = runResponsibility
        /\ TypeOK
    BY <1>4 DEF Claim, TableInv
  <2>2. \A r \in RunId : runStatus'[r] \in Open => runStatus[r] \in Open
    BY <1>4, <2>1, ClaimMoves DEF TypeOK, Open
  <2>. QED BY <2>1, <2>2, TableOnlyCloses
<1>7. ASSUME NEW p \in Procs, Select(p) PROVE UNCHANGED table
  BY <1>7 DEF Select, ClaimsNothing, table
<1>5. ASSUME NEW p \in Procs, NEW r \in RunId, Succeed(p, r) PROVE RowsInserted' /\ OneOpenRun'
  BY <1>5, TableOnlyCloses DEF Succeed, TableInv, TypeOK, Open
<1>6. ASSUME NEW p \in Procs, NEW r \in RunId, Fail(p, r) PROVE RowsInserted' /\ OneOpenRun'
  BY <1>6, TableOnlyCloses DEF Fail, TableInv, TypeOK, Open
<1>. QED
  BY <1>1, <1>2, <1>3, <1>4, <1>5, <1>6, <1>7
  DEF Next, vars, Cycle, Execution, CliSync, EditFile, Poll, PassOver, TryDispatch, EndPass,
      AlertDone, Crash

\* Whatever gateways, CLI commands, crashes and recoveries interleave, the
\* atomic conditional insert keeps one open row per responsibility.
THEOREM OneOpenRunHolds == Spec => []OneOpenRun
<1>1. Spec => []TableInv
  BY InitTable, TableStep, PTL DEF Spec
<1>2. TableInv => OneOpenRun
  BY DEF TableInv
<1>. QED BY <1>1, <1>2, PTL

-----------------------------------------------------------------------------
(* What executes.  A row is executed by the process whose update claimed it, *)
(* and a claimed row is never queued again.                                  *)

\* A row that is still to be inserted has no status.
RowsUnused == \A r \in RunId : r > runCount => runStatus[r] = "absent"

LiveRows ==
  \A p \in Procs, r \in RunId :
     promise[p][r] = "executing" => runStatus[r] \in {"running"} \cup Outcome

OneExecutor ==
  \A p, q \in Procs, r \in RunId :
     promise[p][r] = "executing" /\ promise[q][r] = "executing" => p = q

LiveInv == TableInv /\ RowsUnused /\ LiveRows /\ OneExecutor

LEMMA InitLive == Init => LiveInv
  BY InitTable DEF Init, LiveInv, RowsUnused, LiveRows, OneExecutor, NoPromise

\* A step that begins no execution, and leaves what is executed claimed.
LEMMA LiveFrame ==
  ASSUME LiveRows, OneExecutor,
         \A p \in Procs, r \in RunId :
            promise'[p][r] = "executing" =>
               /\ promise[p][r] = "executing"
               /\ \/ runStatus'[r] = runStatus[r]
                  \/ runStatus'[r] \in {"running"} \cup Outcome
  PROVE  LiveRows' /\ OneExecutor'
  BY DEF LiveRows, OneExecutor

\* The row of a claim is queued, so nobody executes it yet.
LEMMA LiveClaim ==
  ASSUME LiveInv, NEW p \in Procs, Claim(p)
  PROVE  LiveRows' /\ OneExecutor'
<1>1. TypeOK
  BY DEF LiveInv, TableInv
<1>2. CASE UNCHANGED <<runStatus, promise>>
  BY <1>2 DEF LiveInv, LiveRows, OneExecutor
<1>3. CASE \E r \in RunId, s \in {"executing", "settled"} :
             /\ runStatus[r] = "queued"
             /\ runStatus' = [runStatus EXCEPT ![r] = "running"]
             /\ promise' = [promise EXCEPT ![p][r] = s]
  <2> PICK r \in RunId, s \in {"executing", "settled"} :
             /\ runStatus[r] = "queued"
             /\ runStatus' = [runStatus EXCEPT ![r] = "running"]
             /\ promise' = [promise EXCEPT ![p][r] = s]
    BY <1>3
  <2>1. \A q \in Procs : promise[q][r] # "executing"
    BY DEF LiveInv, LiveRows, Outcome
  <2>2. \A q \in Procs, t \in RunId :
          promise'[q][t] = "executing" => (q = p /\ t = r) \/ (t # r /\ promise[q][t] = "executing")
    BY <1>1, <2>1 DEF TypeOK
  <2>3. LiveRows'
    BY <1>1, <2>2 DEF LiveInv, LiveRows, TypeOK
  <2>4. OneExecutor'
    BY <2>2 DEF LiveInv, OneExecutor
  <2>. QED BY <2>3, <2>4
<1>. QED BY <1>1, <1>2, <1>3, ClaimMoves

\* A row that changes its status was inserted.
LEMMA UnusedFrame ==
  ASSUME TypeOK, RowsUnused, runCount' = runCount,
         NEW r \in RunId, runStatus[r] # "absent", NEW s,
         runStatus' = [runStatus EXCEPT ![r] = s]
  PROVE  RowsUnused'
<1>1. r <= runCount /\ runCount \in Nat /\ r \in Nat
  BY DEF TypeOK, RowsUnused, RunId
<1>2. \A q \in RunId : q > runCount => q # r /\ runStatus'[q] = runStatus[q]
  BY <1>1 DEF TypeOK
<1>. QED BY <1>2 DEF RowsUnused

LEMMA LiveStep == LiveInv /\ [Next]_vars => LiveInv'
<1> SUFFICES ASSUME LiveInv, [Next]_vars PROVE RowsUnused' /\ LiveRows' /\ OneExecutor'
  BY TableStep DEF LiveInv
<1>0. TableInv /\ TypeOK /\ RowsUnused /\ LiveRows /\ OneExecutor
  BY DEF LiveInv, TableInv
<1>1. CASE UNCHANGED <<runCount, runStatus, promise>>
  BY <1>0, <1>1 DEF RowsUnused, LiveRows, OneExecutor
<1>2. ASSUME NEW p \in Procs, Start(p) PROVE RowsUnused' /\ LiveRows' /\ OneExecutor'
  <2>1. \A r \in RunId : runStatus'[r] = runStatus[r] \/ (runStatus[r] = "running" /\ runStatus'[r] = "failed")
    BY <1>2 DEF Start, Recovered
  <2>2. RowsUnused'
    BY <1>0, <1>2, <2>1 DEF Start, RowsUnused
  <2>. QED BY <1>0, <1>2, <2>1, <2>2, LiveFrame DEF Start, Outcome
<1>3. ASSUME NEW p \in Procs, NEW x \in Resp, Tick(p, x)
      PROVE  RowsUnused' /\ LiveRows' /\ OneExecutor'
  <2>1. runStatus[runCount + 1] = "absent"
    BY <1>0, <1>3, RunBounds DEF Tick, TypeOK, RunId, RowsUnused
  <2>2. RowsUnused'
    BY <1>0, <1>3 DEF Tick, RowsUnused, TypeOK, RunId
  <2>3. /\ promise' = promise
        /\ \A r \in RunId : r # runCount + 1 => runStatus'[r] = runStatus[r]
    BY <1>0, <1>3 DEF Tick, TypeOK, process
  <2>4. \A q \in Procs, r \in RunId : promise[q][r] = "executing" => r # runCount + 1
    BY <1>0, <2>1 DEF LiveRows, Outcome
  <2>. QED BY <1>0, <2>2, <2>3, <2>4, LiveFrame
<1>4. ASSUME NEW p \in Procs, Claim(p) PROVE RowsUnused' /\ LiveRows' /\ OneExecutor'
  <2>1. runCount' = runCount
    BY <1>4 DEF Claim
  <2>2. RowsUnused'
    <3>1. CASE UNCHANGED runStatus
      BY <1>0, <2>1, <3>1 DEF RowsUnused
    <3>2. CASE \E r \in RunId : /\ runStatus[r] = "queued"
                               /\ runStatus' = [runStatus EXCEPT ![r] = "running"]
      BY <1>0, <2>1, <3>2, UnusedFrame
    <3>. QED BY <1>0, <1>4, <3>1, <3>2, ClaimMoves
  <2>. QED BY <1>4, <2>2, LiveClaim
<1>5. ASSUME NEW p \in Procs, NEW r \in RunId, Succeed(p, r) \/ Fail(p, r)
      PROVE  RowsUnused' /\ LiveRows' /\ OneExecutor'
  <2> PICK s \in {"succeeded", "failed"}, t \in {"none", "alerting"} :
         /\ runStatus' = [runStatus EXCEPT ![r] = s]
         /\ promise' = [promise EXCEPT ![p][r] = t]
         /\ runCount' = runCount /\ promise[p][r] = "executing"
    BY <1>5 DEF Succeed, Fail, Resume
  <2>1. runStatus[r] # "absent"
    BY <1>0 DEF LiveRows, Outcome
  <2>2. RowsUnused'
    BY <1>0, <2>1, UnusedFrame
  <2>3. \A q \in Procs, u \in RunId :
          promise'[q][u] = "executing" =>
             /\ promise[q][u] = "executing"
             /\ runStatus'[u] = runStatus[u] \/ runStatus'[u] \in {"running"} \cup Outcome
    BY <1>0 DEF TypeOK, Outcome
  <2>. QED BY <1>0, <2>2, <2>3, LiveFrame
\* The other steps end promises, and leave the rows alone.
<1>6. ASSUME UNCHANGED <<runCount, runStatus>>,
             \A p \in Procs, r \in RunId : promise'[p][r] = "executing" => promise[p][r] = "executing"
      PROVE  RowsUnused' /\ LiveRows' /\ OneExecutor'
  BY <1>0, <1>6, LiveFrame DEF RowsUnused
<1>7. ASSUME NEW p \in Procs, EndPass(p) PROVE RowsUnused' /\ LiveRows' /\ OneExecutor'
  BY <1>0, <1>6, <1>7 DEF EndPass, TypeOK, table
<1>8. ASSUME NEW p \in Procs, NEW r \in RunId, AlertDone(p, r)
      PROVE  RowsUnused' /\ LiveRows' /\ OneExecutor'
  BY <1>0, <1>6, <1>8 DEF AlertDone, Resume, TypeOK, table
<1>9. ASSUME NEW p \in Procs, Crash(p) PROVE RowsUnused' /\ LiveRows' /\ OneExecutor'
  BY <1>0, <1>6, <1>9 DEF Crash, NoPromise, TypeOK, table
<1>10. ASSUME NEW p \in Procs, Select(p) PROVE UNCHANGED <<runCount, runStatus, promise>>
  BY <1>10 DEF Select, ClaimsNothing
<1>. QED
  BY <1>1, <1>2, <1>3, <1>4, <1>5, <1>7, <1>8, <1>9, <1>10
  DEF Next, vars, table, process, Cycle, Execution, CliSync, EditFile, Poll, PassOver, TryDispatch

LEMMA LiveInvHolds == Spec => []LiveInv
  BY InitLive, LiveStep, PTL DEF Spec

\* However many gateways claim, crash and recover each other's runs, a
\* responsibility is run twice at once only after recovery closed the row of
\* one of the two runs, and never from one row.
THEOREM OverlapIsRecoveredHolds == Spec => []OverlapIsRecovered
<1>1. LiveInv => OverlapIsRecovered
  <2> SUFFICES ASSUME LiveInv, NEW e \in Executing, NEW f \in Executing, e # f,
                      runResponsibility[e[2]] = runResponsibility[f[2]]
               PROVE  e[2] # f[2] /\ (runStatus[e[2]] \in Outcome \/ runStatus[f[2]] \in Outcome)
    BY DEF OverlapIsRecovered
  <2>1. /\ e = <<e[1], e[2]>> /\ f = <<f[1], f[2]>>
        /\ e[1] \in Procs /\ f[1] \in Procs /\ e[2] \in RunId /\ f[2] \in RunId
        /\ promise[e[1]][e[2]] = "executing" /\ promise[f[1]][f[2]] = "executing"
    BY DEF Executing
  <2>2. e[2] # f[2]
    BY <2>1 DEF LiveInv, OneExecutor
  <2>3. /\ runStatus[e[2]] \in {"running"} \cup Outcome
        /\ runStatus[f[2]] \in {"running"} \cup Outcome
    BY <2>1 DEF LiveInv, LiveRows
  <2>4. ~ (runStatus[e[2]] = "running" /\ runStatus[f[2]] = "running")
    BY <2>1, <2>2 DEF LiveInv, TableInv, OneOpenRun, Open
  <2>. QED BY <2>2, <2>3, <2>4
<1>. QED BY <1>1, LiveInvHolds, PTL

-----------------------------------------------------------------------------
(* The global cap.                                                           *)

LEMMA RunIdFinite == IsFiniteSet(RunId)
  BY RunBounds, FS_Interval DEF RunId

LEMMA ClaimedFinite == ASSUME NEW p PROVE IsFiniteSet(Claimed(p)) /\ Cardinality(Claimed(p)) \in Nat
<1>1. IsFiniteSet(Claimed(p))
  BY RunIdFinite, FS_Subset DEF Claimed
<1>. QED BY <1>1, FS_CardinalityType

CapInv == TypeOK /\ CapRespected

\* A step that takes nothing into flight keeps the cap.
LEMMA CapFrame ==
  ASSUME TypeOK, TypeOK', CapRespected,
         \A q \in Procs : Claimed(q)' \subseteq Claimed(q) /\ empty'[q] <= empty[q]
  PROVE  CapRespected'
<1> SUFFICES ASSUME NEW q \in Procs PROVE InFlight(q)' <= MaxConcurrent
  BY DEF CapRespected
<1>1. /\ Cardinality(Claimed(q)') <= Cardinality(Claimed(q))
      /\ Cardinality(Claimed(q)) \in Nat /\ Cardinality(Claimed(q)') \in Nat
  BY ClaimedFinite, FS_Subset, FS_CardinalityType
<1>2. /\ Cardinality(Claimed(q)) + empty[q] <= MaxConcurrent
      /\ empty[q] \in Nat /\ empty'[q] \in Nat /\ empty'[q] <= empty[q]
  BY DEF CapRespected, InFlight, TypeOK
<1>. QED BY <1>1, <1>2, PositiveCap DEF InFlight

\* The cap as it was when the claim was tried is the cap of the claim: no
\* other step of the process comes between.
RoomToClaim == \A p \in Procs : loop[p] = "claim" => InFlight(p) < MaxConcurrent

RoomInv == CapInv /\ RoomToClaim

\* A process that takes one promise into flight had room for it.
LEMMA OneMore ==
  ASSUME RoomInv, TypeOK', NEW p \in Procs, loop[p] = "claim", MoveOn(p),
         \/ empty' = [empty EXCEPT ![p] = @ + 1] /\ promise' = promise
         \/ /\ empty' = empty
            /\ \E r \in RunId : \E s \in {"executing", "settled"} :
                 promise' = [promise EXCEPT ![p][r] = s]
  PROVE  CapRespected' /\ RoomToClaim'
<1> USE DEF RoomInv, CapInv
<1>1. ASSUME NEW q \in Procs, q # p PROVE InFlight(q)' = InFlight(q) /\ loop'[q] = loop[q]
  <2>1. loop'[q] = loop[q]
    BY <1>1 DEF MoveOn, TypeOK
  <2>2. empty'[q] = empty[q]
    BY <1>1 DEF TypeOK
  <2>3. promise'[q] = promise[q]
    BY <1>1 DEF TypeOK
  <2>. QED BY <2>1, <2>2, <2>3 DEF InFlight, Claimed
<1>2. loop'[p] = "scan"
  BY DEF MoveOn, TypeOK
<1>3. InFlight(p)' <= InFlight(p) + 1 /\ InFlight(p) \in Nat /\ InFlight(p)' \in Nat
  <2>1. /\ Cardinality(Claimed(p)) \in Nat /\ Cardinality(Claimed(p)') \in Nat
        /\ empty[p] \in Nat /\ empty'[p] \in Nat
    <3>1. Cardinality(Claimed(p)) \in Nat
      BY ClaimedFinite
    <3>2. Claimed(p)' \in SUBSET RunId
      BY DEF Claimed
    <3>3. \A S \in SUBSET RunId : IsFiniteSet(S) /\ Cardinality(S) \in Nat
      BY RunIdFinite, FS_Subset, FS_CardinalityType
    <3>. QED BY <3>1, <3>2, <3>3 DEF TypeOK
  <2>2. CASE empty' = [empty EXCEPT ![p] = @ + 1] /\ promise' = promise
    <3>1. Claimed(p)' = Claimed(p) /\ empty'[p] = empty[p] + 1
      BY <2>2 DEF Claimed, TypeOK
    <3>. QED BY <2>1, <3>1 DEF InFlight
  <2>3. ASSUME empty' = empty, NEW r \in RunId, NEW s \in {"executing", "settled"},
               promise' = [promise EXCEPT ![p][r] = s]
        PROVE  /\ InFlight(p)' <= InFlight(p) + 1
               /\ InFlight(p) \in Nat /\ InFlight(p)' \in Nat
    <3>1. Claimed(p)' \subseteq Claimed(p) \cup {r}
      BY <2>3 DEF Claimed, TypeOK
    <3>2. /\ IsFiniteSet(Claimed(p) \cup {r})
          /\ Cardinality(Claimed(p) \cup {r}) \in {Cardinality(Claimed(p)), Cardinality(Claimed(p)) + 1}
      BY ClaimedFinite, FS_AddElement
    <3>3. Cardinality(Claimed(p)') <= Cardinality(Claimed(p) \cup {r})
      BY <3>1, <3>2, FS_Subset
    <3>4. Cardinality(Claimed(p)') <= Cardinality(Claimed(p)) + 1
      BY <2>1, <3>2, <3>3
    <3>. QED BY <2>1, <2>3, <3>4 DEF InFlight
  <2>. QED BY <2>2, <2>3
<1>4. InFlight(p) < MaxConcurrent
  BY DEF RoomToClaim
<1>5. InFlight(p)' <= MaxConcurrent
  BY <1>3, <1>4, PositiveCap
<1>. QED BY <1>1, <1>2, <1>5 DEF CapRespected, RoomToClaim

\* A step that takes nothing into flight and tries no claim.
LEMMA RoomFrame ==
  ASSUME RoomInv, TypeOK',
         \A q \in Procs : /\ Claimed(q)' \subseteq Claimed(q) /\ empty'[q] <= empty[q]
                          /\ \/ loop'[q] # "claim"
                             \/ loop'[q] = loop[q] /\ UNCHANGED <<promise, empty>>
  PROVE  CapRespected' /\ RoomToClaim'
<1>1. CapRespected'
  BY CapFrame DEF RoomInv, CapInv
<1>2. RoomToClaim'
  BY DEF RoomInv, RoomToClaim, InFlight, Claimed
<1>. QED BY <1>1, <1>2

LEMMA RoomStep == RoomInv /\ [Next]_vars => RoomInv'
<1> SUFFICES ASSUME RoomInv, [Next]_vars, TypeOK, TypeOK' PROVE CapRespected' /\ RoomToClaim'
  BY TypeStep DEF RoomInv, CapInv
<1>1. CASE UNCHANGED <<loop, promise, empty>>
  BY <1>1 DEF RoomInv, CapInv, CapRespected, RoomToClaim, InFlight, Claimed
<1>2. ASSUME NEW p \in Procs, TryDispatch(p) PROVE CapRespected' /\ RoomToClaim'
  <2>1. /\ InFlight(p) < MaxConcurrent
        /\ \A q \in Procs : InFlight(q)' = InFlight(q)
    <3>1. InFlight(p) \in Nat
      BY ClaimedFinite DEF InFlight, TypeOK
    <3>. QED BY <1>2, <3>1, PositiveCap DEF TryDispatch, CapReached, InFlight, Claimed
  <2>2. \A q \in Procs : loop'[q] = "claim" => q = p \/ loop[q] = "claim"
    BY <1>2 DEF TryDispatch, TypeOK
  <2>. QED BY <2>1, <2>2 DEF RoomInv, CapInv, CapRespected, RoomToClaim
<1>3. ASSUME NEW p \in Procs, Select(p) PROVE CapRespected' /\ RoomToClaim'
  BY <1>1, <1>3, OneMore DEF Select, ClaimsNothing
<1>4. ASSUME NEW p \in Procs, Claim(p) PROVE CapRespected' /\ RoomToClaim'
  <2>1. MoveOn(p) /\ loop[p] = "claim"
    BY <1>4 DEF Claim, ClaimsNothing
  <2>. QED BY <1>4, <2>1, ClaimMoves, OneMore
<1>5. ASSUME NEW p \in Procs, EndPass(p) PROVE CapRespected' /\ RoomToClaim'
  <2>1. \A q \in Procs : Claimed(q)' \subseteq Claimed(q) /\ empty'[q] <= empty[q]
    BY <1>5, EndPassSheds DEF RoomInv, CapInv, Claimed
  <2>2. /\ loop'[p] # "claim"
        /\ \A q \in Procs \ {p} : loop'[q] = loop[q] /\ promise'[q] = promise[q] /\ empty'[q] = empty[q]
    BY <1>5 DEF EndPass, StartPass, TypeOK
  <2>. QED BY <2>1, <2>2, CapFrame
           DEF RoomInv, CapInv, RoomToClaim, InFlight, Claimed
<1>6. ASSUME NEW p \in Procs, NEW r \in RunId, Succeed(p, r) \/ Fail(p, r) \/ AlertDone(p, r)
      PROVE  CapRespected' /\ RoomToClaim'
  <2> PICK step \in {"none", "alerting"} :
         promise' = [promise EXCEPT ![p][r] = step] /\ promise[p][r] # "none"
    BY <1>6 DEF Succeed, Fail, AlertDone, Resume
  <2>1. \A q \in Procs : Claimed(q)' \subseteq Claimed(q) /\ empty'[q] <= empty[q]
    BY <1>6 DEF Succeed, Fail, AlertDone, Resume, Claimed, TypeOK
  <2>2. /\ loop'[p] # "claim"
        /\ \A q \in Procs \ {p} : loop'[q] = loop[q] /\ promise'[q] = promise[q] /\ empty'[q] = empty[q]
    BY <1>6 DEF Succeed, Fail, AlertDone, Resume, StartPass, TypeOK
  <2>. QED BY <2>1, <2>2, CapFrame
           DEF RoomInv, CapInv, RoomToClaim, InFlight, Claimed
<1>7. ASSUME NEW p \in Procs, Crash(p) PROVE CapRespected' /\ RoomToClaim'
  <2>1. \A q \in Procs : Claimed(q)' \subseteq Claimed(q) /\ empty'[q] <= empty[q]
    BY <1>7 DEF Crash, Claimed, NoPromise, TypeOK
  <2>2. /\ loop'[p] # "claim"
        /\ \A q \in Procs \ {p} : loop'[q] = loop[q] /\ promise'[q] = promise[q] /\ empty'[q] = empty[q]
    BY <1>7 DEF Crash, TypeOK
  <2>. QED BY <2>1, <2>2, CapFrame
           DEF RoomInv, CapInv, RoomToClaim, InFlight, Claimed
<1>8. ASSUME NEW p \in Procs, Poll(p) PROVE CapRespected' /\ RoomToClaim'
  <2>1. /\ UNCHANGED <<promise, empty>>
        /\ \A q \in Procs : loop'[q] = "claim" => loop[q] = "claim"
    BY <1>8 DEF Poll, StartPass, TypeOK
  <2>. QED BY <2>1 DEF RoomInv, CapInv, CapRespected, RoomToClaim, InFlight, Claimed
<1>. QED
  BY <1>1, <1>2, <1>3, <1>4, <1>5, <1>6, <1>7, <1>8
  DEF Next, vars, process, Cycle, Execution, CliSync, EditFile, Start, Tick, PassOver

\* However many gateways run, none ever has more promises in flight than
\* scheduler.max_global_concurrent_runs (ADR-0031), lost claims included.
THEOREM CapHolds == Spec => []CapRespected
<1>1. Init => RoomInv
  <2>1. ASSUME Init, NEW p \in Procs PROVE InFlight(p) = 0
    <3>1. Claimed(p) = {} /\ empty[p] = 0
      BY <2>1 DEF Init, Claimed, NoPromise
    <3>. QED BY <3>1, FS_EmptySet DEF InFlight
  <2>2. ASSUME Init PROVE RoomToClaim
    BY <2>2 DEF Init, RoomToClaim
  <2>. QED BY <2>1, <2>2, InitType, PositiveCap DEF RoomInv, CapInv, CapRespected
<1>2. RoomInv => CapRespected
  BY DEF RoomInv, CapInv
<1>. QED BY <1>1, <1>2, RoomStep, PTL DEF Spec

-----------------------------------------------------------------------------
(* The ledger.  Its variables as functions of the table.                     *)

Only(S) == IF S = {} THEN 0 ELSE CHOOSE r \in S : TRUE
LOpen == [x \in Resp |-> Only(OpenRuns(x))]
LBegun == {x \in Resp : \E r \in OpenRuns(x) : runStatus[r] = "running"}
LClosed == [r \in RunId |-> IF runStatus[r] \in Outcome THEN runStatus[r] ELSE "pending"]
LOrphans == {r \in RunId : runStatus[r] \in Outcome /\ \E p \in Procs : promise[p][r] = "executing"}

\* What the table says of a run, in the ledger's words.
LedgerView ==
  /\ LOpen \in [Resp -> {0} \cup RunId]
  /\ \A x \in Resp, r \in RunId :
        LOpen[x] = r <=> runResponsibility[r] = x /\ runStatus[r] \in Open
  /\ \A x \in Resp :
        x \in LBegun <=> \E r \in RunId : runResponsibility[r] = x /\ runStatus[r] = "running"

LEMMA LedgerViewHolds == TableInv => LedgerView
<1> SUFFICES ASSUME TableInv PROVE LedgerView
  OBVIOUS
<1>1. 0 \notin RunId
  BY DEF RunId
<1>2. ASSUME NEW x \in Resp
      PROVE  /\ LOpen[x] \in {0} \cup RunId
             /\ \A r \in RunId : LOpen[x] = r <=> runResponsibility[r] = x /\ runStatus[r] \in Open
  <2>1. LOpen[x] = IF OpenRuns(x) = {} THEN 0 ELSE CHOOSE r \in OpenRuns(x) : TRUE
    BY DEF LOpen, Only
  <2>2. CASE OpenRuns(x) = {}
    <3>1. LOpen[x] = 0
      BY <2>1, <2>2
    <3>. QED BY <1>1, <2>2, <3>1 DEF OpenRuns
  <2>3. CASE OpenRuns(x) # {}
    <3>1. LOpen[x] \in OpenRuns(x)
      BY <2>1, <2>3
    <3>. QED BY <3>1 DEF OpenRuns, TableInv, OneOpenRun
  <2>. QED BY <2>2, <2>3
<1>3. LOpen \in [Resp -> {0} \cup RunId]
  <2>1. LOpen = [x \in Resp |-> LOpen[x]]
    BY DEF LOpen
  <2>. QED BY <1>2, <2>1
<1>4. \A x \in Resp :
        x \in LBegun <=> \E r \in RunId : runResponsibility[r] = x /\ runStatus[r] = "running"
  BY DEF LBegun, OpenRuns, Open
<1>. QED BY <1>2, <1>3, <1>4 DEF LedgerView

LEMMA LedgerInit == Init => Ledger!Init
<1> SUFFICES ASSUME Init PROVE Ledger!Init
  OBVIOUS
<1>1. \A x \in Resp : OpenRuns(x) = {}
  BY DEF Init, OpenRuns, Open
<1>2. LOpen = [x \in Resp |-> 0]
  BY <1>1 DEF LOpen, Only
<1>3. LBegun = {}
  BY <1>1 DEF LBegun
<1>4. LClosed = [r \in RunId |-> "pending"]
  BY DEF LClosed, Init, Outcome
<1>5. LOrphans = {}
  BY DEF LOrphans, Init, Outcome
<1>. QED BY <1>2, <1>3, <1>4, <1>5 DEF Ledger!Init, LOpen, Only, LBegun, LClosed, LOrphans

-----------------------------------------------------------------------------
(* Each step of the scheduler is a step of the ledger, or none. *)

\* A step that leaves the table alone can only end executions.
LEMMA TableUnchanged ==
  ASSUME UNCHANGED table,
         \A p \in Procs, r \in RunId : promise'[p][r] = "executing" => promise[p][r] = "executing"
  PROVE  [Ledger!Next]_Ledger!vars
<1>1. runStatus' = runStatus /\ runResponsibility' = runResponsibility
  BY DEF table
<1>2. \A x : OpenRuns(x)' = OpenRuns(x)
  BY <1>1 DEF OpenRuns
<1>3. LOpen' = LOpen
  BY <1>2 DEF LOpen
<1>4. LBegun' = LBegun
  BY <1>1, <1>2 DEF LBegun
<1>5. LClosed' = LClosed
  BY <1>1 DEF LClosed
<1>6. LOrphans' \subseteq LOrphans
  BY <1>1 DEF LOrphans
<1>7. PICK O : O = LOrphans \ LOrphans'
  OBVIOUS
<1>8. O \in SUBSET LOrphans /\ LOrphans' = LOrphans \ O
  BY <1>6, <1>7
<1>9. Ledger!Abandon(O)
  BY <1>3, <1>4, <1>5, <1>8 DEF Ledger!Abandon, LOpen, Only, LBegun, LClosed, LOrphans
<1>. QED BY <1>8, <1>9, Zenon DEF Ledger!Next, LOrphans

\* The open run of a responsibility, seen through a step.
LEMMA OpenMoves ==
  ASSUME TableInv, TableInv', NEW x \in Resp, NEW y \in {0} \cup RunId,
         \A z \in Resp \ {x}, r \in RunId :
            (runResponsibility'[r] = z /\ runStatus'[r] \in Open)
              <=> (runResponsibility[r] = z /\ runStatus[r] \in Open),
         \A r \in RunId : runResponsibility'[r] = x /\ runStatus'[r] \in Open <=> r = y
  PROVE  LOpen' = [LOpen EXCEPT ![x] = y]
<1>1. LedgerView /\ LedgerView'
  BY LedgerViewHolds, PTL
<1>2. 0 \notin RunId
  BY DEF RunId
<1>3. ASSUME NEW z \in Resp PROVE LOpen'[z] = IF z = x THEN y ELSE LOpen[z]
  <2>1. /\ LOpen'[z] \in {0} \cup RunId /\ LOpen[z] \in {0} \cup RunId
        /\ \A r \in RunId : LOpen'[z] = r <=> runResponsibility'[r] = z /\ runStatus'[r] \in Open
        /\ \A r \in RunId : LOpen[z] = r <=> runResponsibility[r] = z /\ runStatus[r] \in Open
    BY <1>1 DEF LedgerView
  <2>2. CASE z = x
    BY <1>2, <2>1, <2>2
  <2>3. CASE z # x
    <3>1. \A r \in RunId : LOpen'[z] = r <=> LOpen[z] = r
      BY <2>1, <2>3
    <3>. QED BY <1>2, <2>1, <2>3, <3>1
  <2>. QED BY <2>2, <2>3
<1>. QED BY <1>1, <1>3 DEF LedgerView

LEMMA TickIsLedger ==
  ASSUME LiveInv, LiveInv', NEW p \in Procs, NEW x \in Resp, Tick(p, x)
  PROVE  Ledger!Next
<1> PICK new : new = runCount + 1
  OBVIOUS
<1>1. TableInv /\ TableInv' /\ LedgerView /\ LedgerView'
  <2>1. TableInv /\ TableInv'
    BY DEF LiveInv
  <2>. QED BY <2>1, LedgerViewHolds, PTL
<1>2. new \in RunId /\ new > runCount
  BY <1>1, RunBounds DEF Tick, TableInv, TypeOK, RunId
<1>3. runStatus[new] = "absent"
  BY <1>2 DEF LiveInv, RowsUnused
<1>4. /\ runResponsibility'[new] = x
      /\ runStatus'[new] = IF OpenRuns(x) = {} THEN "queued" ELSE "skipped_overlap"
      /\ \A r \in RunId \ {new} : /\ runResponsibility'[r] = runResponsibility[r]
                                 /\ runStatus'[r] = runStatus[r]
  BY <1>1, <1>2 DEF Tick, TableInv, TypeOK
<1>5. \A y \in Resp : LOpen[y] # new
  BY <1>1, <1>2, <1>3 DEF LedgerView, Open
<1>6. LClosed[new] = "pending"
  BY <1>2, <1>3 DEF LClosed, Outcome
<1>7. LBegun' = LBegun
  <2>1. \A y \in Resp : y \in LBegun' <=> y \in LBegun
    BY <1>1, <1>3, <1>4 DEF LedgerView
  <2>2. LBegun \subseteq Resp /\ LBegun' \subseteq Resp
    BY DEF LBegun
  <2>. QED BY <2>1, <2>2
<1>10. LOrphans' = LOrphans
  <2>1. promise' = promise
    BY DEF Tick, process
  <2>2. \A q \in Procs : promise[q][new] # "executing"
    BY <1>2, <1>3 DEF LiveInv, LiveRows, Outcome
  <2>3. \A r \in RunId : r \in LOrphans' <=> r \in LOrphans
    BY <1>4, <2>1, <2>2 DEF LOrphans
  <2>. QED BY <2>3 DEF LOrphans
<1>8. CASE OpenRuns(x) = {}
  <2>1. LOpen[x] = 0
    BY <1>8 DEF LOpen, Only
  <2>2. LOpen' = [LOpen EXCEPT ![x] = new]
    <3>1. \A r \in RunId : ~ (runResponsibility[r] = x /\ runStatus[r] \in Open)
      BY <1>8 DEF OpenRuns
    <3>2. \A r \in RunId : runResponsibility'[r] = x /\ runStatus'[r] \in Open <=> r = new
      BY <1>2, <1>4, <1>8, <3>1 DEF Open
    <3>3. \A z \in Resp \ {x}, r \in RunId :
            (runResponsibility'[r] = z /\ runStatus'[r] \in Open)
              <=> (runResponsibility[r] = z /\ runStatus[r] \in Open)
      BY <1>3, <1>4 DEF Open
    <3>. QED BY <1>1, <1>2, <3>2, <3>3, OpenMoves
  <2>3. LClosed' = LClosed
    <3>1. \A r \in RunId : (IF runStatus'[r] \in Outcome THEN runStatus'[r] ELSE "pending")
                            = IF runStatus[r] \in Outcome THEN runStatus[r] ELSE "pending"
      BY <1>3, <1>4, <1>8 DEF Outcome
    <3>. QED BY <3>1 DEF LClosed
  <2>4. Ledger!Accept(x, new)
    BY <1>5, <1>6, <1>7, <1>10, <2>1, <2>2, <2>3
       DEF Ledger!Accept, Ledger!Fresh, LOpen, Only, LBegun, LClosed, LOrphans
  <2>. QED BY <1>2, <2>4, Zenon DEF Ledger!Next
<1>9. CASE OpenRuns(x) # {}
  <2>1. LOpen[x] # 0
    <3>1. LOpen[x] \in OpenRuns(x)
      BY <1>9 DEF LOpen, Only
    <3>. QED BY <3>1 DEF OpenRuns, RunId
  <2>2. LOpen' = LOpen
    <3>1. \A y \in Resp : OpenRuns(y)' = OpenRuns(y)
      BY <1>3, <1>4, <1>9 DEF OpenRuns, Open
    <3>. QED BY <3>1 DEF LOpen
  <2>3. LClosed' = [LClosed EXCEPT ![new] = "skipped_overlap"]
    <3>1. \A r \in RunId : (IF runStatus'[r] \in Outcome THEN runStatus'[r] ELSE "pending")
                            = IF r = new THEN "skipped_overlap"
                              ELSE IF runStatus[r] \in Outcome THEN runStatus[r] ELSE "pending"
      BY <1>4, <1>9 DEF Outcome
    <3>. QED BY <1>2, <3>1 DEF LClosed
  <2>4. Ledger!Refuse(x, new)
    BY <1>5, <1>6, <1>7, <1>10, <2>1, <2>2, <2>3
       DEF Ledger!Refuse, Ledger!Fresh, LOpen, Only, LBegun, LClosed, LOrphans
  <2>. QED BY <1>2, <2>4, Zenon DEF Ledger!Next
<1>. QED BY <1>8, <1>9

\* A claim: the row is queued, so none of its responsibility is running.
LEMMA ClaimIsLedger ==
  ASSUME LiveInv, LiveInv', NEW p \in Procs, Claim(p), NEW r \in RunId,
         NEW s \in {"executing", "settled"},
         runStatus[r] = "queued",
         runStatus' = [runStatus EXCEPT ![r] = "running"],
         promise' = [promise EXCEPT ![p][r] = s]
  PROVE  Ledger!Next
<1>1. TableInv /\ TableInv' /\ LedgerView /\ LedgerView'
  <2>1. TableInv /\ TableInv'
    BY DEF LiveInv
  <2>. QED BY <2>1, LedgerViewHolds, PTL
<1>2. \A t \in RunId : runResponsibility[t] = runResponsibility[r] => runStatus[t] # "running"
  BY <1>1 DEF TableInv, OneOpenRun, Open
<1> PICK x : x = runResponsibility[r]
  OBVIOUS
<1>3. x \in Resp
  BY <1>1 DEF TableInv, TypeOK
<1>4. /\ runStatus'[r] = "running" /\ runResponsibility' = runResponsibility
      /\ \A t \in RunId \ {r} : runStatus'[t] = runStatus[t]
  BY <1>1, <1>2 DEF Claim, TableInv, TypeOK
<1>5. LOpen[x] # 0 /\ x \notin LBegun
  <2>1. LOpen[x] = r
    BY <1>1, <1>2, <1>3 DEF LedgerView, Open
  <2>2. r # 0
    BY DEF RunId
  <2>. QED BY <1>1, <1>2, <1>3, <2>1, <2>2 DEF LedgerView
<1>6. LBegun' = LBegun \cup {x}
  <2>1. \A y \in Resp : y \in LBegun' <=> y \in LBegun \/ y = x
    BY <1>1, <1>2, <1>3, <1>4 DEF LedgerView
  <2>2. LBegun \subseteq Resp /\ LBegun' \subseteq Resp
    BY DEF LBegun
  <2>. QED BY <1>3, <2>1, <2>2
<1>7. LOpen' = LOpen
  <2>1. \A y \in Resp : OpenRuns(y)' = OpenRuns(y)
    BY <1>2, <1>4 DEF OpenRuns, Open
  <2>. QED BY <2>1 DEF LOpen
<1>8. LClosed' = LClosed
  <2>1. \A t \in RunId : (IF runStatus'[t] \in Outcome THEN runStatus'[t] ELSE "pending")
                          = IF runStatus[t] \in Outcome THEN runStatus[t] ELSE "pending"
    BY <1>2, <1>4 DEF Outcome
  <2>. QED BY <2>1 DEF LClosed
<1>9. LOrphans' = LOrphans
  <2>1. \A q \in Procs, t \in RunId \ {r} : promise'[q][t] = promise[q][t]
    BY <1>1 DEF TableInv, TypeOK
  <2>2. \A t \in RunId : t \in LOrphans' <=> t \in LOrphans
    BY <1>4, <2>1 DEF LOrphans, Outcome
  <2>. QED BY <2>2 DEF LOrphans
<1>10. Ledger!Begin(x)
  BY <1>5, <1>6, <1>7, <1>8, <1>9 DEF Ledger!Begin, LOpen, Only, LBegun, LClosed, LOrphans
<1>. QED BY <1>3, <1>10, Zenon DEF Ledger!Next

\* An outcome: the row is the open one of its responsibility and is running.
LEMMA OutcomeIsLedger ==
  ASSUME LiveInv, LiveInv', NEW r \in RunId, runStatus[r] = "running",
         NEW p \in Procs, promise[p][r] = "executing",
         NEW outcome \in {"succeeded", "failed"}, NEW step \in {"none", "alerting"},
         runStatus' = [runStatus EXCEPT ![r] = outcome], runResponsibility' = runResponsibility,
         promise' = [promise EXCEPT ![p][r] = step]
  PROVE  Ledger!Next
<1>1. TableInv /\ TableInv' /\ LedgerView /\ LedgerView'
  <2>1. TableInv /\ TableInv'
    BY DEF LiveInv
  <2>. QED BY <2>1, LedgerViewHolds, PTL
<1> PICK x : x = runResponsibility[r]
  OBVIOUS
<1>2. x \in Resp
  BY <1>1 DEF TableInv, TypeOK
<1>3. runStatus'[r] = outcome /\ \A s \in RunId \ {r} : runStatus'[s] = runStatus[s]
  BY <1>1 DEF TableInv, TypeOK
<1>4. LOpen[x] = r /\ x \in LBegun
  BY <1>1, <1>2 DEF LedgerView, Open
<1>5. \A s \in RunId : runResponsibility[s] = x /\ runStatus[s] \in Open => s = r
  BY <1>1 DEF TableInv, OneOpenRun, Open
<1>6. LBegun' = LBegun \ {x}
  <2>1. \A y \in Resp : y \in LBegun' <=> y \in LBegun /\ y # x
    <3> TAKE y \in Resp
    <3>1. y \in LBegun' <=> \E s \in RunId : runResponsibility[s] = y /\ runStatus'[s] = "running"
      BY <1>1 DEF LedgerView
    <3>2. y \in LBegun <=> \E s \in RunId : runResponsibility[s] = y /\ runStatus[s] = "running"
      BY <1>1 DEF LedgerView
    <3>. QED BY <1>3, <1>5, <3>1, <3>2 DEF Open
  <2>2. LBegun \subseteq Resp /\ LBegun' \subseteq Resp
    BY DEF LBegun
  <2>. QED BY <2>1, <2>2
<1>7. LOpen' = [LOpen EXCEPT ![x] = 0]
  <2>1. \A s \in RunId : ~ (runResponsibility'[s] = x /\ runStatus'[s] \in Open)
    BY <1>3, <1>5 DEF Open
  <2>2. \A z \in Resp \ {x}, s \in RunId :
          (runResponsibility'[s] = z /\ runStatus'[s] \in Open)
            <=> (runResponsibility[s] = z /\ runStatus[s] \in Open)
    BY <1>3
  <2>3. \A s \in RunId : runResponsibility'[s] = x /\ runStatus'[s] \in Open <=> s = 0
    BY <2>1 DEF RunId
  <2>. QED BY <1>1, <1>2, <2>2, <2>3, OpenMoves
<1>8. LClosed' = [LClosed EXCEPT ![LOpen[x]] = outcome]
  <2>1. \A s \in RunId : (IF runStatus'[s] \in Outcome THEN runStatus'[s] ELSE "pending")
                          = IF s = r THEN outcome
                            ELSE IF runStatus[s] \in Outcome THEN runStatus[s] ELSE "pending"
    BY <1>3 DEF Outcome
  <2>2. LClosed' = [LClosed EXCEPT ![r] = outcome]
    BY <2>1 DEF LClosed
  <2>. QED BY <1>4, <2>2
<1>9. LOrphans' = LOrphans
  <2>1. /\ \A q \in Procs, t \in RunId \ {r} : promise'[q][t] = promise[q][t]
        /\ \A q \in Procs : promise'[q][r] # "executing"
    <3>1. promise \in [Procs -> [RunId -> {"none", "executing", "alerting", "settled"}]]
      BY <1>1 DEF TableInv, TypeOK
    <3>2. \A q \in Procs : promise[q][r] = "executing" => q = p
      BY DEF LiveInv, OneExecutor
    <3>3. \A q \in Procs : promise'[q][r] = IF q = p THEN step ELSE promise[q][r]
      BY <3>1
    <3>. QED BY <3>1, <3>2, <3>3
  <2>2. \A t \in RunId : t \in LOrphans' <=> t \in LOrphans
    BY <1>3, <2>1 DEF LOrphans, Outcome
  <2>. QED BY <2>2 DEF LOrphans
<1>10. Ledger!End(x, outcome)
  BY <1>4, <1>6, <1>7, <1>8, <1>9 DEF Ledger!End, LOpen, Only, LBegun, LClosed, LOrphans
<1>. QED BY <1>2, <1>10, Zenon DEF Ledger!Next

\* A late outcome: recovery closed the row, and its run writes it again.
LEMMA LateOutcomeIsLedger ==
  ASSUME LiveInv, LiveInv', NEW r \in RunId, runStatus[r] \in Outcome,
         NEW p \in Procs, promise[p][r] = "executing",
         NEW outcome \in {"succeeded", "failed"}, NEW step \in {"none", "alerting"},
         runStatus' = [runStatus EXCEPT ![r] = outcome], runResponsibility' = runResponsibility,
         promise' = [promise EXCEPT ![p][r] = step]
  PROVE  Ledger!Next
<1>1. TypeOK
  BY DEF LiveInv, TableInv
<1>2. runStatus'[r] = outcome /\ \A t \in RunId \ {r} : runStatus'[t] = runStatus[t]
  BY <1>1 DEF TypeOK
<1>3. \A x : OpenRuns(x)' = OpenRuns(x)
  BY <1>2 DEF OpenRuns, Open, Outcome
<1>4. LOpen' = LOpen
  BY <1>3 DEF LOpen
<1>5. LBegun' = LBegun
  <2>1. \A x \in Resp, t \in RunId :
          (t \in OpenRuns(x) /\ runStatus'[t] = "running") <=> (t \in OpenRuns(x) /\ runStatus[t] = "running")
    BY <1>2 DEF OpenRuns, Open, Outcome
  <2>2. \A x \in Resp : x \in LBegun' <=> x \in LBegun
    BY <1>3, <2>1 DEF LBegun, OpenRuns
  <2>. QED BY <2>2 DEF LBegun
<1>6. LClosed' = [LClosed EXCEPT ![r] = outcome]
  <2>1. \A t \in RunId : (IF runStatus'[t] \in Outcome THEN runStatus'[t] ELSE "pending")
                          = IF t = r THEN outcome
                            ELSE IF runStatus[t] \in Outcome THEN runStatus[t] ELSE "pending"
    BY <1>2 DEF Outcome
  <2>. QED BY <2>1 DEF LClosed
<1>7. r \in LOrphans
  BY DEF LOrphans
<1>8. LOrphans' = LOrphans \ {r}
  <2>1. /\ \A q \in Procs, t \in RunId \ {r} : promise'[q][t] = promise[q][t]
        /\ \A q \in Procs : promise'[q][r] # "executing"
    BY <1>1 DEF TypeOK, LiveInv, OneExecutor
  <2>2. \A t \in RunId : t \in LOrphans' <=> t \in LOrphans /\ t # r
    BY <1>2, <2>1 DEF LOrphans
  <2>. QED BY <2>2 DEF LOrphans
<1>9. Ledger!Revise(r, outcome)
  BY <1>4, <1>5, <1>6, <1>7, <1>8 DEF Ledger!Revise, LOpen, Only, LBegun, LClosed, LOrphans
<1>. QED BY <1>7, <1>9, Zenon DEF Ledger!Next, LOrphans

\* Recovery ends the running rows of the personas that were synchronised.
LEMMA StartIsLedger ==
  ASSUME LiveInv, LiveInv', NEW p \in Procs, Start(p)
  PROVE  Ledger!Next
<1>1. TableInv /\ TableInv' /\ LedgerView /\ LedgerView'
  <2>1. TableInv /\ TableInv'
    BY DEF LiveInv
  <2>. QED BY <2>1, LedgerViewHolds, PTL
<1> DEFINE P == SyncablePersonas
           hit(r) == runStatus[r] = "running" /\ PersonaOf[runResponsibility[r]] \in P
<1> PICK X : X = {x \in LBegun : PersonaOf[x] \in P}
  OBVIOUS
<1>2. /\ runResponsibility' = runResponsibility
      /\ \A r \in RunId : runStatus'[r] = IF hit(r) THEN "failed" ELSE runStatus[r]
  BY DEF Start, Recovered
<1> HIDE DEF P
<1>3. runResponsibility \in [RunId -> Resp]
  BY <1>1 DEF TableInv, TypeOK
<1>4. ASSUME NEW r \in RunId
      PROVE  hit(r) <=> \E x \in X : LOpen[x] = r
  <2>1. ASSUME hit(r) PROVE \E x \in X : LOpen[x] = r
    <3>1. runResponsibility[r] \in X /\ LOpen[runResponsibility[r]] = r
      BY <1>1, <1>3, <2>1 DEF LedgerView, Open
    <3>. QED BY <3>1
  <2>2. ASSUME NEW x \in X, LOpen[x] = r PROVE hit(r)
    <3>1. x \in Resp /\ PersonaOf[x] \in P
      BY DEF LBegun
    <3>2. runResponsibility[r] = x /\ runStatus[r] \in Open
      BY <1>1, <2>2, <3>1 DEF LedgerView
    <3>3. PICK s \in RunId : runResponsibility[s] = x /\ runStatus[s] = "running"
      BY <1>1, <3>1 DEF LedgerView
    <3>4. s = r
      BY <1>1, <3>2, <3>3 DEF TableInv, OneOpenRun, Open
    <3>. QED BY <3>1, <3>2, <3>3, <3>4
  <2>. QED BY <2>1, <2>2
<1>5. LBegun' = LBegun \ X
  <2>1. \A y \in Resp : y \in LBegun' <=> y \in LBegun /\ PersonaOf[y] \notin P
    <3> TAKE y \in Resp
    <3>1. y \in LBegun' <=> \E s \in RunId : runResponsibility[s] = y /\ runStatus'[s] = "running"
      BY <1>1, <1>2 DEF LedgerView
    <3>2. y \in LBegun <=> \E s \in RunId : runResponsibility[s] = y /\ runStatus[s] = "running"
      BY <1>1 DEF LedgerView
    <3>. QED BY <1>2, <3>1, <3>2
  <2>2. LBegun \subseteq Resp /\ LBegun' \subseteq Resp
    BY DEF LBegun
  <2>. QED BY <2>1, <2>2
<1>6. LClosed' = [r \in RunId |-> IF \E x \in X : LOpen[x] = r THEN "failed" ELSE LClosed[r]]
  <2>1. \A r \in RunId : (IF runStatus'[r] \in Outcome THEN runStatus'[r] ELSE "pending")
                          = IF \E x \in X : LOpen[x] = r THEN "failed" ELSE LClosed[r]
    <3> TAKE r \in RunId
    <3>1. LClosed[r] = IF runStatus[r] \in Outcome THEN runStatus[r] ELSE "pending"
      BY DEF LClosed
    <3>2. CASE hit(r)
      BY <1>2, <1>4, <3>2 DEF Outcome
    <3>3. CASE ~ hit(r)
      BY <1>2, <1>4, <3>1, <3>3
    <3>. QED BY <3>2, <3>3
  <2>2. LClosed' = [r \in RunId |-> IF runStatus'[r] \in Outcome THEN runStatus'[r] ELSE "pending"]
    BY DEF LClosed
  <2>. QED BY <2>1, <2>2
<1>7. LOpen' = [x \in Resp |-> IF x \in X THEN 0 ELSE LOpen[x]]
  <2>1. ASSUME NEW z \in Resp PROVE LOpen'[z] = IF z \in X THEN 0 ELSE LOpen[z]
    <3>1. /\ LOpen'[z] \in {0} \cup RunId /\ LOpen[z] \in {0} \cup RunId /\ 0 \notin RunId
          /\ \A r \in RunId : LOpen'[z] = r <=> runResponsibility[r] = z /\ runStatus'[r] \in Open
          /\ \A r \in RunId : LOpen[z] = r <=> runResponsibility[r] = z /\ runStatus[r] \in Open
      BY <1>1, <1>2 DEF LedgerView, RunId
    <3>2. \A r \in RunId : LOpen'[z] = r <=> LOpen[z] = r /\ ~ hit(r)
      BY <1>2, <3>1 DEF Open
    <3>3. CASE z \in X
      <4>1. \A r \in RunId : LOpen[z] = r => hit(r)
        BY <1>4, <3>3
      <4> HIDE DEF hit
      <4>. QED BY <3>1, <3>2, <3>3, <4>1
    <3>4. CASE z \notin X
      <4>1. \A r \in RunId : LOpen[z] = r => ~ hit(r)
        <5> SUFFICES ASSUME NEW r \in RunId, LOpen[z] = r, hit(r) PROVE FALSE
          OBVIOUS
        <5>1. PICK x \in X : LOpen[x] = r
          BY <1>4
        <5>2. x \in Resp
          BY DEF LBegun
        <5>3. x = z
          BY <1>1, <3>1, <5>1, <5>2 DEF LedgerView
        <5>. QED BY <3>4, <5>1, <5>3
      <4> HIDE DEF hit
      <4>. QED BY <3>1, <3>2, <3>4, <4>1
    <3>. QED BY <3>3, <3>4
  <2>2. LOpen' = [x \in Resp |-> LOpen'[x]]
    BY <1>1 DEF LedgerView
  <2>. QED BY <2>1, <2>2
<1>8. X \in SUBSET LBegun
  OBVIOUS
<1>9. PICK O : O = {r \in RunId : hit(r) /\ \E q \in Procs : promise[q][r] = "executing"}
  OBVIOUS
<1>10. O \in SUBSET {LOpen[x] : x \in X}
  BY <1>4, <1>9
<1>11. LOrphans' = LOrphans \cup O
  <2>1. promise' = promise
    BY DEF Start
  <2>2. \A r \in RunId : r \in LOrphans' <=> r \in LOrphans \/ r \in O
    BY <1>2, <1>9, <2>1 DEF LOrphans, Outcome
  <2>. QED BY <1>9, <2>2 DEF LOrphans
<1>12. Ledger!Interrupt(X, O)
  BY <1>5, <1>6, <1>7, <1>11 DEF Ledger!Interrupt, LOpen, Only, LBegun, LClosed, LOrphans
<1>. QED BY <1>8, <1>10, <1>12, Zenon DEF Ledger!Next, LBegun, LOpen, Only

LEMMA LedgerStep ==
  ASSUME LiveInv, LiveInv', [Next]_vars
  PROVE  [Ledger!Next]_Ledger!vars
<1>0. TypeOK
  BY DEF LiveInv, TableInv
<1>1. CASE UNCHANGED <<table, promise>>
  BY <1>1, TableUnchanged
<1>2. ASSUME NEW p \in Procs, Start(p) PROVE Ledger!Next
  BY <1>2, StartIsLedger
<1>3. ASSUME NEW p \in Procs, NEW x \in Resp, Tick(p, x) PROVE Ledger!Next
  BY <1>3, TickIsLedger
<1>4. ASSUME NEW p \in Procs, Claim(p) PROVE [Ledger!Next]_Ledger!vars
  <2>1. CASE UNCHANGED <<runStatus, promise>>
    BY <1>1, <1>4, <2>1 DEF Claim, table
  <2>2. CASE \E r \in RunId, s \in {"executing", "settled"} :
               /\ runStatus[r] = "queued"
               /\ runStatus' = [runStatus EXCEPT ![r] = "running"]
               /\ promise' = [promise EXCEPT ![p][r] = s]
    BY <1>4, <2>2, ClaimIsLedger
  <2>. QED BY <1>0, <1>4, <2>1, <2>2, ClaimMoves
<1>5. ASSUME NEW p \in Procs, NEW r \in RunId, Succeed(p, r) \/ Fail(p, r) PROVE Ledger!Next
  <2>1. runStatus[r] = "running" \/ runStatus[r] \in Outcome
    BY <1>5 DEF Succeed, Fail, LiveInv, LiveRows
  <2>2. PICK outcome \in {"succeeded", "failed"}, step \in {"none", "alerting"} :
          /\ runStatus' = [runStatus EXCEPT ![r] = outcome]
          /\ runResponsibility' = runResponsibility
          /\ promise' = [promise EXCEPT ![p][r] = step] /\ promise[p][r] = "executing"
    BY <1>5 DEF Succeed, Fail, Resume
  <2>. QED BY <2>1, <2>2, OutcomeIsLedger, LateOutcomeIsLedger
\* The other steps end promises, and leave the rows alone.
<1>6. ASSUME NEW p \in Procs, EndPass(p) PROVE [Ledger!Next]_Ledger!vars
  <2>1. \A q \in Procs, r \in RunId : promise'[q][r] = "executing" => promise[q][r] = "executing"
    BY <1>0, <1>6, EndPassSheds
  <2>. QED BY <1>6, <2>1, TableUnchanged DEF EndPass
<1>7. ASSUME NEW p \in Procs, NEW r \in RunId, AlertDone(p, r) PROVE [Ledger!Next]_Ledger!vars
  <2>1. \A q \in Procs, t \in RunId : promise'[q][t] = "executing" => promise[q][t] = "executing"
    BY <1>0, <1>7 DEF AlertDone, Resume, TypeOK
  <2>. QED BY <1>7, <2>1, TableUnchanged DEF AlertDone
<1>8. ASSUME NEW p \in Procs, Crash(p) PROVE [Ledger!Next]_Ledger!vars
  <2>1. \A q \in Procs, t \in RunId : promise'[q][t] = "executing" => promise[q][t] = "executing"
    BY <1>0, <1>8 DEF Crash, NoPromise, TypeOK
  <2>. QED BY <1>8, <2>1, TableUnchanged DEF Crash
<1>9. ASSUME NEW p \in Procs, Select(p) PROVE UNCHANGED <<table, promise>>
  BY <1>9 DEF Select, ClaimsNothing, table
<1>. QED
  BY <1>1, <1>2, <1>3, <1>4, <1>5, <1>6, <1>7, <1>8, <1>9
  DEF Next, vars, process, Cycle, Execution, CliSync, EditFile, Poll, PassOver, TryDispatch

\* Whatever gateways share the workspace, the scheduler implements the ledger: a
\* tick is accepted or refused, a run begins once and ends with one outcome, and
\* an outcome is revised only by a run that recovery closed under it, although
\* markRun* update a row by its id alone.
THEOREM LedgerHolds == Spec => LedgerSpec
<1>1. LiveInv /\ LiveInv' /\ [Next]_vars => [Ledger!Next]_Ledger!vars
  BY LedgerStep
<1>. QED BY <1>1, LedgerInit, LiveInvHolds, PTL DEF Spec, LedgerSpec, Ledger!Spec
=============================================================================
