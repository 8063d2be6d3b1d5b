------------------------ MODULE ResponsibilityLedger ------------------------
(***************************************************************************)
(* What the scheduler promises about responsibility runs (ADR-0031 and     *)
(* ADR-0032), without files, polling, claims or the cap: a responsibility  *)
(* has at most one open run, a tick that finds one open is recorded as     *)
(* refused, a run that began ends with one outcome, and an outcome is      *)
(* revised only when it was an interruption of a run that goes on.         *)
(***************************************************************************)
EXTENDS Naturals

CONSTANTS
  Resp,   \* responsibilities
  RunId   \* positive numbers, 0 stands for no run

VARIABLES
  open,    \* the open run of each responsibility, 0 when it has none
  begun,   \* the responsibilities whose open run began
  closed,  \* the outcome of each run, "pending" before it has one
  orphans  \* the interrupted runs that a process executes still

vars == <<open, begun, closed, orphans>>

Fresh(r) == closed[r] = "pending" /\ \A x \in Resp : open[x] # r

Init ==
  /\ open = [x \in Resp |-> 0]
  /\ begun = {}
  /\ closed = [r \in RunId |-> "pending"]
  /\ orphans = {}

Accept(x, r) ==
  /\ open[x] = 0 /\ Fresh(r)
  /\ open' = [open EXCEPT ![x] = r]
  /\ UNCHANGED <<begun, closed, orphans>>

Refuse(x, r) ==
  /\ open[x] # 0 /\ Fresh(r)
  /\ closed' = [closed EXCEPT ![r] = "skipped_overlap"]
  /\ UNCHANGED <<open, begun, orphans>>

Begin(x) ==
  /\ open[x] # 0 /\ x \notin begun
  /\ begun' = begun \cup {x}
  /\ UNCHANGED <<open, closed, orphans>>

End(x, outcome) ==
  /\ x \in begun
  /\ begun' = begun \ {x}
  /\ closed' = [closed EXCEPT ![open[x]] = outcome]
  /\ open' = [open EXCEPT ![x] = 0]
  /\ UNCHANGED orphans

\* The start of a process interrupts the runs of several responsibilities at
\* once; the ones in O another process executes nevertheless.
Interrupt(X, O) ==
  /\ begun' = begun \ X
  /\ closed' = [r \in RunId |-> IF \E x \in X : open[x] = r THEN "failed" ELSE closed[r]]
  /\ open' = [x \in Resp |-> IF x \in X THEN 0 ELSE open[x]]
  /\ orphans' = orphans \cup O

\* The outcome of a run that was interrupted under its process.
Revise(r, outcome) ==
  /\ r \in orphans
  /\ closed' = [closed EXCEPT ![r] = outcome]
  /\ orphans' = orphans \ {r}
  /\ UNCHANGED <<open, begun>>

\* A process ends with the orphans it executes.
Abandon(O) ==
  /\ orphans' = orphans \ O
  /\ UNCHANGED <<open, begun, closed>>

Next ==
  \/ \E x \in Resp, r \in RunId : Accept(x, r) \/ Refuse(x, r)
  \/ \E x \in Resp : Begin(x) \/ End(x, "succeeded") \/ End(x, "failed")
  \/ \E X \in SUBSET begun : \E O \in SUBSET {open[x] : x \in X} : Interrupt(X, O)
  \/ \E r \in orphans : Revise(r, "succeeded") \/ Revise(r, "failed")
  \/ \E O \in SUBSET orphans : Abandon(O)

Spec == Init /\ [][Next]_vars
=============================================================================
