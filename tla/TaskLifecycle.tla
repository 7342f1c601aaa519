--------------------------- MODULE TaskLifecycle ---------------------------
(***************************************************************************)
(* What the daemon promises about one row of the sync_queue table, with    *)
(* no engine, no ordering and no accounts: a task is accepted once, it is  *)
(* started at most MAX_RETRIES + 1 times, every failed run but the last    *)
(* puts it back in the queue, and once it is settled (done or given up) it *)
(* never moves again.  SyncQueue implements this specification.            *)
(***************************************************************************)
EXTENDS Naturals

CONSTANTS TaskId,       \* the rows the queue may ever hold
          MAX_RETRIES   \* failures after which a task is tried again

VARIABLES phase,        \* phase[t]: where task t is in its life
          failures      \* failures[t]: runs of t that failed and were retried

lifecycleVars == <<phase, failures>>

Phase == {"new", "waiting", "running", "done", "given_up"}

LifecycleInit ==
    /\ phase = [t \in TaskId |-> "new"]
    /\ failures = [t \in TaskId |-> 0]

\* Move t to phase p; its failure count stays.
MoveTo(t, p) ==
    /\ phase' = [phase EXCEPT ![t] = p]
    /\ UNCHANGED failures

Accept(t) == phase[t] = "new" /\ MoveTo(t, "waiting")

Run(t) == phase[t] = "waiting" /\ MoveTo(t, "running")

\* A task may settle without running: it lacks what its operation needs, or
\* the operation is one the engine does not know.
Finish(t) == phase[t] \in {"waiting", "running"} /\ MoveTo(t, "done")

Retry(t) ==
    /\ phase[t] \in {"waiting", "running"}
    /\ failures[t] < MAX_RETRIES
    /\ phase' = [phase EXCEPT ![t] = "waiting"]
    /\ failures' = [failures EXCEPT ![t] = @ + 1]

GiveUp(t) ==
    /\ phase[t] \in {"waiting", "running"}
    /\ failures[t] = MAX_RETRIES
    /\ MoveTo(t, "given_up")

LifecycleNext ==
    \E t \in TaskId : Accept(t) \/ Run(t) \/ Finish(t) \/ Retry(t) \/ GiveUp(t)

LifecycleSpec == LifecycleInit /\ [][LifecycleNext]_lifecycleVars
=============================================================================
