------------------------------ MODULE Scheduler ------------------------------
(***************************************************************************)
(* LifecycleReconciliationScheduler in several processes: start and stop,  *)
(* the timer, and runs guarded by a flag of the process and by a Postgres  *)
(* advisory lock.  The lock belongs to the session of one connection of    *)
(* the pool and nests there; the unlock may go over another connection,    *)
(* where it does nothing; and the pool may lose or recycle a connection at *)
(* any time: Postgres then drops the lock, and the run is not told.        *)
(***************************************************************************)
EXTENDS Integers, FiniteSets

CONSTANTS
  Server,      \* processes with a scheduler
  Connection,  \* connections of each pool
  SafeRun,     \* calls of safeRun that may be in progress at once
  Tenant,
  MaxTimers,   \* bound on the timers of a process
  MaxNesting   \* bound on how often one connection takes the lock

ASSUME MaxTimersAssumption == MaxTimers \in Nat \ {0}
ASSUME MaxNestingAssumption == MaxNesting \in Nat \ {0}

VARIABLES
  scheduler,  \* running, inFlight, this.timer and every interval that still fires
  advisory,   \* how often each connection holds ADVISORY_LOCK_KEY
  safeRuns    \* the calls of safeRun in progress; lost is no state of the program: it
              \* says of a scan that a connection with the lock has ended meanwhile

schedulerVars == <<scheduler, advisory, safeRuns>>

Stopped == [running |-> FALSE, inFlight |-> FALSE, boots |-> 0, timer |-> FALSE, intervals |-> 0]
NoRun == [pc |-> "none", left |-> {}]

SchedulerInit ==
  /\ scheduler = [i \in Server |-> Stopped]
  /\ advisory = [x \in Server \X Connection |-> 0]
  /\ safeRuns = [r \in SafeRun |-> NoRun]

\* start(): nothing when running; bootstrap may be delayed.
StartScheduler(i) ==
  /\ ~scheduler[i].running
  /\ scheduler[i].boots + scheduler[i].intervals < MaxTimers
  /\ scheduler' = [scheduler EXCEPT ![i].running = TRUE, ![i].boots = @ + 1]
  /\ UNCHANGED <<advisory, safeRuns>>

\* bootstrap(): sets the interval, over one that an earlier bootstrap may have set; nothing
\* when stopped by then, unless the stop came during the immediate run it awaits.
BootScheduler(i) ==
  /\ scheduler[i].boots > 0
  /\ \/ scheduler' = [scheduler EXCEPT ![i].boots = @ - 1, ![i].timer = TRUE, ![i].intervals = @ + 1]
     \/ /\ ~scheduler[i].running
        /\ scheduler' = [scheduler EXCEPT ![i].boots = @ - 1]
  /\ UNCHANGED <<advisory, safeRuns>>

\* stop(): clears the last interval it knows; a run in flight goes on to its next check.
StopScheduler(i) ==
  /\ scheduler[i].running
  /\ scheduler' = [scheduler EXCEPT ![i].running = FALSE, ![i].timer = FALSE,
       ![i].intervals = IF scheduler[i].timer THEN @ - 1 ELSE @]
  /\ UNCHANGED <<advisory, safeRuns>>

\* Variant: a run does not look whether one is in flight.
MayRunWhenever(i) == scheduler[i].running

MayRun(i) == scheduler[i].running /\ ~scheduler[i].inFlight

\* safeRun(), from the timer or from a bootstrap with runImmediately.
BeginRun(r, i) ==
  /\ safeRuns[r] = NoRun
  /\ scheduler[i].intervals + scheduler[i].boots > 0
  /\ MayRun(i)
  /\ scheduler' = [scheduler EXCEPT ![i].inFlight = TRUE]
  /\ safeRuns' = [safeRuns EXCEPT ![r] = [pc |-> "lock", left |-> {}, at |-> i, lost |-> FALSE]]
  /\ UNCHANGED advisory

\* finally: the flag is cleared.
EndRun(r) ==
  /\ safeRuns' = [safeRuns EXCEPT ![r] = NoRun]
  /\ scheduler' = [scheduler EXCEPT ![safeRuns[r].at].inFlight = FALSE]

\* pg_try_advisory_lock on some connection: taken unless another session holds it; where it
\* is not taken, or the query fails, the run is over.
TryLock(r, k) ==
  LET i == safeRuns[r].at
      free == \A x \in (Server \X Connection) \ {<<i, k>>} : advisory[x] = 0
  IN  /\ safeRuns[r].pc = "lock"
      /\ \/ /\ free /\ advisory[<<i, k>>] < MaxNesting
            /\ advisory' = [advisory EXCEPT ![<<i, k>>] = @ + 1]
            /\ safeRuns' = [safeRuns EXCEPT ![r].pc = "scan", ![r].left = Tenant]
            /\ UNCHANGED scheduler
         \/ /\ EndRun(r)
            /\ UNCHANGED advisory

\* run(): the next tenant.  Its job reconciles case after case; a case that throws ends the
\* job of its tenant and is caught here, so that the other tenants are scanned all the same.
ScanTenant(r, t) ==
  /\ safeRuns[r].pc = "scan" /\ t \in safeRuns[r].left
  /\ scheduler[safeRuns[r].at].running
  /\ safeRuns' = [safeRuns EXCEPT ![r].left = @ \ {t}]
  /\ UNCHANGED <<scheduler, advisory>>

\* No tenant is left, the list of tenants cannot be read, or the scheduler was stopped.
EndScan(r) ==
  /\ safeRuns[r].pc = "scan"
  /\ safeRuns[r].left \in {{}, Tenant} \/ ~scheduler[safeRuns[r].at].running
  /\ safeRuns' = [safeRuns EXCEPT ![r].pc = "unlock", ![r].left = {}, ![r].lost = FALSE]
  /\ UNCHANGED <<scheduler, advisory>>

\* pg_advisory_unlock on some connection: one level less if that one holds the lock and the
\* query does not fail.
Unlock(r, k) ==
  LET x == <<safeRuns[r].at, k>>
  IN  /\ safeRuns[r].pc = "unlock"
      /\ \/ advisory' = [advisory EXCEPT ![x] = IF @ > 0 THEN @ - 1 ELSE @]
         \/ UNCHANGED advisory
      /\ EndRun(r)

\* A connection is dropped, or recycled by the pool: its session ends and takes its locks
\* along; the run in progress goes on over other connections.
LoseConnection(i, k) ==
  /\ advisory[<<i, k>>] > 0
  /\ advisory' = [advisory EXCEPT ![<<i, k>>] = 0]
  /\ safeRuns' = [r \in SafeRun |->
       IF safeRuns[r].pc = "scan" /\ safeRuns[r].at = i THEN [safeRuns[r] EXCEPT !.lost = TRUE]
       ELSE safeRuns[r]]
  /\ UNCHANGED scheduler

\* The process ends: Postgres closes its sessions and drops their locks.
SchedulerCrash(i) ==
  /\ scheduler[i] # Stopped
  /\ scheduler' = [scheduler EXCEPT ![i] = Stopped]
  /\ advisory' = [x \in Server \X Connection |-> IF x[1] = i THEN 0 ELSE advisory[x]]
  /\ safeRuns' = [r \in SafeRun |->
       IF safeRuns[r] # NoRun /\ safeRuns[r].at = i THEN NoRun ELSE safeRuns[r]]

SchedulerNext ==
  \/ \E i \in Server :
       \/ StartScheduler(i) \/ BootScheduler(i) \/ StopScheduler(i) \/ SchedulerCrash(i)
       \/ \E r \in SafeRun : BeginRun(r, i)
       \/ \E k \in Connection : LoseConnection(i, k)
  \/ \E r \in SafeRun :
       \/ \E k \in Connection : TryLock(r, k) \/ Unlock(r, k)
       \/ \E t \in Tenant : ScanTenant(r, t)
       \/ EndScan(r)

SchedulerSpec == SchedulerInit /\ [][SchedulerNext]_schedulerVars
-----------------------------------------------------------------------------
SchedulerTypeOK ==
  /\ scheduler \in [Server -> [running: BOOLEAN, inFlight: BOOLEAN, boots: 0..MaxTimers,
                               timer: BOOLEAN, intervals: 0..MaxTimers]]
  /\ advisory \in [Server \X Connection -> 0..MaxNesting]
  /\ DOMAIN safeRuns = SafeRun
  /\ \A r \in SafeRun :
       \/ safeRuns[r] = NoRun
       \/ safeRuns[r] \in [pc: {"lock", "scan", "unlock"}, left: SUBSET Tenant, at: Server, lost: BOOLEAN]

Scanning == { r \in SafeRun : safeRuns[r].pc = "scan" }

(***************************************************************************)
(* The lock does what a lock can: of the runs that scan tenants, in one    *)
(* process or in two, at most one has not lost the session of its lock,    *)
(* although the lock nests, unlocks miss it or fail, timers leak over a    *)
(* stop, connections end and processes crash.                              *)
(***************************************************************************)
OneRunUnderLock == Cardinality({ r \in Scanning : ~safeRuns[r].lost }) <= 1

(***************************************************************************)
(* "Only one instance executes reconciliation at a time", as the design    *)
(* notes of the scheduler say of its advisory lock.                        *)
(***************************************************************************)
OneRunAtATime == Cardinality(Scanning) <= 1
=============================================================================
