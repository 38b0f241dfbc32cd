--------------------------- MODULE Processes_proofs ---------------------------
(***************************************************************************)
(* What the server processes keep in memory, for any number of them: the   *)
(* reconciliation scheduler, the integrity audit, the offline queue and    *)
(* the WebSocket connections.                                              *)
(***************************************************************************)
EXTENDS Scheduler, IntegrityAudit, OfflineQueue, Sockets,
        FiniteSetTheorems, SequenceTheorems, TLAPS

-----------------------------------------------------------------------------
(* The reconciliation scheduler. *)

UnderWay(r) == safeRuns[r] # NoRun

Holds(x) == advisory[x] > 0

\* The lock is one connection's, as often as that one took it.
OneHolder ==
  \A x, y \in Server \X Connection : Holds(x) /\ Holds(y) => x = y

\* The flag of a process is set while a call of it is in progress, of which there is one.
FlagIsSet ==
  /\ \A r \in SafeRun : UnderWay(r) => scheduler[safeRuns[r].at].inFlight
  /\ \A r, q \in SafeRun : UnderWay(r) /\ UnderWay(q) /\ safeRuns[r].at = safeRuns[q].at => r = q

\* A scan goes on under a lock of its own process unless that was lost: only the run itself
\* unlocks there.
ScansHoldLock ==
  \A r \in SafeRun : safeRuns[r].pc = "scan" /\ ~safeRuns[r].lost =>
    \E k \in Connection : Holds(<<safeRuns[r].at, k>>)

\* The timer known is one of the intervals; the bound is on those and the boots to come.
TimersCount ==
  \A i \in Server :
    /\ scheduler[i].boots + scheduler[i].intervals <= MaxTimers
    /\ scheduler[i].timer => scheduler[i].intervals > 0

SchedulerInv == SchedulerTypeOK /\ TimersCount /\ OneHolder /\ FlagIsSet /\ ScansHoldLock

(* What a typed call looks like. *)

LEMMA RunShape ==
  ASSUME SchedulerTypeOK, NEW r \in SafeRun
  PROVE  /\ UnderWay(r) <=> safeRuns[r].pc # "none"
         /\ UnderWay(r) => /\ safeRuns[r] \in [pc: {"lock", "scan", "unlock"}, left: SUBSET Tenant, at: Server, lost: BOOLEAN]
                         /\ safeRuns[r].at \in Server
BY DEF SchedulerTypeOK, UnderWay, NoRun

LEMMA InitEstablishes == SchedulerInit => SchedulerInv
<1> SUFFICES ASSUME SchedulerInit PROVE SchedulerInv
  OBVIOUS
<1> USE DEF SchedulerInit
<1>1. SchedulerTypeOK
  BY MaxTimersAssumption, MaxNestingAssumption DEF SchedulerTypeOK, Stopped, NoRun
<1>2. TimersCount
  BY MaxTimersAssumption DEF TimersCount, Stopped
<1>3. OneHolder
  BY DEF OneHolder, Holds
<1>4. FlagIsSet /\ ScansHoldLock
  BY DEF FlagIsSet, ScansHoldLock, UnderWay, NoRun
<1> QED
  BY <1>1, <1>2, <1>3, <1>4 DEF SchedulerInv

(* What start, bootstrap and stop write in the record of a process. *)
LEMMA TimersKeep ==
  ASSUME SchedulerInv, NEW i \in Server, StartScheduler(i) \/ BootScheduler(i) \/ StopScheduler(i)
  PROVE  SchedulerInv'
<1> USE DEF SchedulerInv
<1> DEFINE s == scheduler[i]
           t == scheduler'[i]
           Loose == [running: BOOLEAN, inFlight: BOOLEAN, boots: Int, timer: BOOLEAN, intervals: Int]
<1>1. /\ s.boots \in 0..MaxTimers /\ s.intervals \in 0..MaxTimers
      /\ s.boots + s.intervals <= MaxTimers
      /\ s.timer => s.intervals > 0
      /\ scheduler \in [Server -> Loose]
  BY MaxTimersAssumption DEF SchedulerTypeOK, TimersCount
<1>2. /\ scheduler' \in [Server -> Loose]
      /\ \A j \in Server : j # i => scheduler'[j] = scheduler[j]
      /\ t.inFlight = s.inFlight
  <2>1. CASE StartScheduler(i)
    BY <1>1, <2>1 DEF StartScheduler
  <2>2. CASE BootScheduler(i) /\ scheduler' = [scheduler EXCEPT ![i].boots = @ - 1, ![i].timer = TRUE,
                                                               ![i].intervals = @ + 1]
    BY <1>1, <2>2
  <2>3. CASE BootScheduler(i) /\ scheduler' = [scheduler EXCEPT ![i].boots = @ - 1]
    BY <1>1, <2>3
  <2>4. CASE StopScheduler(i) /\ s.timer
    BY <1>1, <2>4 DEF StopScheduler
  <2>5. CASE StopScheduler(i) /\ ~s.timer
    <3>1. s \in Loose
      BY <1>1
    <3>2. scheduler' = [scheduler EXCEPT ![i] = [s EXCEPT !.running = FALSE, !.timer = FALSE,
                                           !.intervals = IF s.timer THEN @ - 1 ELSE @]]
      BY <2>5, <1>1 DEF StopScheduler
    <3>3. (IF s.timer THEN s.intervals - 1 ELSE s.intervals) = s.intervals
      BY <2>5
    <3>4. scheduler' = [scheduler EXCEPT ![i] = [s EXCEPT !.running = FALSE, !.timer = FALSE, !.intervals = @]]
      BY <3>2, <3>3, Zenon
    <3> QED
      BY <1>1, <3>1, <3>4
  <2> QED
    BY <2>1, <2>2, <2>3, <2>4, <2>5 DEF BootScheduler
<1>3. /\ t.boots \in 0..MaxTimers /\ t.intervals \in 0..MaxTimers
      /\ t.boots + t.intervals <= MaxTimers
      /\ t.timer => t.intervals > 0
  <2>1. CASE StartScheduler(i)
    BY <1>1, <2>1, MaxTimersAssumption DEF StartScheduler
  <2>2. CASE BootScheduler(i)
    BY <1>1, <2>2, MaxTimersAssumption DEF BootScheduler
  <2>3. CASE StopScheduler(i)
    BY <1>1, <2>3, MaxTimersAssumption DEF StopScheduler
  <2> QED
    BY <2>1, <2>2, <2>3
<1>4. UNCHANGED <<advisory, safeRuns>>
  BY DEF StartScheduler, BootScheduler, StopScheduler
<1>5. SchedulerTypeOK'
  BY <1>2, <1>3, <1>4 DEF SchedulerTypeOK
<1>6. TimersCount'
  BY <1>2, <1>3 DEF TimersCount
<1>7. OneHolder' /\ ScansHoldLock'
  BY <1>4 DEF OneHolder, ScansHoldLock, Holds
<1>8. FlagIsSet'
  BY <1>2, <1>4, RunShape DEF FlagIsSet, UnderWay
<1> QED
  BY <1>5, <1>6, <1>7, <1>8

(* safeRun begins only where no call is in progress, and then there is one. *)
LEMMA BeginKeeps ==
  ASSUME SchedulerInv, NEW i \in Server, NEW r \in SafeRun, BeginRun(r, i)
  PROVE  SchedulerInv'
<1> USE DEF SchedulerInv
<1>1. /\ safeRuns' = [safeRuns EXCEPT ![r] = [pc |-> "lock", left |-> {}, at |-> i, lost |-> FALSE]]
      /\ scheduler' = [scheduler EXCEPT ![i].inFlight = TRUE]
      /\ advisory' = advisory
      /\ ~scheduler[i].inFlight /\ ~UnderWay(r)
  BY DEF BeginRun, MayRun, UnderWay
<1>2. SchedulerTypeOK'
  <2>1. scheduler' \in [Server -> [running: BOOLEAN, inFlight: BOOLEAN, boots: 0..MaxTimers,
                                   timer: BOOLEAN, intervals: 0..MaxTimers]]
    BY <1>1 DEF SchedulerTypeOK
  <2>2. /\ DOMAIN safeRuns' = SafeRun
        /\ safeRuns'[r] \in [pc: {"lock", "scan", "unlock"}, left: SUBSET Tenant, at: Server, lost: BOOLEAN]
    BY <1>1 DEF SchedulerTypeOK
  <2>3. \A q \in SafeRun : q # r => safeRuns'[q] = safeRuns[q]
    BY <1>1 DEF SchedulerTypeOK
  <2> QED
    BY <1>1, <2>1, <2>2, <2>3 DEF SchedulerTypeOK
<1>3. TimersCount'
  BY <1>1 DEF TimersCount, SchedulerTypeOK
<1>4. OneHolder'
  BY <1>1 DEF OneHolder, Holds
<1>a. /\ safeRuns'[r] = [pc |-> "lock", left |-> {}, at |-> i, lost |-> FALSE]
      /\ \A q \in SafeRun : q # r => safeRuns'[q] = safeRuns[q]
      /\ scheduler'[i].inFlight
      /\ \A j \in Server : j # i => scheduler'[j] = scheduler[j]
  BY <1>1 DEF SchedulerTypeOK
<1>b. \A q \in SafeRun : UnderWay(q) => safeRuns[q].at \in Server /\ safeRuns[q].at # i
  BY <1>1, RunShape DEF FlagIsSet
<1>5. FlagIsSet'
  <2>1. \A q \in SafeRun : q # r /\ UnderWay(q)' => UnderWay(q) /\ safeRuns'[q].at = safeRuns[q].at
    BY <1>a DEF UnderWay
  <2>2. safeRuns'[r].at = i
    BY <1>a
  <2> QED
    BY <1>a, <1>b, <2>1, <2>2 DEF FlagIsSet
<1>6. ScansHoldLock'
  <2>1. safeRuns'[r].pc # "scan"
    BY <1>a
  <2> QED
    BY <1>1, <1>a, <2>1 DEF ScansHoldLock, Holds
<1> QED
  BY <1>2, <1>3, <1>4, <1>5, <1>6

(* The end of a call clears the flag of its process, where no other call is. *)
LEMMA EndKeeps ==
  ASSUME SchedulerInv, NEW r \in SafeRun, UnderWay(r), EndRun(r)
  PROVE  /\ scheduler' \in [Server -> [running: BOOLEAN, inFlight: BOOLEAN, boots: 0..MaxTimers,
                                       timer: BOOLEAN, intervals: 0..MaxTimers]]
         /\ DOMAIN safeRuns' = SafeRun /\ safeRuns'[r] = NoRun
         /\ \A q \in SafeRun : q # r => safeRuns'[q] = safeRuns[q]
         /\ TimersCount' /\ FlagIsSet'
<1> USE DEF SchedulerInv
<1>1. /\ safeRuns' = [safeRuns EXCEPT ![r] = NoRun]
      /\ scheduler' = [scheduler EXCEPT ![safeRuns[r].at].inFlight = FALSE]
      /\ safeRuns[r].at \in Server
  BY RunShape DEF EndRun
<1>0. scheduler \in [Server -> [running: BOOLEAN, inFlight: BOOLEAN, boots: 0..MaxTimers,
                                timer: BOOLEAN, intervals: 0..MaxTimers]]
  BY DEF SchedulerTypeOK
<1>2. scheduler' \in [Server -> [running: BOOLEAN, inFlight: BOOLEAN, boots: 0..MaxTimers,
                                 timer: BOOLEAN, intervals: 0..MaxTimers]]
  BY <1>0, <1>1
<1>3. /\ DOMAIN safeRuns' = SafeRun /\ safeRuns'[r] = NoRun
      /\ \A q \in SafeRun : q # r => safeRuns'[q] = safeRuns[q]
  BY <1>1 DEF SchedulerTypeOK
<1>4. TimersCount'
  BY <1>1 DEF TimersCount, SchedulerTypeOK
<1>5. \A q \in SafeRun : UnderWay(q)' => q # r /\ UnderWay(q) /\ safeRuns'[q] = safeRuns[q]
  BY <1>3 DEF UnderWay
<1>6. FlagIsSet'
  BY <1>1, <1>5, RunShape DEF FlagIsSet, SchedulerTypeOK
<1> QED
  BY <1>2, <1>3, <1>4, <1>6

(* The lock is taken only while nobody else has it. *)
LEMMA TryLockKeeps ==
  ASSUME SchedulerInv, NEW r \in SafeRun, NEW k \in Connection, TryLock(r, k)
  PROVE  SchedulerInv'
<1> USE DEF SchedulerInv
<1> DEFINE i == safeRuns[r].at
           free == \A x \in (Server \X Connection) \ {<<i, k>>} : advisory[x] = 0
<1>1. UnderWay(r) /\ i \in Server /\ safeRuns[r].pc = "lock"
      /\ safeRuns[r] \in [pc: {"lock", "scan", "unlock"}, left: SUBSET Tenant, at: Server, lost: BOOLEAN]
  BY RunShape DEF TryLock
<1>2. CASE /\ free /\ UNCHANGED scheduler /\ advisory[<<i, k>>] < MaxNesting
           /\ advisory' = [advisory EXCEPT ![<<i, k>>] = @ + 1]
           /\ safeRuns' = [safeRuns EXCEPT ![r].pc = "scan", ![r].left = Tenant]
  <2>1. /\ advisory[<<i, k>>] < MaxNesting
        /\ advisory' = [advisory EXCEPT ![<<i, k>>] = @ + 1]
        /\ safeRuns' = [safeRuns EXCEPT ![r].pc = "scan", ![r].left = Tenant]
    BY <1>2
  <2>2. /\ DOMAIN safeRuns' = SafeRun
        /\ safeRuns'[r] = [safeRuns[r] EXCEPT !.pc = "scan", !.left = Tenant]
        /\ \A q \in SafeRun : q # r => safeRuns'[q] = safeRuns[q]
    BY <2>1 DEF SchedulerTypeOK
  <2>3. /\ safeRuns'[r] \in [pc: {"lock", "scan", "unlock"}, left: SUBSET Tenant, at: Server, lost: BOOLEAN]
        /\ safeRuns'[r].at = i
    BY <1>1, <2>2
  <2>4. /\ advisory' \in [Server \X Connection -> 0..MaxNesting]
        /\ advisory'[<<i, k>>] > 0
        /\ \A x \in Server \X Connection : x # <<i, k>> => advisory'[x] = 0
    BY <1>1, <1>2, <2>1, MaxNestingAssumption DEF SchedulerTypeOK
  <2>5. SchedulerTypeOK' /\ TimersCount'
    BY <1>2, <2>2, <2>3, <2>4 DEF SchedulerTypeOK, TimersCount
  <2>6. OneHolder'
    BY <2>4 DEF OneHolder, Holds
  <2>7. FlagIsSet'
    <3>1. \A q \in SafeRun : UnderWay(q)' => UnderWay(q) /\ safeRuns'[q].at = safeRuns[q].at
      BY <1>1, <2>2, <2>3 DEF UnderWay
    <3> QED
      BY <1>2, <3>1 DEF FlagIsSet
  <2>8. ScansHoldLock'
    <3>1. ASSUME NEW q \in SafeRun, q # r, safeRuns[q].pc = "scan", ~safeRuns[q].lost
          PROVE  safeRuns[q].at = i
      <4>1. UnderWay(q) /\ safeRuns[q].at \in Server
        BY <3>1, RunShape DEF NoRun
      <4>2. PICK j \in Connection : advisory[<<safeRuns[q].at, j>>] > 0
        BY <3>1 DEF ScansHoldLock, Holds
      <4> QED
        BY <1>2, <4>1, <4>2
    <3>2. \A q \in SafeRun : safeRuns'[q].pc = "scan" /\ ~safeRuns'[q].lost => safeRuns'[q].at = i
      BY <2>2, <2>3, <3>1
    <3> QED
      BY <2>4, <3>2 DEF ScansHoldLock, Holds
  <2> QED
    BY <2>5, <2>6, <2>7, <2>8
<1>3. CASE EndRun(r) /\ UNCHANGED advisory
  <2>1. SchedulerTypeOK'
    BY <1>1, <1>3, EndKeeps DEF SchedulerTypeOK
  <2>2. OneHolder' /\ ScansHoldLock'
    BY <1>1, <1>3, EndKeeps DEF OneHolder, ScansHoldLock, Holds, NoRun
  <2> QED
    BY <1>1, <1>3, <2>1, <2>2, EndKeeps
<1> QED
  BY <1>2, <1>3 DEF TryLock

(* A scan moves on: nothing changes but how much is left of it. *)
LEMMA ScanKeeps ==
  ASSUME SchedulerInv, NEW r \in SafeRun, EndScan(r) \/ \E t \in Tenant : ScanTenant(r, t)
  PROVE  SchedulerInv'
<1> USE DEF SchedulerInv
<1>1. /\ UNCHANGED <<scheduler, advisory>>
      /\ DOMAIN safeRuns' = SafeRun
      /\ \A q \in SafeRun : q # r => safeRuns'[q] = safeRuns[q]
  BY DEF EndScan, ScanTenant, SchedulerTypeOK
<1>2. UnderWay(r) /\ safeRuns[r] \in [pc: {"lock", "scan", "unlock"}, left: SUBSET Tenant, at: Server, lost: BOOLEAN]
  BY RunShape DEF EndScan, ScanTenant
<1>3. /\ safeRuns'[r] \in [pc: {"lock", "scan", "unlock"}, left: SUBSET Tenant, at: Server, lost: BOOLEAN]
      /\ safeRuns'[r].at = safeRuns[r].at
      /\ safeRuns[r].pc = "scan"
      /\ safeRuns'[r].pc = "scan" => safeRuns'[r].lost = safeRuns[r].lost
  <2>1. CASE EndScan(r)
    BY <1>2, <2>1 DEF EndScan, SchedulerTypeOK
  <2>2. CASE \E t \in Tenant : ScanTenant(r, t)
    BY <1>2, <2>2 DEF ScanTenant, SchedulerTypeOK
  <2> QED
    BY <2>1, <2>2
<1>4. SchedulerTypeOK' /\ TimersCount' /\ OneHolder'
  BY <1>1, <1>3 DEF SchedulerTypeOK, TimersCount, OneHolder, Holds
<1>5. FlagIsSet'
  <2>1. \A q \in SafeRun : UnderWay(q)' => UnderWay(q) /\ safeRuns'[q].at = safeRuns[q].at
    BY <1>1, <1>2, <1>3 DEF UnderWay
  <2> QED
    BY <1>1, <2>1 DEF FlagIsSet
<1>6. ScansHoldLock'
  BY <1>1, <1>3 DEF ScansHoldLock, Holds
<1> QED
  BY <1>4, <1>5, <1>6

(* Wherever the unlock goes, it goes to a connection of a process without a scan. *)
LEMMA UnlockKeeps ==
  ASSUME SchedulerInv, NEW r \in SafeRun, NEW k \in Connection, Unlock(r, k)
  PROVE  SchedulerInv'
<1> USE DEF SchedulerInv
<1> DEFINE x == <<safeRuns[r].at, k>>
<1>1. UnderWay(r) /\ safeRuns[r].at \in Server /\ safeRuns[r].pc = "unlock" /\ EndRun(r)
  BY RunShape DEF Unlock
<1>2. /\ advisory' \in [Server \X Connection -> 0..MaxNesting]
      /\ \A y \in Server \X Connection : y # x => advisory'[y] = advisory[y]
      /\ \A y \in Server \X Connection : advisory'[y] > 0 => advisory[y] > 0
  <2>0. advisory \in [Server \X Connection -> 0..MaxNesting] /\ x \in Server \X Connection
    BY <1>1 DEF SchedulerTypeOK
  <2>1. CASE advisory' = [advisory EXCEPT ![x] = IF @ > 0 THEN @ - 1 ELSE @]
    BY <2>0, <2>1, MaxNestingAssumption
  <2>2. CASE UNCHANGED advisory
    BY <2>2 DEF SchedulerTypeOK
  <2> QED
    BY <2>1, <2>2 DEF Unlock
<1>3. SchedulerTypeOK' /\ TimersCount' /\ FlagIsSet'
  BY <1>1, <1>2, EndKeeps DEF SchedulerTypeOK
<1>4. OneHolder'
  BY <1>2 DEF OneHolder, Holds
<1>5. ScansHoldLock'
  <2> SUFFICES ASSUME NEW q \in SafeRun, safeRuns'[q].pc = "scan", ~safeRuns'[q].lost
               PROVE  \E j \in Connection : advisory'[<<safeRuns'[q].at, j>>] > 0
    BY DEF ScansHoldLock, Holds
  <2>1. q # r /\ safeRuns'[q] = safeRuns[q]
    BY <1>1, EndKeeps DEF NoRun
  <2>2. UnderWay(q) /\ safeRuns[q].at \in Server
    BY <2>1, RunShape DEF NoRun
  <2>3. safeRuns[q].at # safeRuns[r].at
    BY <1>1, <2>1, <2>2 DEF FlagIsSet
  <2>4. PICK j \in Connection : advisory[<<safeRuns[q].at, j>>] > 0
    BY <2>1 DEF ScansHoldLock, Holds
  <2> QED
    BY <1>2, <2>1, <2>2, <2>3, <2>4
<1> QED
  BY <1>3, <1>4, <1>5

(* A crash takes the calls and the locks of its process, and of no other. *)
LEMMA CrashKeeps ==
  ASSUME SchedulerInv, NEW i \in Server, SchedulerCrash(i)
  PROVE  SchedulerInv'
<1> USE DEF SchedulerInv
<1>1. /\ scheduler' = [scheduler EXCEPT ![i] = Stopped]
      /\ advisory' = [x \in Server \X Connection |-> IF x[1] = i THEN 0 ELSE advisory[x]]
      /\ safeRuns' = [r \in SafeRun |->
           IF safeRuns[r] # NoRun /\ safeRuns[r].at = i THEN NoRun ELSE safeRuns[r]]
  BY DEF SchedulerCrash
<1>2. \A r \in SafeRun :
        \/ safeRuns'[r] = NoRun
        \/ /\ safeRuns'[r] = safeRuns[r]
           /\ UnderWay(r) => safeRuns[r].at # i
  BY <1>1 DEF UnderWay
<1>3. SchedulerTypeOK'
  <2>1. scheduler' \in [Server -> [running: BOOLEAN, inFlight: BOOLEAN, boots: 0..MaxTimers,
                                   timer: BOOLEAN, intervals: 0..MaxTimers]]
    BY <1>1, MaxTimersAssumption DEF SchedulerTypeOK, Stopped
  <2>2. advisory' \in [Server \X Connection -> 0..MaxNesting]
    BY <1>1, MaxNestingAssumption DEF SchedulerTypeOK
  <2>3. DOMAIN safeRuns' = SafeRun
    BY <1>1
  <2> QED
    BY <1>2, <2>1, <2>2, <2>3 DEF SchedulerTypeOK
<1>4. TimersCount'
  BY <1>1, MaxTimersAssumption DEF TimersCount, SchedulerTypeOK, Stopped
<1>5. OneHolder'
  <2>1. \A x \in Server \X Connection : advisory'[x] > 0 => advisory[x] > 0
    BY <1>1
  <2> QED
    BY <2>1 DEF OneHolder, Holds
<1>6. FlagIsSet'
  <2>1. \A r \in SafeRun : UnderWay(r)' => UnderWay(r) /\ safeRuns'[r] = safeRuns[r] /\ safeRuns[r].at # i
    BY <1>2 DEF UnderWay
  <2>2. \A j \in Server : j # i => scheduler'[j] = scheduler[j]
    BY <1>1 DEF SchedulerTypeOK
  <2> QED
    BY <2>1, <2>2, RunShape DEF FlagIsSet
<1>7. ScansHoldLock'
  <2> SUFFICES ASSUME NEW q \in SafeRun, safeRuns'[q].pc = "scan", ~safeRuns'[q].lost
               PROVE  \E j \in Connection : advisory'[<<safeRuns'[q].at, j>>] > 0
    BY DEF ScansHoldLock, Holds
  <2>1. safeRuns'[q] = safeRuns[q] /\ safeRuns[q].pc = "scan" /\ ~safeRuns[q].lost
    BY <1>2 DEF NoRun
  <2>2. UnderWay(q) /\ safeRuns[q].at \in Server /\ safeRuns[q].at # i
    BY <1>2, <2>1, RunShape DEF NoRun
  <2>3. PICK j \in Connection : advisory[<<safeRuns[q].at, j>>] > 0
    BY <2>1 DEF ScansHoldLock, Holds
  <2>4. advisory'[<<safeRuns[q].at, j>>] = advisory[<<safeRuns[q].at, j>>]
    BY <1>1, <2>2
  <2> QED
    BY <2>1, <2>3, <2>4
<1> QED
  BY <1>3, <1>4, <1>5, <1>6, <1>7

(* A lost connection takes its lock, and the scans of its process are marked. *)
LEMMA LoseKeeps ==
  ASSUME SchedulerInv, NEW i \in Server, NEW k \in Connection, LoseConnection(i, k)
  PROVE  SchedulerInv'
<1> USE DEF SchedulerInv
<1>1. /\ advisory' = [advisory EXCEPT ![<<i, k>>] = 0]
      /\ scheduler' = scheduler
      /\ DOMAIN safeRuns' = SafeRun
      /\ \A r \in SafeRun :
           safeRuns'[r] = IF safeRuns[r].pc = "scan" /\ safeRuns[r].at = i
                          THEN [safeRuns[r] EXCEPT !.lost = TRUE] ELSE safeRuns[r]
  BY DEF LoseConnection
<1>2. /\ advisory' \in [Server \X Connection -> 0..MaxNesting]
      /\ \A x \in Server \X Connection : Holds(x)' => Holds(x)
      /\ \A x \in Server \X Connection : x[1] # i => advisory'[x] = advisory[x]
  BY <1>1, MaxNestingAssumption DEF SchedulerTypeOK, Holds
<1>3. ASSUME NEW r \in SafeRun
      PROVE  \/ safeRuns'[r] = NoRun /\ safeRuns[r] = NoRun
             \/ /\ safeRuns[r] \in [pc: {"lock", "scan", "unlock"}, left: SUBSET Tenant, at: Server, lost: BOOLEAN]
                /\ safeRuns'[r] \in [pc: {"lock", "scan", "unlock"}, left: SUBSET Tenant, at: Server, lost: BOOLEAN]
                /\ safeRuns'[r].pc = safeRuns[r].pc /\ safeRuns'[r].at = safeRuns[r].at
                /\ safeRuns'[r].pc = "scan" /\ ~safeRuns'[r].lost => ~safeRuns[r].lost /\ safeRuns[r].at # i
  <2>1. CASE safeRuns[r] = NoRun
    BY <1>1, <2>1 DEF NoRun
  <2>2. CASE safeRuns[r] \in [pc: {"lock", "scan", "unlock"}, left: SUBSET Tenant, at: Server, lost: BOOLEAN]
    BY <1>1, <2>2
  <2> QED
    BY <2>1, <2>2 DEF SchedulerTypeOK
<1>4. SchedulerTypeOK' /\ TimersCount'
  BY <1>1, <1>2, <1>3 DEF SchedulerTypeOK, TimersCount
<1>5. OneHolder'
  BY <1>2 DEF OneHolder
<1>6. FlagIsSet'
  <2>1. \A r \in SafeRun : UnderWay(r)' => UnderWay(r) /\ safeRuns'[r].at = safeRuns[r].at
    BY <1>3 DEF UnderWay, NoRun
  <2> QED
    BY <1>1, <2>1 DEF FlagIsSet
<1>7. ScansHoldLock'
  <2> SUFFICES ASSUME NEW q \in SafeRun, safeRuns'[q].pc = "scan", ~safeRuns'[q].lost
               PROVE  \E j \in Connection : advisory'[<<safeRuns'[q].at, j>>] > 0
    BY DEF ScansHoldLock, Holds
  <2>1. /\ safeRuns[q].pc = "scan" /\ ~safeRuns[q].lost
        /\ safeRuns[q].at \in Server /\ safeRuns[q].at # i /\ safeRuns'[q].at = safeRuns[q].at
    BY <1>3 DEF NoRun
  <2>2. PICK j \in Connection : advisory[<<safeRuns[q].at, j>>] > 0
    BY <2>1 DEF ScansHoldLock, Holds
  <2> QED
    BY <1>2, <2>1, <2>2
<1> QED
  BY <1>4, <1>5, <1>6, <1>7

\* The inductive invariant of every process, connection and call.
THEOREM SchedulerInvariance == SchedulerSpec => []SchedulerInv
<1>1. SchedulerInv /\ [SchedulerNext]_schedulerVars => SchedulerInv'
  <2> SUFFICES ASSUME SchedulerInv, [SchedulerNext]_schedulerVars PROVE SchedulerInv'
    OBVIOUS
  <2>1. CASE \E i \in Server : StartScheduler(i) \/ BootScheduler(i) \/ StopScheduler(i)
    BY <2>1, TimersKeep
  <2>2. CASE \E i \in Server : SchedulerCrash(i)
    BY <2>2, CrashKeeps
  <2>3. CASE \E i \in Server, r \in SafeRun : BeginRun(r, i)
    BY <2>3, BeginKeeps
  <2>4. CASE \E r \in SafeRun, k \in Connection : TryLock(r, k)
    BY <2>4, TryLockKeeps
  <2>5. CASE \E r \in SafeRun, k \in Connection : Unlock(r, k)
    BY <2>5, UnlockKeeps
  <2>6. CASE \E r \in SafeRun : EndScan(r) \/ \E t \in Tenant : ScanTenant(r, t)
    BY <2>6, ScanKeeps
  <2>8. CASE \E i \in Server, k \in Connection : LoseConnection(i, k)
    BY <2>8, LoseKeeps
  <2>7. CASE UNCHANGED schedulerVars
    <3>1. scheduler' = scheduler /\ advisory' = advisory /\ safeRuns' = safeRuns
      BY <2>7 DEF schedulerVars
    <3>2. SchedulerTypeOK' /\ TimersCount'
      BY <3>1 DEF SchedulerInv, SchedulerTypeOK, TimersCount
    <3>3. OneHolder' /\ FlagIsSet' /\ ScansHoldLock'
      BY <3>1 DEF SchedulerInv, OneHolder, FlagIsSet, ScansHoldLock, Holds, UnderWay
    <3> QED
      BY <3>2, <3>3 DEF SchedulerInv
  <2> QED
    BY <2>1, <2>2, <2>3, <2>4, <2>5, <2>6, <2>7, <2>8 DEF SchedulerNext
<1> QED
  BY <1>1, InitEstablishes, PTL DEF SchedulerSpec

(***************************************************************************)
(* LifecycleReconciliationScheduler: of the runs that scan, at most one    *)
(* has not lost its lock.  Two such runs would hold the advisory lock over *)
(* two connections, of two processes, because a process has one call, and  *)
(* the lock has one holder.                                                *)
(***************************************************************************)
THEOREM LockedScansExclude == SchedulerSpec => []OneRunUnderLock
<1>1. SchedulerInv => OneRunUnderLock
  <2> SUFFICES ASSUME SchedulerInv PROVE OneRunUnderLock
    OBVIOUS
  <2> DEFINE Locked == { r \in Scanning : ~safeRuns[r].lost }
  <2>1. ASSUME NEW r \in Locked, NEW q \in Locked PROVE r = q
    <3>1. /\ UnderWay(r) /\ safeRuns[r].at \in Server
          /\ UnderWay(q) /\ safeRuns[q].at \in Server
      BY RunShape DEF SchedulerInv, NoRun, Scanning
    <3>2. PICK j \in Connection : Holds(<<safeRuns[r].at, j>>)
      BY DEF SchedulerInv, ScansHoldLock, Scanning
    <3>3. PICK k \in Connection : Holds(<<safeRuns[q].at, k>>)
      BY DEF SchedulerInv, ScansHoldLock, Scanning
    <3>4. <<safeRuns[r].at, j>> = <<safeRuns[q].at, k>>
      BY <3>1, <3>2, <3>3 DEF SchedulerInv, OneHolder
    <3> QED
      <4>1. safeRuns[r].at = safeRuns[q].at /\ r \in SafeRun /\ q \in SafeRun
        BY <3>4 DEF Scanning
      <4> QED
        BY <3>1, <4>1 DEF SchedulerInv, FlagIsSet
  <2>2. CASE Locked = {}
    BY <2>2, FS_EmptySet DEF OneRunUnderLock
  <2>3. CASE Locked # {}
    <3>1. PICK r : r \in Locked
      BY <2>3
    <3>2. Locked = {r}
      BY <2>1, <3>1
    <3>3. Cardinality({r}) = 1
      BY FS_Singleton
    <3>4. Cardinality(Locked) <= 1
      BY <3>2, <3>3
    <3> QED
      BY <3>4 DEF OneRunUnderLock
  <2> QED
    BY <2>2, <2>3
<1> QED
  BY <1>1, SchedulerInvariance, PTL

-----------------------------------------------------------------------------
(* The integrity audit. *)

\* The files hold what the process holds, and the counter of a device stops at the limit
\* because reaching it blacklists the device.
AuditInv ==
  /\ AuditTypeOK
  /\ files = [blacklist |-> audit.blacklist, registry |-> audit.registry]
  /\ \A d \in Device : d \notin audit.blacklist => audit.violations[d] < MAX_VIOLATIONS

\* What the constructor makes of the files: their content and no violation.
LEMMA ConstructedAudit ==
  ASSUME AuditTypeOK \/ files = [blacklist |-> {}, registry |-> [d \in Device |-> {}]],
         audit' = Constructed(files), files' = files, intake' = NoIntake
  PROVE  AuditInv'
<1>1. files \in [blacklist: SUBSET Device, registry: [Device -> SUBSET {"unknown"}]]
  BY DEF AuditTypeOK
<1>2. /\ audit'.blacklist = files.blacklist /\ audit'.registry = files.registry
      /\ audit' \in [blacklist: SUBSET Device, registry: [Device -> SUBSET {"unknown"}],
                     processedHashes: SUBSET Narrative, violations: [Device -> 0..MAX_VIOLATIONS]]
      /\ \A d \in Device : audit'.violations[d] = 0
  BY <1>1, ViolationsAssumption DEF Constructed
<1>3. files' = [blacklist |-> audit'.blacklist, registry |-> audit'.registry]
  BY <1>1, <1>2
<1> QED
  BY <1>1, <1>2, <1>3, ViolationsAssumption DEF AuditInv, AuditTypeOK

(* An audit keeps the invariant and only adds to the blacklist and the links. *)
LEMMA AuditAdds ==
  ASSUME AuditInv, NEW n \in Narrative, NEW d \in Device, NEW trusted \in BOOLEAN,
         PerformFullAudit(n, d, trusted),
         intake' = NoIntake \/ intake' \in [at: {"handleIntake"}, narrative: Narrative, device: Device]
  PROVE  /\ AuditInv'
         /\ audit.blacklist \subseteq audit'.blacklist
         /\ \A e \in Device : audit.registry[e] \subseteq audit'.registry[e]
<1>1. CASE d \in audit.blacklist
  BY <1>1 DEF PerformFullAudit, AuditInv, AuditTypeOK
<1>2. CASE d \notin audit.blacklist
  <2> DEFINE flags == HighFlags(n, d, trusted)
  <2>1. PICK count : count = audit.violations[d] + (IF flags = {} THEN 0 ELSE 1)
    OBVIOUS
  <2>2. audit.violations[d] \in 0..MAX_VIOLATIONS /\ audit.violations[d] < MAX_VIOLATIONS
    BY <1>2 DEF AuditInv, AuditTypeOK
  <2>3. count \in 0..MAX_VIOLATIONS /\ count \in audit.violations[d]..(audit.violations[d] + 1)
    BY <2>1, <2>2, ViolationsAssumption
  <2>4. PICK black : black = IF count > audit.violations[d] /\ count >= MAX_VIOLATIONS
                               THEN audit.blacklist \cup {d} ELSE audit.blacklist
    OBVIOUS
  <2>5. PICK hashes : hashes = IF trusted THEN audit.processedHashes ELSE audit.processedHashes \cup {n}
    OBVIOUS
  <2>6. PICK links : links = [audit.registry EXCEPT ![d] = Links(d)]
    OBVIOUS
  <2>7. PICK counts : counts = [audit.violations EXCEPT ![d] = count]
    OBVIOUS
  <2>8. Audited(n, d, trusted) = [blacklist |-> black, registry |-> links,
                                  processedHashes |-> hashes, violations |-> counts]
    BY <2>1, <2>4, <2>5, <2>6, <2>7, Zenon DEF Audited
  <2>9. /\ audit' = [blacklist |-> black, registry |-> links, processedHashes |-> hashes, violations |-> counts]
        /\ files' = [blacklist |-> black, registry |-> links]
    BY <1>2, <2>8 DEF PerformFullAudit
  <2>10. /\ audit.blacklist \in SUBSET Device /\ audit.registry \in [Device -> SUBSET {"unknown"}]
         /\ audit.processedHashes \in SUBSET Narrative
         /\ audit.violations \in [Device -> 0..MAX_VIOLATIONS]
    BY DEF AuditInv, AuditTypeOK
  <2>11. /\ black \in SUBSET Device /\ hashes \in SUBSET Narrative
         /\ audit.blacklist \subseteq black
         /\ count >= MAX_VIOLATIONS => d \in black
    BY <2>2, <2>3, <2>4, <2>5, <2>10, ViolationsAssumption
  <2>12. /\ links \in [Device -> SUBSET {"unknown"}]
         /\ \A e \in Device : audit.registry[e] \subseteq links[e]
    BY <2>6, <2>10 DEF Links
  <2>13. /\ counts \in [Device -> 0..MAX_VIOLATIONS]
         /\ \A e \in Device : e \notin black => counts[e] < MAX_VIOLATIONS
    <3>1. counts[d] = count /\ \A e \in Device \ {d} : counts[e] = audit.violations[e]
      BY <2>7, <2>10
    <3>2. \A e \in Device : e \notin audit.blacklist => audit.violations[e] < MAX_VIOLATIONS
      BY DEF AuditInv
    <3> QED
      BY <2>3, <2>7, <2>10, <2>11, <3>1, <3>2, ViolationsAssumption
  <2> QED
    BY <2>9, <2>11, <2>12, <2>13 DEF AuditInv, AuditTypeOK
<1> QED
  BY <1>1, <1>2

LEMMA AuditSteps ==
  AuditInv /\ [AuditNext]_auditVars
    => AuditInv' /\ [/\ audit.blacklist \subseteq audit'.blacklist
                     /\ \A d \in Device : audit.registry[d] \subseteq audit'.registry[d]]_auditVars
<1> SUFFICES ASSUME AuditInv, [AuditNext]_auditVars
             PROVE  AuditInv' /\ [/\ audit.blacklist \subseteq audit'.blacklist
                                  /\ \A d \in Device : audit.registry[d] \subseteq audit'.registry[d]]_auditVars
  OBVIOUS
<1>1. CASE UNCHANGED auditVars
  BY <1>1 DEF auditVars, AuditInv, AuditTypeOK
<1>2. ASSUME NEW n \in Narrative, NEW d \in Device, BootstrapGate(n, d)
      PROVE  AuditInv' /\ audit.blacklist \subseteq audit'.blacklist
                       /\ \A e \in Device : audit.registry[e] \subseteq audit'.registry[e]
  BY <1>2, AuditAdds DEF BootstrapGate, IsTrusted, HasAuthor
<1>3. ASSUME HandleIntake
      PROVE  AuditInv' /\ audit.blacklist \subseteq audit'.blacklist
                       /\ \A e \in Device : audit.registry[e] \subseteq audit'.registry[e]
  <2>1. intake.narrative \in Narrative /\ intake.device \in Device
    BY <1>3 DEF HandleIntake, AuditInv, AuditTypeOK
  <2> QED
    BY <1>3, <2>1, AuditAdds DEF HandleIntake, IsTrusted, HasAuthor
<1>4. ASSUME AuditRestart
      PROVE  AuditInv' /\ audit.blacklist \subseteq audit'.blacklist
                       /\ \A e \in Device : audit.registry[e] \subseteq audit'.registry[e]
  <2>1. audit' = Constructed(files) /\ files' = files /\ intake' = NoIntake
    BY <1>4 DEF AuditRestart
  <2>2. AuditInv'
    BY <2>1, ConstructedAudit DEF AuditInv
  <2>3. audit'.blacklist = audit.blacklist /\ audit'.registry = audit.registry
    BY <2>1 DEF Constructed, AuditInv
  <2> QED
    BY <2>2, <2>3
<1> QED
  BY <1>1, <1>2, <1>3, <1>4 DEF AuditNext

\* The invariant of the audit holds of every run.
THEOREM AuditInvariance == AuditSpec => []AuditInv
<1>1. AuditInit => AuditInv
  <2> SUFFICES ASSUME AuditInit PROVE AuditInv
    OBVIOUS
  <2>1. /\ audit = [blacklist |-> {}, registry |-> [d \in Device |-> {}],
                    processedHashes |-> {}, violations |-> [d \in Device |-> 0]]
        /\ files = [blacklist |-> {}, registry |-> [d \in Device |-> {}]] /\ intake = NoIntake
    BY DEF AuditInit, Constructed
  <2> QED
    BY <2>1, ViolationsAssumption DEF AuditInv, AuditTypeOK
<1> QED
  BY <1>1, AuditSteps, PTL DEF AuditSpec

(***************************************************************************)
(* The integrity audit, for any devices and narratives: what a process has *)
(* blacklisted stays blacklisted, through restarts and later audits.       *)
(***************************************************************************)
THEOREM BlacklistLasts == AuditSpec => BlacklistIsPermanent
BY AuditInvariance, AuditSteps, PTL DEF AuditSpec, BlacklistIsPermanent

-----------------------------------------------------------------------------
(* The offline queue. *)

\* What waits, in the queue or in a round, waits there once, was queued and has no replay yet.
WaitsOnce ==
  /\ \A m, n \in DOMAIN queue : queue[m] = queue[n] => m = n
  /\ \A r, q \in SyncRound : \A m \in DOMAIN rounds[r], n \in DOMAIN rounds[q] :
       rounds[r][m] = rounds[q][n] => r = q /\ m = n
  /\ \A n \in DOMAIN queue, r \in SyncRound : \A m \in DOMAIN rounds[r] : queue[n] # rounds[r][m]

Fresh(i) == i \in queued /\ synced[i] = <<>>

WaitsFresh ==
  /\ \A n \in DOMAIN queue : Fresh(queue[n])
  /\ \A r \in SyncRound : \A n \in DOMAIN rounds[r] : Fresh(rounds[r][n])

\* What was queued waits somewhere or is replayed, once.
Waits(i) ==
  \/ \E n \in DOMAIN queue : queue[n] = i
  \/ \E r \in SyncRound : \E n \in DOMAIN rounds[r] : rounds[r][n] = i

Accounted ==
  \A i \in OfflineIntake :
    /\ synced[i] = <<>> \/ Len(synced[i]) = 1
    /\ i \notin queued => synced[i] = <<>>
    /\ i \in queued /\ synced[i] = <<>> => Waits(i)

QueueInv == QueueTypeOK /\ WaitsOnce /\ WaitsFresh /\ Accounted

LEMMA SeqShape ==
  ASSUME NEW S, NEW q \in Seq(S)
  PROVE  DOMAIN q = 1..Len(q) /\ Len(q) \in Nat /\ \A n \in DOMAIN q : q[n] \in S
BY LenProperties, ElementOfSeq

LEMMA AppendShape ==
  ASSUME NEW S, NEW q \in Seq(S), NEW x \in S
  PROVE  /\ Append(q, x) \in Seq(S)
         /\ DOMAIN Append(q, x) = 1..(Len(q) + 1)
         /\ \A n \in 1..Len(q) : Append(q, x)[n] = q[n]
         /\ Append(q, x)[Len(q) + 1] = x
<1>1. Append(q, x) \in Seq(S) /\ Len(Append(q, x)) = Len(q) + 1
  BY AppendProperties
<1>2. DOMAIN Append(q, x) = 1..Len(Append(q, x))
  BY <1>1, SeqShape
<1> QED
  BY <1>1, <1>2, AppendProperties

LEMMA TailShape ==
  ASSUME NEW S, NEW q \in Seq(S), q # <<>>
  PROVE  /\ Head(q) = q[1] /\ q[1] \in S /\ Tail(q) \in Seq(S) /\ Len(q) \in Nat \ {0}
         /\ DOMAIN Tail(q) = 1..(Len(q) - 1)
         /\ \A n \in 1..(Len(q) - 1) : Tail(q)[n] = q[n + 1]
<1>1. Tail(q) \in Seq(S) /\ Len(Tail(q)) = Len(q) - 1 /\ Head(q) = q[1] /\ Head(q) \in S
  BY HeadTailProperties
<1>2. DOMAIN Tail(q) = 1..Len(Tail(q)) /\ Len(q) \in Nat
  BY <1>1, SeqShape
<1>3. Len(q) # 0
  BY EmptySeq
<1> QED
  BY <1>1, <1>2, <1>3, HeadTailProperties

LEMMA QueueBegins == QueueInit => QueueInv
<1> SUFFICES ASSUME QueueInit PROVE QueueInv
  OBVIOUS
<1>1. QueueTypeOK
  BY EmptySeq DEF QueueInit, QueueTypeOK
<1>2. DOMAIN queue = {} /\ \A r \in SyncRound : DOMAIN rounds[r] = {}
  BY DEF QueueInit
<1>3. \A i \in OfflineIntake : i \notin queued /\ synced[i] = <<>>
  BY DEF QueueInit
<1> QED
  BY <1>1, <1>2, <1>3 DEF QueueInv, WaitsOnce, WaitsFresh, Accounted

LEMMA EnqueueKeeps ==
  ASSUME QueueInv, NEW i \in OfflineIntake, EnqueueIntake(i)
  PROVE  QueueInv'
<1>1. /\ i \notin queued /\ queue' = Append(queue, i) /\ queued' = queued \cup {i}
      /\ UNCHANGED <<rounds, synced>>
  BY DEF EnqueueIntake
<1>2. /\ queue \in Seq(OfflineIntake) /\ DOMAIN queue = 1..Len(queue) /\ Len(queue) \in Nat
      /\ queue' \in Seq(OfflineIntake) /\ DOMAIN queue' = 1..(Len(queue) + 1)
      /\ \A n \in 1..Len(queue) : queue'[n] = queue[n]
      /\ queue'[Len(queue) + 1] = i
  BY <1>1, AppendShape, SeqShape DEF QueueInv, QueueTypeOK
<1>3. \A n \in DOMAIN queue' : (n \in DOMAIN queue /\ queue'[n] = queue[n]) \/ (n = Len(queue) + 1 /\ queue'[n] = i)
  BY <1>2
<1>4. /\ \A n \in DOMAIN queue : queue[n] # i
      /\ \A r \in SyncRound : \A n \in DOMAIN rounds[r] : rounds[r][n] # i
      /\ synced[i] = <<>>
  BY <1>1 DEF QueueInv, WaitsFresh, Fresh, Accounted
<1>5. QueueTypeOK'
  BY <1>1, <1>2 DEF QueueInv, QueueTypeOK
<1>6. WaitsOnce'
  BY <1>1, <1>3, <1>4 DEF QueueInv, WaitsOnce
<1>7. WaitsFresh'
  BY <1>1, <1>3, <1>4 DEF QueueInv, WaitsFresh, Fresh
<1>8. Accounted'
  <2> SUFFICES ASSUME NEW j \in OfflineIntake
               PROVE  /\ synced[j] = <<>> \/ Len(synced[j]) = 1
                      /\ j \notin queued' => synced[j] = <<>>
                      /\ j \in queued' /\ synced[j] = <<>> => Waits(j)'
    BY <1>1 DEF Accounted
  <2>1. Waits(i)'
    BY <1>2 DEF Waits
  <2>2. Waits(j) => Waits(j)'
    BY <1>1, <1>2 DEF Waits
  <2> QED
    BY <1>1, <2>1, <2>2 DEF QueueInv, Accounted
<1> QED
  BY <1>5, <1>6, <1>7, <1>8 DEF QueueInv

LEMMA StartSyncKeeps ==
  ASSUME QueueInv, NEW r \in SyncRound, StartSync(r)
  PROVE  QueueInv'
<1>1. /\ rounds[r] = <<>> /\ queue' = <<>> /\ rounds' = [rounds EXCEPT ![r] = queue]
      /\ UNCHANGED <<synced, queued>>
  BY DEF StartSync
<1>2. DOMAIN rounds[r] = {} /\ DOMAIN queue' = {}
  BY <1>1
<1>3. rounds'[r] = queue /\ \A q \in SyncRound \ {r} : rounds'[q] = rounds[q]
  BY <1>1 DEF QueueInv, QueueTypeOK
<1>4. QueueTypeOK'
  BY <1>1, EmptySeq DEF QueueInv, QueueTypeOK
<1>5. WaitsOnce'
  BY <1>2, <1>3 DEF QueueInv, WaitsOnce
<1>6. WaitsFresh'
  BY <1>1, <1>2, <1>3 DEF QueueInv, WaitsFresh, Fresh
<1>7. \A j : Waits(j) => Waits(j)'
  BY <1>2, <1>3 DEF Waits
<1>8. Accounted'
  BY <1>1, <1>7 DEF QueueInv, Accounted
<1> QED
  BY <1>4, <1>5, <1>6, <1>8 DEF QueueInv

\* The place before the step of what is in the n-th place of a round after it.
Before(q, r, n) == IF q = r THEN n + 1 ELSE n

\* Intake i, the first of round r, leaves it: the rest keep their order.
Leaves(r, i) ==
  /\ rounds' \in [SyncRound -> Seq(OfflineIntake)]
  /\ 1 \in DOMAIN rounds[r] /\ i = rounds[r][1] /\ i \in OfflineIntake
  /\ \A q \in SyncRound : \A n \in DOMAIN rounds'[q] :
       /\ n \in Nat /\ Before(q, r, n) \in DOMAIN rounds[q]
       /\ rounds'[q][n] = rounds[q][Before(q, r, n)] /\ rounds'[q][n] # i
  /\ \A q \in SyncRound : \A m \in DOMAIN rounds[q] :
       rounds[q][m] # i => \E n \in DOMAIN rounds'[q] : rounds'[q][n] = rounds[q][m]

LEMMA RoundGoesOn ==
  ASSUME QueueInv, NEW r \in SyncRound, rounds[r] # <<>>, rounds' = [rounds EXCEPT ![r] = Tail(@)],
         NEW i, i = Head(rounds[r])
  PROVE  Leaves(r, i)
<1>1. rounds[r] \in Seq(OfflineIntake)
  BY DEF QueueInv, QueueTypeOK
<1>2. /\ Head(rounds[r]) = rounds[r][1] /\ rounds[r][1] \in OfflineIntake
      /\ Tail(rounds[r]) \in Seq(OfflineIntake) /\ Len(rounds[r]) \in Nat \ {0}
      /\ DOMAIN Tail(rounds[r]) = 1..(Len(rounds[r]) - 1)
      /\ \A n \in 1..(Len(rounds[r]) - 1) : Tail(rounds[r])[n] = rounds[r][n + 1]
      /\ DOMAIN rounds[r] = 1..Len(rounds[r])
  BY <1>1, TailShape, SeqShape
<1>3. rounds'[r] = Tail(rounds[r]) /\ \A q \in SyncRound \ {r} : rounds'[q] = rounds[q]
  BY DEF QueueInv, QueueTypeOK
<1>4. rounds' \in [SyncRound -> Seq(OfflineIntake)]
  BY <1>2 DEF QueueInv, QueueTypeOK
<1>5. \A q \in SyncRound : \A m \in DOMAIN rounds[q] : rounds[q][m] = rounds[r][1] => q = r /\ m = 1
  <2>1. 1 \in DOMAIN rounds[r]
    BY <1>2
  <2> QED
    BY <2>1 DEF QueueInv, WaitsOnce
<1>6. ASSUME NEW q \in SyncRound, NEW n \in DOMAIN rounds'[q]
      PROVE  /\ n \in Nat /\ Before(q, r, n) \in DOMAIN rounds[q]
             /\ rounds'[q][n] = rounds[q][Before(q, r, n)] /\ rounds'[q][n] # rounds[r][1]
  <2>1. CASE q = r
    <3>1. n \in 1..(Len(rounds[r]) - 1) /\ rounds'[q][n] = rounds[r][n + 1]
      BY <1>2, <1>3, <2>1
    <3>2. n + 1 \in DOMAIN rounds[r] /\ n + 1 # 1 /\ n \in Nat
      BY <1>2, <3>1
    <3> QED
      BY <1>5, <2>1, <3>1, <3>2 DEF Before
  <2>2. CASE q # r
    <3>1. rounds[q] \in Seq(OfflineIntake) /\ rounds'[q] = rounds[q]
      BY <1>3, <2>2 DEF QueueInv, QueueTypeOK
    <3>2. n \in DOMAIN rounds[q] /\ n \in Nat
      BY <3>1, SeqShape
    <3> QED
      BY <1>5, <2>2, <3>1, <3>2 DEF Before
  <2> QED
    BY <2>1, <2>2
<1>7. ASSUME NEW q \in SyncRound, NEW m \in DOMAIN rounds[q], rounds[q][m] # rounds[r][1]
      PROVE  \E n \in DOMAIN rounds'[q] : rounds'[q][n] = rounds[q][m]
  <2>1. CASE q = r
    <3>1. m - 1 \in 1..(Len(rounds[r]) - 1) /\ (m - 1) + 1 = m
      BY <1>2, <1>7, <2>1
    <3> QED
      BY <1>2, <1>3, <2>1, <3>1
  <2>2. CASE q # r
    BY <1>3, <2>2
  <2> QED
    BY <2>1, <2>2
<1>8. i = rounds[r][1] /\ 1 \in DOMAIN rounds[r]
  BY <1>2
<1> QED
  BY <1>2, <1>4, <1>6, <1>7, <1>8 DEF Leaves

LEMMA StillOnce ==
  ASSUME QueueInv, NEW r \in SyncRound, NEW i, Leaves(r, i),
         NEW p \in SyncRound, NEW q \in SyncRound, NEW m \in DOMAIN rounds'[p], NEW n \in DOMAIN rounds'[q],
         rounds'[p][m] = rounds'[q][n]
  PROVE  p = q /\ m = n
<1>1. PICK k, l : k = Before(p, r, m) /\ l = Before(q, r, n)
  OBVIOUS
<1>2. /\ m \in Nat /\ n \in Nat /\ k \in DOMAIN rounds[p] /\ l \in DOMAIN rounds[q]
      /\ rounds[p][k] = rounds[q][l]
  BY <1>1 DEF Leaves
<1>3. p = q /\ k = l
  BY <1>2 DEF QueueInv, WaitsOnce
<1> QED
  BY <1>1, <1>2, <1>3 DEF Before

LEMMA SyncKeeps ==
  ASSUME QueueInv, NEW r \in SyncRound, SyncIntake(r)
  PROVE  QueueInv'
<1>0. PICK i : i = Head(rounds[r])
  OBVIOUS
<1> DEFINE answer == ProcessPostWin(ProjectedPostWin, {})
<1>1. /\ rounds[r] # <<>> /\ synced' = [synced EXCEPT ![i] = Append(@, answer)]
      /\ rounds' = [rounds EXCEPT ![r] = Tail(@)] /\ UNCHANGED <<queue, queued>>
  BY <1>0 DEF SyncIntake
<1>2. Leaves(r, i)
  BY <1>0, <1>1, RoundGoesOn
<1>3. /\ i \in queued /\ synced[i] = <<>>
      /\ \A n \in DOMAIN queue : queue[n] # i
  BY <1>2 DEF QueueInv, WaitsFresh, Fresh, WaitsOnce, Leaves, Before
<1>4. answer \in {"BLOCKED", "MATCHED", "FALLBACK"}
  BY DEF ProcessPostWin
<1> HIDE DEF answer
<1>5. /\ synced' \in [OfflineIntake -> Seq({"BLOCKED", "MATCHED", "FALLBACK"})]
      /\ Len(synced'[i]) = 1 /\ \A j \in OfflineIntake \ {i} : synced'[j] = synced[j]
  <2>1. <<>> \in Seq({"BLOCKED", "MATCHED", "FALLBACK"})
    BY EmptySeq
  <2>2. PICK once : once = Append(<<>>, answer)
    OBVIOUS
  <2>3. once \in Seq({"BLOCKED", "MATCHED", "FALLBACK"}) /\ Len(once) = 1
    BY <1>4, <2>1, <2>2, AppendProperties, EmptySeq
  <2>4. synced' = [synced EXCEPT ![i] = once]
    BY <1>1, <1>3, <2>2
  <2> QED
    BY <1>2, <2>3, <2>4 DEF QueueInv, QueueTypeOK, Leaves, Before
<1>6. QueueTypeOK'
  BY <1>1, <1>2, <1>5 DEF QueueInv, QueueTypeOK, Leaves, Before
<1>7. WaitsOnce'
  <2>1. \A n \in DOMAIN queue, q \in SyncRound : \A m \in DOMAIN rounds'[q] : queue[n] # rounds'[q][m]
    BY <1>2 DEF QueueInv, WaitsOnce, Leaves, Before
  <2>2. ASSUME NEW p \in SyncRound, NEW q \in SyncRound, NEW m \in DOMAIN rounds'[p], NEW n \in DOMAIN rounds'[q],
               rounds'[p][m] = rounds'[q][n]
        PROVE  p = q /\ m = n
    BY <1>2, <2>2, StillOnce
  <2> QED
    BY <1>1, <2>1, <2>2 DEF QueueInv, WaitsOnce
<1>8. WaitsFresh'
  <2>1. \A n \in DOMAIN queue : queue[n] \in OfflineIntake
    BY SeqShape DEF QueueInv, QueueTypeOK
  <2>2. \A q \in SyncRound : \A n \in DOMAIN rounds[q] : rounds[q][n] \in OfflineIntake
    BY SeqShape DEF QueueInv, QueueTypeOK
  <2>3. \A n \in DOMAIN queue : Fresh(queue[n])'
    BY <1>1, <1>3, <1>5, <2>1 DEF QueueInv, WaitsFresh, Fresh
  <2>4. ASSUME NEW q \in SyncRound, NEW n \in DOMAIN rounds'[q] PROVE Fresh(rounds[q][n])'
    <3>1. PICK m \in DOMAIN rounds[q] : rounds'[q][n] = rounds[q][m] /\ rounds[q][m] # i
      BY <1>2 DEF Leaves, Before
    <3> QED
      BY <1>1, <1>5, <2>2, <3>1 DEF QueueInv, WaitsFresh, Fresh
  <2> QED
    BY <1>1, <2>3, <2>4 DEF WaitsFresh
<1>9. Accounted'
  <2> SUFFICES ASSUME NEW j \in OfflineIntake
               PROVE  /\ synced'[j] = <<>> \/ Len(synced'[j]) = 1
                      /\ j \notin queued => synced'[j] = <<>>
                      /\ j \in queued /\ synced'[j] = <<>> => Waits(j)'
    BY <1>1 DEF Accounted
  <2>1. CASE j = i
    <3>1. synced'[i] \in Seq({"BLOCKED", "MATCHED", "FALLBACK"}) /\ Len(synced'[i]) = 1
      BY <1>5, <2>1
    <3>2. 1 \in DOMAIN synced'[i]
      BY <3>1, SeqShape
    <3>3. synced'[i] # <<>>
      BY <3>2
    <3> QED
      BY <1>3, <2>1, <3>1, <3>3
  <2>2. CASE j # i
    <3>1. Waits(j) => Waits(j)'
      BY <1>1, <1>2, <2>2 DEF Waits, Leaves, Before
    <3> QED
      BY <1>5, <2>2, <3>1 DEF QueueInv, Accounted
  <2> QED
    BY <2>1, <2>2
<1> QED
  BY <1>6, <1>7, <1>8, <1>9 DEF QueueInv

LEMMA RequeueKeeps ==
  ASSUME QueueInv, NEW r \in SyncRound, Requeue(r)
  PROVE  QueueInv'
<1>0. PICK i : i = Head(rounds[r])
  OBVIOUS
<1>1. /\ rounds[r] # <<>> /\ queue' = Append(queue, i)
      /\ rounds' = [rounds EXCEPT ![r] = Tail(@)] /\ UNCHANGED <<synced, queued>>
  BY <1>0 DEF Requeue
<1>2. Leaves(r, i)
  BY <1>0, <1>1, RoundGoesOn
<1>3. Fresh(i) /\ \A n \in DOMAIN queue : queue[n] # i
  BY <1>2 DEF QueueInv, WaitsFresh, WaitsOnce, Leaves, Before
<1>4. /\ queue \in Seq(OfflineIntake) /\ DOMAIN queue = 1..Len(queue) /\ Len(queue) \in Nat
      /\ queue' \in Seq(OfflineIntake) /\ DOMAIN queue' = 1..(Len(queue) + 1)
      /\ \A n \in 1..Len(queue) : queue'[n] = queue[n]
      /\ queue'[Len(queue) + 1] = i
  BY <1>1, <1>2, AppendShape, SeqShape DEF QueueInv, QueueTypeOK, Leaves, Before
<1>5. \A n \in DOMAIN queue' : (n \in DOMAIN queue /\ queue'[n] = queue[n]) \/ (n = Len(queue) + 1 /\ queue'[n] = i)
  BY <1>4
<1>6. QueueTypeOK'
  BY <1>1, <1>2, <1>4 DEF QueueInv, QueueTypeOK, Leaves, Before
<1>7. WaitsOnce'
  <2>1. \A m, n \in DOMAIN queue' : queue'[m] = queue'[n] => m = n
    BY <1>3, <1>5 DEF QueueInv, WaitsOnce
  <2>2. \A n \in DOMAIN queue', q \in SyncRound : \A m \in DOMAIN rounds'[q] : queue'[n] # rounds'[q][m]
    BY <1>2, <1>5 DEF QueueInv, WaitsOnce, Leaves, Before
  <2>3. ASSUME NEW p \in SyncRound, NEW q \in SyncRound, NEW m \in DOMAIN rounds'[p], NEW n \in DOMAIN rounds'[q],
               rounds'[p][m] = rounds'[q][n]
        PROVE  p = q /\ m = n
    BY <1>2, <2>3, StillOnce
  <2> QED
    BY <2>1, <2>2, <2>3 DEF WaitsOnce
<1>8. WaitsFresh'
  <2>1. \A n \in DOMAIN queue' : Fresh(queue'[n])
    BY <1>3, <1>5 DEF QueueInv, WaitsFresh
  <2>2. \A q \in SyncRound : \A n \in DOMAIN rounds'[q] : Fresh(rounds'[q][n])
    BY <1>2 DEF QueueInv, WaitsFresh, Leaves, Before
  <2> QED
    BY <1>1, <2>1, <2>2 DEF WaitsFresh, Fresh
<1>9. \A j : Waits(j) => Waits(j)'
  <2> SUFFICES ASSUME NEW j, Waits(j) PROVE Waits(j)'
    OBVIOUS
  <2>1. CASE j = i
    BY <1>4, <2>1 DEF Waits
  <2>2. ASSUME NEW n \in DOMAIN queue, queue[n] = j PROVE Waits(j)'
    BY <1>4, <2>2 DEF Waits
  <2>3. ASSUME j # i, NEW q \in SyncRound, NEW m \in DOMAIN rounds[q], rounds[q][m] = j PROVE Waits(j)'
    BY <1>2, <2>3 DEF Waits, Leaves, Before
  <2> QED
    BY <2>1, <2>2, <2>3 DEF Waits
<1>10. Accounted'
  BY <1>1, <1>9 DEF QueueInv, Accounted
<1> QED
  BY <1>6, <1>7, <1>8, <1>10 DEF QueueInv

\* The invariant of the offline queue holds of every run.
THEOREM QueueInvariance == QueueInit /\ [][QueueNext]_queueVars => []QueueInv
<1>1. QueueInv /\ [QueueNext]_queueVars => QueueInv'
  <2> SUFFICES ASSUME QueueInv, [QueueNext]_queueVars PROVE QueueInv'
    OBVIOUS
  <2>1. CASE UNCHANGED queueVars
    BY <2>1 DEF queueVars, QueueInv, QueueTypeOK, WaitsOnce, WaitsFresh, Fresh, Accounted, Waits
  <2>2. ASSUME NEW i \in OfflineIntake, EnqueueIntake(i) PROVE QueueInv'
    BY <2>2, EnqueueKeeps
  <2>3. ASSUME NEW r \in SyncRound, StartSync(r) \/ SyncIntake(r) \/ Requeue(r) PROVE QueueInv'
    BY <2>3, StartSyncKeeps, SyncKeeps, RequeueKeeps
  <2> QED
    BY <2>1, <2>2, <2>3 DEF QueueNext
<1> QED
  BY <1>1, QueueBegins, PTL

\* What waits or was replayed is in one place.
LEMMA InOnePlace == QueueInv => NoIntakeIsLost
<1> SUFFICES ASSUME QueueInv, NEW i \in queued PROVE Cardinality(Places(i)) = 1
  BY DEF NoIntakeIsLost
<1>1. i \in OfflineIntake
  BY DEF QueueInv, QueueTypeOK
<1>2. ASSUME NEW p, \A q : q \in Places(i) <=> q = p PROVE Cardinality(Places(i)) = 1
  <2>1. Places(i) = {p}
    BY <1>2
  <2> QED
    BY <2>1, FS_Singleton
<1>3. CASE synced[i] # <<>>
  <2>1. Len(synced[i]) = 1 /\ synced[i] \in Seq({"BLOCKED", "MATCHED", "FALLBACK"})
    BY <1>1, <1>3 DEF QueueInv, QueueTypeOK, Accounted
  <2>2. DOMAIN synced[i] = {1}
    BY <2>1, SeqShape
  <2>3. Positions(queue, i) = {} /\ \A r \in SyncRound : Positions(rounds[r], i) = {}
    BY <1>3 DEF QueueInv, WaitsFresh, Fresh, Positions
  <2>5. PICK x : x = <<"synced", 1>>
    OBVIOUS
  <2>6. \A q : q \in Places(i) <=> q = x
    BY <2>2, <2>3, <2>5 DEF Places
  <2> QED
    BY <1>2, <2>6
<1>4. CASE synced[i] = <<>>
  <2>1. DOMAIN synced[i] = {}
    BY <1>4
  <2>2. CASE \E n \in DOMAIN queue : queue[n] = i
    <3>1. PICK n : n \in DOMAIN queue /\ queue[n] = i
      BY <2>2
    <3>2. Positions(queue, i) = {n} /\ \A r \in SyncRound : Positions(rounds[r], i) = {}
      BY <3>1 DEF QueueInv, WaitsOnce, Positions
    <3>5. PICK x : x = <<"queue", n>>
      OBVIOUS
    <3>6. \A q : q \in Places(i) <=> q = x
      BY <2>1, <3>2, <3>5 DEF Places
    <3> QED
      BY <1>2, <3>6
  <2>3. CASE \E r \in SyncRound : \E n \in DOMAIN rounds[r] : rounds[r][n] = i
    <3>0. PICK r \in SyncRound : \E n \in DOMAIN rounds[r] : rounds[r][n] = i
      BY <2>3
    <3>1. PICK n : n \in DOMAIN rounds[r] /\ rounds[r][n] = i
      BY <3>0
    <3>2. /\ Positions(queue, i) = {} /\ Positions(rounds[r], i) = {n}
          /\ \A q \in SyncRound \ {r} : Positions(rounds[q], i) = {}
      BY <3>1 DEF QueueInv, WaitsOnce, Positions
    <3>5. PICK x : x = <<"round", <<r, n>>>>
      OBVIOUS
    <3>6. \A q : q \in Places(i) <=> q = x
      BY <2>1, <3>2, <3>5 DEF Places
    <3> QED
      BY <1>2, <3>6
  <2> QED
    BY <1>1, <1>4, <2>2, <2>3 DEF QueueInv, Accounted, Waits
<1> QED
  BY <1>3, <1>4

(***************************************************************************)
(* For any number of intakes and of rounds that overlap: a queued intake   *)
(* is in the queue, in one round or replayed once, and nowhere else.       *)
(***************************************************************************)
THEOREM NothingIsLost == QueueSpec => []NoIntakeIsLost
BY InOnePlace, QueueInvariance, PTL DEF QueueSpec

-----------------------------------------------------------------------------
(* The sockets and their Redis channels. *)

\* The flag of a case is set while sockets of it are registered, and only then.
FlagsFollowSockets ==
  \A i \in Instance, c \in Case : c \in subscribedCases[i] <=> Registered(i, c) # {}

\* The last command about a case that Redis has yet to apply says what the flag says;
\* when there is none the subscription itself does.
Agree(commands, holders, flags, i, c) ==
  /\ \A k \in 1..Len(commands) :
       commands[k][2] = c /\ (\A m \in (k + 1)..Len(commands) : commands[m][2] # c)
         => (commands[k][1] = "subscribe" <=> c \in flags)
  /\ (\A k \in 1..Len(commands) : commands[k][2] # c) => (i \in holders <=> c \in flags)

CommandsFollowFlags ==
  \A i \in Instance, c \in Case : Agree(subQueue[i], channels[c], subscribedCases[i], i, c)

SubscriptionInv == FlagsFollowSockets /\ CommandsFollowFlags

\* A broadcast has one envelope before Redis passes it on, and its copies after it.
OneEnvelope ==
  /\ \A e \in published, f \in published : e.payload = f.payload => e = f
  /\ \A e \in published, f \in inbox : e.payload # f.payload
  /\ \A e, f \in inbox : e.payload = f.payload => e.instanceId = f.instanceId /\ e.caseId = f.caseId

\* Who was sent a broadcast is not sent it again: while its envelope waits they are all of
\* the publishing process, and no copy is on its way to another process of theirs.
SentOnce ==
  \A s \in Socket : \A b \in DOMAIN received[s] :
    /\ received[s][b] = 1
    /\ socket[s].state # "none" =>
         /\ \A e \in published : e.payload = b => e.instanceId = socket[s].at
         /\ \A e \in inbox : e.payload = b /\ e.to = socket[s].at => e.instanceId = e.to

SocketInv == SocketTypeOK /\ SubscriptionInv /\ OneEnvelope /\ SentOnce

LEMMA AppendAgrees ==
  ASSUME NEW q \in Seq(Command), NEW holders, NEW flags, NEW next, NEW i, NEW c,
         Agree(q, holders, flags, i, c), NEW x \in Command,
         IF x[2] = c THEN x[1] = "subscribe" <=> c \in next ELSE c \in next <=> c \in flags
  PROVE  Agree(Append(q, x), holders, next, i, c)
<1>1. /\ Len(Append(q, x)) = Len(q) + 1 /\ Len(q) \in Nat
      /\ \A k \in 1..Len(q) : Append(q, x)[k] = q[k]
      /\ Append(q, x)[Len(q) + 1] = x
  BY AppendProperties, LenProperties
<1>2. PICK p : p = Append(q, x)
  OBVIOUS
<1>3. Agree(p, holders, next, i, c)
  <2>1. ASSUME NEW k \in 1..Len(p), p[k][2] = c, \A m \in (k + 1)..Len(p) : p[m][2] # c
        PROVE  p[k][1] = "subscribe" <=> c \in next
    <3>1. CASE k = Len(q) + 1
      BY <1>1, <1>2, <2>1, <3>1
    <3>2. CASE k # Len(q) + 1
      <4>1. k \in 1..Len(q) /\ p[k] = q[k]
        BY <1>1, <1>2, <3>2
      <4>2. x[2] # c
        BY <1>1, <1>2, <2>1, <4>1
      <4>3. \A m \in (k + 1)..Len(q) : q[m][2] # c
        BY <1>1, <1>2, <2>1, <4>1
      <4> QED
        BY <2>1, <4>1, <4>2, <4>3 DEF Agree
    <3> QED
      BY <3>1, <3>2
  <2>2. ASSUME \A k \in 1..Len(p) : p[k][2] # c
        PROVE  i \in holders <=> c \in next
    <3>1. x[2] # c /\ \A k \in 1..Len(q) : q[k][2] # c
      BY <1>1, <1>2, <2>2
    <3> QED
      BY <3>1 DEF Agree
  <2> QED
    BY <2>1, <2>2 DEF Agree
<1> QED
  BY <1>2, <1>3

LEMMA TailAgrees ==
  ASSUME NEW q \in Seq(Command), q # <<>>, NEW holders, NEW next, NEW flags, NEW i, NEW c,
         Agree(q, holders, flags, i, c),
         IF Head(q)[2] = c THEN Head(q)[1] = "subscribe" <=> i \in next ELSE i \in next <=> i \in holders
  PROVE  Agree(Tail(q), next, flags, i, c)
<1>1. /\ Len(Tail(q)) = Len(q) - 1 /\ Len(q) \in Nat \ {0} /\ Head(q) = q[1]
      /\ \A k \in 1..Len(Tail(q)) : Tail(q)[k] = q[k + 1]
  BY HeadTailProperties, LenProperties, EmptySeq
<1>2. PICK p : p = Tail(q)
  OBVIOUS
<1>3. Agree(p, next, flags, i, c)
  <2>1. ASSUME NEW k \in 1..Len(p), p[k][2] = c, \A m \in (k + 1)..Len(p) : p[m][2] # c
        PROVE  p[k][1] = "subscribe" <=> c \in flags
    <3>1. k + 1 \in 1..Len(q) /\ p[k] = q[k + 1]
      BY <1>1, <1>2
    <3>2. \A m \in (k + 2)..Len(q) : q[m][2] # c
      <4> SUFFICES ASSUME NEW m \in (k + 2)..Len(q) PROVE q[m][2] # c
        OBVIOUS
      <4>1. m - 1 \in (k + 1)..Len(p) /\ m - 1 \in 1..Len(p) /\ p[m - 1] = q[m]
        BY <1>1, <1>2
      <4> QED
        BY <2>1, <4>1
    <3> QED
      BY <2>1, <3>1, <3>2 DEF Agree
  <2>2. ASSUME \A k \in 1..Len(p) : p[k][2] # c
        PROVE  i \in next <=> c \in flags
    <3>1. \A k \in 2..Len(q) : q[k][2] # c
      <4> SUFFICES ASSUME NEW k \in 2..Len(q) PROVE q[k][2] # c
        OBVIOUS
      <4>1. k - 1 \in 1..Len(p) /\ p[k - 1] = q[k]
        BY <1>1, <1>2
      <4> QED
        BY <2>2, <4>1
    <3>2. CASE q[1][2] = c
      BY <1>1, <3>1, <3>2 DEF Agree
    <3>3. CASE q[1][2] # c
      BY <1>1, <3>1, <3>3 DEF Agree
    <3> QED
      BY <3>2, <3>3
  <2> QED
    BY <2>1, <2>2 DEF Agree
<1> QED
  BY <1>2, <1>3

LEMMA NoSocketShape == NoSocket.state = "none" /\ NoSocket \notin SocketRow
BY DEF NoSocket, SocketRow

(* A connection that is open has a process and a case. *)
LEMMA RowShape ==
  ASSUME SocketTypeOK, NEW s \in Socket
  PROVE  /\ socket[s].state = "none" <=> socket[s] = NoSocket
         /\ socket[s].state # "none" =>
              socket[s] \in SocketRow /\ socket[s].at \in Instance /\ socket[s].case \in Case
BY DEF SocketTypeOK, NoSocket, SocketRow

(* The rows that the statements write. *)
LEMMA RowsWritten ==
  ASSUME NEW row \in SocketRow
  PROVE  /\ \A state \in {"upgrading", "open", "closing"} :
              /\ [row EXCEPT !.state = state] \in SocketRow
              /\ [row EXCEPT !.state = state].state = state
              /\ [row EXCEPT !.state = state].at = row.at
              /\ [row EXCEPT !.state = state].case = row.case
         /\ [row EXCEPT !.peer = "gone"] \in SocketRow
         /\ [row EXCEPT !.peer = "gone"].state = row.state
         /\ [row EXCEPT !.peer = "gone"].at = row.at
         /\ [row EXCEPT !.peer = "gone"].case = row.case
         /\ [row EXCEPT !.isAlive = "false"] \in SocketRow
         /\ [row EXCEPT !.isAlive = "false"].state = row.state
         /\ [row EXCEPT !.isAlive = "false"].at = row.at
         /\ [row EXCEPT !.isAlive = "false"].case = row.case
         /\ [row EXCEPT !.peer = "gone", !.state = "closing"] \in SocketRow
         /\ [row EXCEPT !.peer = "gone", !.state = "closing"].state = "closing"
         /\ [row EXCEPT !.peer = "gone", !.state = "closing"].at = row.at
         /\ [row EXCEPT !.peer = "gone", !.state = "closing"].case = row.case
BY DEF SocketRow

Joined(row) == row.state \in {"open", "closing"}

(* A step that no case sees: who is registered stays so, and the commands stay. *)
LEMMA SubscriptionStays ==
  ASSUME SubscriptionInv, UNCHANGED <<subscribedCases, subQueue, channels>>,
         \A s \in Socket : /\ Joined(socket[s]) <=> Joined(socket'[s])
                           /\ Joined(socket[s]) => socket'[s].at = socket[s].at /\ socket'[s].case = socket[s].case
  PROVE  SubscriptionInv'
<1>1. \A i, c : Registered(i, c)' = Registered(i, c)
  BY DEF Registered, Joined
<1> QED
  BY <1>1 DEF SubscriptionInv, FlagsFollowSockets, CommandsFollowFlags, Agree

(* A step that sends nothing: envelopes may be lost, and connections close. *)
LEMMA DeliveryStays ==
  ASSUME OneEnvelope, SentOnce, published' = published, inbox' \subseteq inbox, received' = received,
         \A s \in Socket : socket'[s].state # "none" => socket[s].state # "none" /\ socket'[s].at = socket[s].at
  PROVE  OneEnvelope' /\ SentOnce'
BY DEF OneEnvelope, SentOnce

(* A step that rewrites the row of one connection. *)
LEMMA RowMoves ==
  ASSUME SocketTypeOK, NEW s \in Socket, NEW row \in SocketRow \cup {NoSocket},
         socket' = [socket EXCEPT ![s] = row]
  PROVE  /\ socket' \in [Socket -> SocketRow \cup {NoSocket}]
         /\ socket'[s] = row
         /\ \A x \in Socket \ {s} : socket'[x] = socket[x]
BY DEF SocketTypeOK

LEMMA SocketsBegin == SocketInit => SocketInv
<1> SUFFICES ASSUME SocketInit PROVE SocketInv
  OBVIOUS
<1> USE DEF SocketInit
<1>1. SocketTypeOK
  <2>1. <<>> \in Seq(Command)
    BY EmptySeq
  <2>2. \A s \in Socket : DOMAIN received[s] \subseteq Broadcast
    OBVIOUS
  <2> QED
    BY <2>1, <2>2 DEF SocketTypeOK
<1>2. FlagsFollowSockets
  BY NoSocketShape DEF FlagsFollowSockets, Registered
<1>3. CommandsFollowFlags
  BY DEF CommandsFollowFlags, Agree
<1>4. OneEnvelope /\ SentOnce
  BY DEF OneEnvelope, SentOnce
<1> QED
  BY <1>1, <1>2, <1>3, <1>4 DEF SocketInv, SubscriptionInv

LEMMA UpgradeKeeps ==
  ASSUME SocketInv, NEW s \in Socket,
         (\E i \in Instance, c \in Case : StartUpgrade(s, i, c)) \/ RefuseUpgrade(s)
  PROVE  SocketInv'
<1>1. ASSUME NEW i \in Instance, NEW c \in Case, StartUpgrade(s, i, c)
      PROVE  SocketInv'
  <2>1. PICK row : row = [state |-> "upgrading", peer |-> "here", isAlive |-> "undefined", at |-> i, case |-> c]
    OBVIOUS
  <2>2. row \in SocketRow /\ row.state = "upgrading"
    BY <2>1 DEF SocketRow
  <2>3. socket' = [socket EXCEPT ![s] = row] /\ socket[s].state = "none"
    BY <1>1, <2>1 DEF StartUpgrade
  <2>4. /\ socket' \in [Socket -> SocketRow \cup {NoSocket}] /\ socket'[s] = row
        /\ \A x \in Socket \ {s} : socket'[x] = socket[x]
    BY <2>2, <2>3, RowMoves DEF SocketInv
  <2>5. /\ received' = [received EXCEPT ![s] = <<>>]
        /\ UNCHANGED <<activeConnections, subscribedCases, subQueue, channels, published, inbox>>
    BY <1>1 DEF StartUpgrade, redisVars
  <2>6. DOMAIN received'[s] = {} /\ DOMAIN received' = Socket /\ \A x \in Socket \ {s} : received'[x] = received[x]
    BY <2>5 DEF SocketInv, SocketTypeOK
  <2>7. SocketTypeOK'
    BY <2>4, <2>5, <2>6 DEF SocketInv, SocketTypeOK
  <2>8. SubscriptionInv'
    BY <2>2, <2>3, <2>4, <2>5, SubscriptionStays DEF SocketInv, Joined
  <2>9. OneEnvelope' /\ SentOnce'
    BY <2>4, <2>5, <2>6 DEF SocketInv, OneEnvelope, SentOnce
  <2> QED
    BY <2>7, <2>8, <2>9 DEF SocketInv
<1>2. CASE RefuseUpgrade(s)
  <2>1. /\ socket' \in [Socket -> SocketRow \cup {NoSocket}] /\ socket'[s] = NoSocket
        /\ \A x \in Socket \ {s} : socket'[x] = socket[x]
    BY <1>2, RowMoves DEF SocketInv, RefuseUpgrade
  <2>2. /\ UNCHANGED <<activeConnections, received, subscribedCases, subQueue, channels, published, inbox>>
        /\ socket[s].state = "upgrading"
    BY <1>2 DEF RefuseUpgrade, redisVars
  <2>3. SocketTypeOK'
    BY <2>1, <2>2 DEF SocketInv, SocketTypeOK
  <2>4. SubscriptionInv'
    BY <2>1, <2>2, SubscriptionStays, NoSocketShape DEF SocketInv, Joined
  <2>5. OneEnvelope' /\ SentOnce'
    BY <2>1, <2>2, DeliveryStays, NoSocketShape DEF SocketInv
  <2> QED
    BY <2>3, <2>4, <2>5 DEF SocketInv
<1> QED
  BY <1>1, <1>2

LEMMA RegisterKeeps ==
  ASSUME SocketInv, NEW s \in Socket, RegisterSocket(s)
  PROVE  SocketInv'
<1>0. socket[s].state = "upgrading" /\ socket[s] \in SocketRow
  BY RowShape DEF RegisterSocket, SocketInv
<1>1. PICK i \in Instance, c \in Case : i = socket[s].at /\ c = socket[s].case
  BY <1>0, RowShape DEF SocketInv
<1> USE <1>0, <1>1
<1>2. PICK row : row = [socket[s] EXCEPT !.state = "open"]
  OBVIOUS
<1>3. row \in SocketRow /\ row.state = "open" /\ row.at = i /\ row.case = c
  BY <1>1, <1>2, RowsWritten
<1>4. socket' = [socket EXCEPT ![s] = row]
  BY <1>2 DEF RegisterSocket
<1>5. /\ socket' \in [Socket -> SocketRow \cup {NoSocket}] /\ socket'[s] = row
      /\ \A x \in Socket \ {s} : socket'[x] = socket[x]
  BY <1>3, <1>4, RowMoves DEF SocketInv
<1>6. UNCHANGED <<activeConnections, channels, published, inbox, received>>
  BY DEF RegisterSocket, OnUpgrade
<1>7. OneEnvelope' /\ SentOnce'
  BY <1>1, <1>3, <1>5, <1>6, DeliveryStays DEF SocketInv
<1>8. c \in subscribedCases'[i] /\ \A j \in Instance, d \in Case :
        j # i \/ d # c => (d \in subscribedCases'[j] <=> d \in subscribedCases[j])
  BY <1>1 DEF RegisterSocket, SocketInv, SocketTypeOK
<1>9. Registered(i, c)' # {} /\ \A j \in Instance, d \in Case :
        j # i \/ d # c => Registered(j, d)' = Registered(j, d)
  BY <1>1, <1>3, <1>5 DEF Registered
<1>10. FlagsFollowSockets'
  BY <1>1, <1>8, <1>9 DEF FlagsFollowSockets, SocketInv, SubscriptionInv
<1>11. CASE c \in subscribedCases[i]
  <2>1. UNCHANGED <<subscribedCases, subQueue>>
    BY <1>11 DEF RegisterSocket
  <2>2. SocketTypeOK'
    BY <1>5, <1>6, <2>1 DEF SocketInv, SocketTypeOK
  <2>9. CommandsFollowFlags'
    BY <1>5, <1>6, <2>1 DEF SocketInv, SubscriptionInv, CommandsFollowFlags, Agree
  <2> QED
    BY <1>7, <1>10, <2>2, <2>9 DEF SocketInv, SubscriptionInv
<1>12. CASE c \notin subscribedCases[i]
  <2>1. PICK x : x = <<"subscribe", c>>
    OBVIOUS
  <2>2. x \in Command /\ x[1] = "subscribe" /\ x[2] = c
    BY <1>1, <2>1 DEF Command
  <2>3. /\ subscribedCases' = [subscribedCases EXCEPT ![i] = @ \cup {c}]
        /\ subQueue' = [subQueue EXCEPT ![i] = Append(@, x)]
    BY <1>12, <2>1 DEF RegisterSocket
  <2>4. subQueue[i] \in Seq(Command) /\ Append(subQueue[i], x) \in Seq(Command)
    BY <1>1, <2>2, AppendProperties DEF SocketInv, SocketTypeOK
  <2>5. subQueue'[i] = Append(subQueue[i], x) /\ \A j \in Instance \ {i} : subQueue'[j] = subQueue[j]
    BY <1>1, <2>3 DEF SocketInv, SocketTypeOK
  <2>6. SocketTypeOK'
    BY <1>1, <1>5, <1>6, <2>3, <2>4 DEF SocketInv, SocketTypeOK
  <2>7. ASSUME NEW d \in Case PROVE Agree(subQueue'[i], channels[d], subscribedCases'[i], i, d)
    <3>1. Agree(subQueue[i], channels[d], subscribedCases[i], i, d)
      BY <1>1 DEF SocketInv, SubscriptionInv, CommandsFollowFlags
    <3>2. IF x[2] = d THEN x[1] = "subscribe" <=> d \in subscribedCases'[i]
                      ELSE d \in subscribedCases'[i] <=> d \in subscribedCases[i]
      BY <1>1, <1>8, <2>2
    <3>3. Agree(Append(subQueue[i], x), channels[d], subscribedCases'[i], i, d)
      BY <2>2, <2>4, <3>1, <3>2, AppendAgrees
    <3> QED
      BY <2>5, <3>3
  <2>8. CommandsFollowFlags'
    <3> SUFFICES ASSUME NEW j \in Instance, NEW d \in Case
                 PROVE  Agree(subQueue'[j], channels'[d], subscribedCases'[j], j, d)
      BY DEF CommandsFollowFlags, Agree
    <3>1. CASE j = i
      BY <1>6, <2>7, <3>1
    <3>2. CASE j # i
      BY <1>6, <1>8, <2>5, <3>2 DEF SocketInv, SubscriptionInv, CommandsFollowFlags, Agree
    <3> QED
      BY <3>1, <3>2
  <2> QED
    BY <1>7, <1>10, <2>6, <2>8 DEF SocketInv, SubscriptionInv
<1> QED
  BY <1>11, <1>12

LEMMA CloseKeeps ==
  ASSUME SocketInv, NEW s \in Socket, CloseSocket(s)
  PROVE  SocketInv'
<1>0. socket[s].state = "closing" /\ socket[s] \in SocketRow
  BY RowShape DEF CloseSocket, SocketInv
<1>1. PICK i \in Instance, c \in Case : i = socket[s].at /\ c = socket[s].case
  BY <1>0, RowShape DEF SocketInv
<1> USE <1>0, <1>1
<1>2. /\ socket' \in [Socket -> SocketRow \cup {NoSocket}] /\ socket'[s] = NoSocket
      /\ \A x \in Socket \ {s} : socket'[x] = socket[x]
  BY RowMoves DEF SocketInv, CloseSocket
<1>3. UNCHANGED <<activeConnections, channels, published, inbox, received>>
  BY DEF CloseSocket
<1>4. OneEnvelope' /\ SentOnce'
  BY <1>1, <1>2, <1>3, NoSocketShape, DeliveryStays DEF SocketInv
<1>5. Registered(i, c)' = Registered(i, c) \ {s} /\ s \in Registered(i, c) /\ \A j \in Instance, d \in Case :
        j # i \/ d # c => Registered(j, d)' = Registered(j, d)
  BY <1>1, <1>2, NoSocketShape DEF Registered
<1>6. CASE Registered(i, c) # {s}
  <2>1. UNCHANGED <<subscribedCases, subQueue>>
    BY <1>6 DEF CloseSocket
  <2>2. SocketTypeOK'
    BY <1>2, <1>3, <2>1 DEF SocketInv, SocketTypeOK
  <2>9. CommandsFollowFlags'
    BY <1>2, <1>3, <2>1 DEF SocketInv, SubscriptionInv, CommandsFollowFlags, Agree
  <2>3. Registered(i, c)' # {}
    BY <1>5, <1>6
  <2>4. FlagsFollowSockets'
    BY <1>1, <1>5, <2>1, <2>3 DEF FlagsFollowSockets, SocketInv, SubscriptionInv
  <2> QED
    BY <1>4, <2>2, <2>9, <2>4 DEF SocketInv, SubscriptionInv
<1>7. CASE Registered(i, c) = {s}
  <2>1. PICK x : x = <<"unsubscribe", c>>
    OBVIOUS
  <2>2. x \in Command /\ x[1] # "subscribe" /\ x[2] = c
    BY <1>1, <2>1 DEF Command
  <2>3. /\ subscribedCases' = [subscribedCases EXCEPT ![i] = @ \ {c}]
        /\ subQueue' = [subQueue EXCEPT ![i] = Append(@, x)]
    BY <1>7, <2>1 DEF CloseSocket, LeaveCase
  <2>4. subQueue[i] \in Seq(Command) /\ Append(subQueue[i], x) \in Seq(Command)
    BY <1>1, <2>2, AppendProperties DEF SocketInv, SocketTypeOK
  <2>5. /\ subQueue'[i] = Append(subQueue[i], x) /\ \A j \in Instance \ {i} : subQueue'[j] = subQueue[j]
        /\ c \notin subscribedCases'[i] /\ \A j \in Instance, d \in Case :
             j # i \/ d # c => (d \in subscribedCases'[j] <=> d \in subscribedCases[j])
    BY <1>1, <2>3 DEF SocketInv, SocketTypeOK
  <2>6. SocketTypeOK'
    BY <1>1, <1>2, <1>3, <2>3, <2>4 DEF SocketInv, SocketTypeOK
  <2>7. FlagsFollowSockets'
    <3>1. Registered(i, c)' = {}
      BY <1>5, <1>7
    <3> QED
      BY <1>5, <2>5, <3>1 DEF FlagsFollowSockets, SocketInv, SubscriptionInv
  <2>8. ASSUME NEW d \in Case PROVE Agree(subQueue'[i], channels[d], subscribedCases'[i], i, d)
    <3>1. Agree(subQueue[i], channels[d], subscribedCases[i], i, d)
      BY <1>1 DEF SocketInv, SubscriptionInv, CommandsFollowFlags
    <3>2. IF x[2] = d THEN x[1] = "subscribe" <=> d \in subscribedCases'[i]
                      ELSE d \in subscribedCases'[i] <=> d \in subscribedCases[i]
      BY <1>1, <2>2, <2>5
    <3>3. Agree(Append(subQueue[i], x), channels[d], subscribedCases'[i], i, d)
      BY <2>2, <2>4, <3>1, <3>2, AppendAgrees
    <3> QED
      BY <2>5, <3>3
  <2>9. CommandsFollowFlags'
    <3> SUFFICES ASSUME NEW j \in Instance, NEW d \in Case
                 PROVE  Agree(subQueue'[j], channels'[d], subscribedCases'[j], j, d)
      BY DEF CommandsFollowFlags, Agree
    <3>1. CASE j = i
      BY <1>3, <2>8, <3>1
    <3>2. CASE j # i
      BY <1>3, <2>5, <3>2 DEF SocketInv, SubscriptionInv, CommandsFollowFlags, Agree
    <3> QED
      BY <3>1, <3>2
  <2> QED
    BY <1>4, <2>6, <2>7, <2>9 DEF SocketInv, SubscriptionInv
<1> QED
  BY <1>6, <1>7

LEMMA LeaveKeeps ==
  ASSUME SocketInv, NEW s \in Socket, PeerLeaves(s)
  PROVE  SocketInv'
<1>1. socket[s].state = "open" /\ socket[s] \in SocketRow
  BY RowShape DEF PeerLeaves, SocketInv
<1>2. PICK row \in SocketRow : /\ row.state \in {"open", "closing"} /\ row.at = socket[s].at /\ row.case = socket[s].case
                               /\ socket' = [socket EXCEPT ![s] = row]
  <2>1. CASE socket' = [socket EXCEPT ![s].peer = "gone"]
    <3>1. PICK row : row = [socket[s] EXCEPT !.peer = "gone"]
      OBVIOUS
    <3>2. row \in SocketRow /\ row.state = "open" /\ row.at = socket[s].at /\ row.case = socket[s].case
      BY <1>1, <3>1, RowsWritten
    <3>3. socket' = [socket EXCEPT ![s] = row]
      BY <2>1, <3>1
    <3> QED
      BY <3>2, <3>3
  <2>2. CASE socket' = [socket EXCEPT ![s].peer = "gone", ![s].state = "closing"]
    <3>1. PICK row : row = [socket[s] EXCEPT !.peer = "gone", !.state = "closing"]
      OBVIOUS
    <3>2. row \in SocketRow /\ row.state = "closing" /\ row.at = socket[s].at /\ row.case = socket[s].case
      BY <1>1, <3>1, RowsWritten
    <3>3. socket' = [socket EXCEPT ![s] = row]
      BY <2>2, <3>1 DEF SocketInv, SocketTypeOK
    <3> QED
      BY <3>2, <3>3
  <2> QED
    BY <2>1, <2>2 DEF PeerLeaves
<1>3. /\ socket' \in [Socket -> SocketRow \cup {NoSocket}] /\ socket'[s] = row
      /\ \A x \in Socket \ {s} : socket'[x] = socket[x]
  BY <1>2, RowMoves DEF SocketInv
<1>4. UNCHANGED <<activeConnections, received, subscribedCases, subQueue, channels, published, inbox>>
  BY DEF PeerLeaves, redisVars
<1>5. SocketTypeOK'
  BY <1>3, <1>4 DEF SocketInv, SocketTypeOK
<1>6. SubscriptionInv'
  BY <1>1, <1>2, <1>3, <1>4, SubscriptionStays DEF SocketInv, Joined
<1>7. OneEnvelope' /\ SentOnce'
  BY <1>1, <1>2, <1>3, <1>4, DeliveryStays DEF SocketInv
<1> QED
  BY <1>5, <1>6, <1>7 DEF SocketInv

LEMMA HeartbeatKeeps ==
  ASSUME SocketInv, NEW i \in Instance, Heartbeat(i)
  PROVE  SocketInv'
<1> DEFINE clients == { s \in Socket : socket[s].state = "open" /\ socket[s].at = i }
           dead == { s \in clients : socket[s].isAlive = "false" }
<1>1. /\ activeConnections' = [activeConnections EXCEPT ![i] = Less(@, Cardinality(dead))]
      /\ socket' = [s \in Socket |->
           IF s \in dead THEN [socket[s] EXCEPT !.state = "closing"]
           ELSE IF s \in clients THEN Marked(s) ELSE socket[s]]
      /\ UNCHANGED <<received, subscribedCases, subQueue, channels, published, inbox>>
  BY DEF Heartbeat, redisVars
<1>2. ASSUME NEW s \in Socket
      PROVE  /\ socket'[s] \in SocketRow \cup {NoSocket}
             /\ socket'[s] = socket[s] \/ /\ Joined(socket'[s]) /\ Joined(socket[s])
                                          /\ socket'[s].at = socket[s].at /\ socket'[s].case = socket[s].case
  <2>1. CASE s \in clients
    <3>1. socket[s] \in SocketRow /\ socket[s].state = "open"
      BY <2>1, RowShape DEF SocketInv
    <3>2. PICK row : row = IF s \in dead THEN [socket[s] EXCEPT !.state = "closing"]
                                         ELSE [socket[s] EXCEPT !.isAlive = "false"]
      OBVIOUS
    <3>3. row \in SocketRow /\ row.state \in {"open", "closing"} /\ row.at = socket[s].at /\ row.case = socket[s].case
      <4>1. CASE s \in dead
        BY <3>1, <3>2, <4>1, RowsWritten
      <4>2. CASE s \notin dead
        BY <3>1, <3>2, <4>2, RowsWritten
      <4> QED
        BY <4>1, <4>2
    <3>4. socket'[s] = row
      BY <1>1, <2>1, <3>2 DEF Marked
    <3> QED
      BY <3>1, <3>3, <3>4 DEF Joined
  <2>2. CASE s \notin clients
    BY <1>1, <2>2 DEF SocketInv, SocketTypeOK
  <2> QED
    BY <2>1, <2>2
<1>3. \A s \in Socket : /\ Joined(socket[s]) <=> Joined(socket'[s])
                        /\ Joined(socket[s]) => socket'[s].at = socket[s].at /\ socket'[s].case = socket[s].case
                        /\ socket'[s].state # "none" => socket[s].state # "none" /\ socket'[s].at = socket[s].at
  BY <1>2 DEF Joined
<1>4. Less(activeConnections[i], Cardinality(dead)) \in Int
  <2>1. Cardinality(dead) \in Nat
    BY SocketAssumption, FS_Subset, FS_CardinalityType
  <2> HIDE DEF dead
  <2> QED
    BY <2>1, MaxClosedAssumption DEF Less, SocketInv, SocketTypeOK
<1>5. SocketTypeOK'
  <2>1. activeConnections' \in [Instance -> Int]
    <3>1. PICK n : n = Less(activeConnections[i], Cardinality(dead))
      OBVIOUS
    <3> HIDE DEF dead
    <3>2. activeConnections' = [activeConnections EXCEPT ![i] = n] /\ n \in Int
      BY <1>1, <1>4, <3>1
    <3> QED
      BY <3>2 DEF SocketInv, SocketTypeOK
  <2>2. socket' \in [Socket -> SocketRow \cup {NoSocket}]
    BY <1>1, <1>2
  <2> QED
    BY <1>1, <2>1, <2>2 DEF SocketInv, SocketTypeOK
<1>6. SubscriptionInv'
  BY <1>1, <1>3, SubscriptionStays DEF SocketInv
<1>7. OneEnvelope' /\ SentOnce'
  BY <1>1, <1>3, DeliveryStays DEF SocketInv
<1> QED
  BY <1>5, <1>6, <1>7 DEF SocketInv

LEMMA CrashOfInstanceKeeps ==
  ASSUME SocketInv, NEW i \in Instance, InstanceCrash(i)
  PROVE  SocketInv'
<1> DEFINE lost == { s \in Socket : socket[s].state # "none" /\ socket[s].at = i }
<1>1. /\ socket' = [s \in Socket |-> IF s \in lost THEN NoSocket ELSE socket[s]]
      /\ activeConnections' = [activeConnections EXCEPT ![i] = 0]
      /\ subscribedCases' = [subscribedCases EXCEPT ![i] = {}]
      /\ subQueue' = [subQueue EXCEPT ![i] = <<>>]
      /\ channels' = [c \in Case |-> channels[c] \ {i}]
      /\ inbox' \subseteq inbox
      /\ UNCHANGED <<published, received>>
  BY DEF InstanceCrash
<1>2. SocketTypeOK'
  <2>1. socket' \in [Socket -> SocketRow \cup {NoSocket}]
    BY <1>1 DEF SocketInv, SocketTypeOK
  <2>2. subQueue' \in [Instance -> Seq(Command)]
    <3>1. <<>> \in Seq(Command)
      BY EmptySeq
    <3> QED
      BY <1>1, <3>1 DEF SocketInv, SocketTypeOK
  <2> QED
    BY <1>1, <2>1, <2>2 DEF SocketInv, SocketTypeOK
<1>3. OneEnvelope' /\ SentOnce'
  BY <1>1, NoSocketShape, DeliveryStays DEF SocketInv
<1>4. \A c : Registered(i, c)' = {} /\ \A j \in Instance \ {i} : Registered(j, c)' = Registered(j, c)
  BY <1>1, NoSocketShape DEF Registered
<1>5. FlagsFollowSockets'
  BY <1>1, <1>4 DEF FlagsFollowSockets, SocketInv, SocketTypeOK, SubscriptionInv
<1>6. CommandsFollowFlags'
  <2> SUFFICES ASSUME NEW j \in Instance, NEW c \in Case
               PROVE  Agree(subQueue'[j], channels'[c], subscribedCases'[j], j, c)
    BY DEF CommandsFollowFlags, Agree
  <2>1. CASE j = i
    <3>1. subQueue'[j] = <<>> /\ c \notin subscribedCases'[j] /\ j \notin channels'[c]
      BY <1>1, <2>1 DEF SocketInv, SocketTypeOK
    <3> QED
      BY <3>1 DEF Agree
  <2>2. CASE j # i
    <3>1. subQueue'[j] = subQueue[j] /\ subscribedCases'[j] = subscribedCases[j]
          /\ (j \in channels'[c] <=> j \in channels[c])
      BY <1>1, <2>2 DEF SocketInv, SocketTypeOK
    <3> QED
      BY <3>1 DEF SocketInv, SubscriptionInv, CommandsFollowFlags, Agree
  <2> QED
    BY <2>1, <2>2
<1> QED
  BY <1>2, <1>3, <1>5, <1>6 DEF SocketInv, SubscriptionInv

LEMMA CommandKeeps ==
  ASSUME SocketInv, NEW i \in Instance, RedisSubscription(i)
  PROVE  SocketInv'
<1>1. subQueue[i] \in Seq(Command) /\ subQueue[i] # <<>>
  BY DEF RedisSubscription, SocketInv, SocketTypeOK
<1>2. Head(subQueue[i]) \in Command /\ Tail(subQueue[i]) \in Seq(Command)
  BY <1>1, HeadTailProperties
<1>3. PICK x : x = Head(subQueue[i])
  OBVIOUS
<1>4. x[1] \in {"subscribe", "unsubscribe"} /\ x[2] \in Case
  BY <1>2, <1>3 DEF Command
<1>5. /\ channels' = [channels EXCEPT ![x[2]] = IF x[1] = "subscribe" THEN @ \cup {i} ELSE @ \ {i}]
      /\ subQueue' = [subQueue EXCEPT ![i] = Tail(@)]
      /\ UNCHANGED <<socket, activeConnections, subscribedCases, published, inbox, received>>
  BY <1>3 DEF RedisSubscription
<1>6. SocketTypeOK'
  <2>1. channels' \in [Case -> SUBSET Instance]
    BY <1>4, <1>5 DEF SocketInv, SocketTypeOK
  <2>2. subQueue' \in [Instance -> Seq(Command)]
    BY <1>2, <1>5 DEF SocketInv, SocketTypeOK
  <2> QED
    BY <1>5, <2>1, <2>2 DEF SocketInv, SocketTypeOK
<1>7. OneEnvelope' /\ SentOnce'
  BY <1>5, DeliveryStays DEF SocketInv
<1>8. FlagsFollowSockets'
  BY <1>5 DEF SocketInv, SubscriptionInv, FlagsFollowSockets, Registered
<1>9. CommandsFollowFlags'
  <2> SUFFICES ASSUME NEW j \in Instance, NEW c \in Case
               PROVE  Agree(subQueue'[j], channels'[c], subscribedCases'[j], j, c)
    BY DEF CommandsFollowFlags, Agree
  <2>0. Agree(subQueue[j], channels[c], subscribedCases[j], j, c)
    BY DEF SocketInv, SubscriptionInv, CommandsFollowFlags
  <2>1. CASE j = i
    <3>1. IF x[2] = c THEN x[1] = "subscribe" <=> i \in channels'[c] ELSE i \in channels'[c] <=> i \in channels[c]
      BY <1>4, <1>5 DEF SocketInv, SocketTypeOK
    <3>2. Agree(Tail(subQueue[i]), channels'[c], subscribedCases[i], i, c)
      BY <1>1, <1>3, <2>0, <2>1, <3>1, TailAgrees
    <3>3. subQueue'[i] = Tail(subQueue[i]) /\ subscribedCases'[i] = subscribedCases[i]
      BY <1>5 DEF SocketInv, SocketTypeOK
    <3> QED
      BY <2>1, <3>2, <3>3
  <2>2. CASE j # i
    <3>1. subQueue'[j] = subQueue[j] /\ subscribedCases'[j] = subscribedCases[j]
          /\ (j \in channels'[c] <=> j \in channels[c])
      BY <1>4, <1>5, <2>2 DEF SocketInv, SocketTypeOK
    <3> QED
      BY <2>0, <3>1 DEF Agree
  <2> QED
    BY <2>1, <2>2
<1> QED
  BY <1>6, <1>7, <1>8, <1>9 DEF SocketInv, SubscriptionInv

(* What a send adds to the count of each connection. *)
LEMMA SendCounts ==
  ASSUME SocketTypeOK, NEW sockets \in SUBSET Socket, NEW b \in Broadcast, Send(sockets, b)
  PROVE  /\ DOMAIN received' = Socket
         /\ \A s \in Socket \ sockets : received'[s] = received[s]
         /\ \A s \in sockets :
              /\ DOMAIN received'[s] = DOMAIN received[s] \cup {b}
              /\ \A x \in DOMAIN received[s] \ {b} : received'[s][x] = received[s][x]
              /\ b \notin DOMAIN received[s] => received'[s][b] = 1
<1>1. received' = [s \in Socket |->
        IF s \in sockets THEN [x \in DOMAIN received[s] \cup {b} |->
                                 IF x = b THEN TimesSent(s, b) + 1 ELSE received[s][x]]
        ELSE received[s]]
  BY DEF Send
<1>2. ASSUME NEW s \in sockets
      PROVE  /\ DOMAIN received'[s] = DOMAIN received[s] \cup {b}
             /\ \A x \in DOMAIN received[s] \ {b} : received'[s][x] = received[s][x]
             /\ received'[s][b] = TimesSent(s, b) + 1
  <2>1. received'[s] = [x \in DOMAIN received[s] \cup {b} |->
                          IF x = b THEN TimesSent(s, b) + 1 ELSE received[s][x]]
    BY <1>1
  <2> QED
    BY <2>1
<1>3. \A s \in sockets : b \notin DOMAIN received[s] => received'[s][b] = 1
  BY <1>2 DEF TimesSent
<1> QED
  BY <1>1, <1>2, <1>3

LEMMA PublishKeeps ==
  ASSUME SocketInv, NEW i \in Instance, NEW c \in Case, NEW b \in Broadcast, Publish(i, c, b)
  PROVE  SocketInv'
<1>1. /\ \A s \in Socket : b \notin DOMAIN received[s]
      /\ \A f \in published \cup inbox : f.payload # b
      /\ Send(Open(i, c), b)
      /\ UNCHANGED <<socket, activeConnections, subscribedCases, subQueue, channels, inbox>>
  BY DEF Publish
<1>2. PICK e : e = [instanceId |-> i, caseId |-> c, payload |-> b]
  OBVIOUS
<1>3. /\ e \in [instanceId: Instance, caseId: Case, payload: Broadcast]
      /\ e.instanceId = i /\ e.payload = b
      /\ published' = published \cup {e}
  BY <1>2 DEF Publish
<1>4. Open(i, c) \in SUBSET Socket /\ \A s \in Open(i, c) : socket[s].at = i
  BY DEF Open, Registered
<1>5. /\ DOMAIN received' = Socket
      /\ \A s \in Socket \ Open(i, c) : received'[s] = received[s]
      /\ \A s \in Open(i, c) :
           /\ DOMAIN received'[s] = DOMAIN received[s] \cup {b}
           /\ \A x \in DOMAIN received[s] \ {b} : received'[s][x] = received[s][x]
           /\ received'[s][b] = 1
  <2>1. PICK sockets : sockets = Open(i, c)
    OBVIOUS
  <2>2. PICK x : x = b
    OBVIOUS
  <2>3. SocketTypeOK /\ sockets \in SUBSET Socket /\ x \in Broadcast /\ Send(sockets, x)
    BY <1>1, <1>4, <2>1, <2>2 DEF SocketInv
  <2>4. /\ DOMAIN received' = Socket
        /\ \A s \in Socket \ sockets : received'[s] = received[s]
        /\ \A s \in sockets :
             /\ DOMAIN received'[s] = DOMAIN received[s] \cup {x}
             /\ \A y \in DOMAIN received[s] \ {x} : received'[s][y] = received[s][y]
             /\ x \notin DOMAIN received[s] => received'[s][x] = 1
    BY <2>3, SendCounts, Zenon
  <2> QED
    BY <1>1, <1>4, <2>1, <2>2, <2>3, <2>4
<1>6. SocketTypeOK'
  <2>1. published' \subseteq [instanceId: Instance, caseId: Case, payload: Broadcast]
    BY <1>3 DEF SocketInv, SocketTypeOK
  <2>2. ASSUME NEW s \in Socket PROVE DOMAIN received'[s] \subseteq Broadcast
    <3>1. DOMAIN received[s] \subseteq Broadcast
      BY DEF SocketInv, SocketTypeOK
    <3>2. DOMAIN received'[s] = DOMAIN received[s] \/ DOMAIN received'[s] = DOMAIN received[s] \cup {b}
      BY <1>5, Zenon
    <3> QED
      BY <3>1, <3>2
  <2> QED
    BY <1>1, <1>5, <2>1, <2>2 DEF SocketInv, SocketTypeOK
<1>7. SubscriptionInv'
  BY <1>1, SubscriptionStays DEF SocketInv
<1>8. OneEnvelope'
  BY <1>1, <1>3 DEF SocketInv, OneEnvelope
<1>9. SentOnce'
  <2> SUFFICES ASSUME NEW s \in Socket, NEW x \in DOMAIN received'[s]
               PROVE  /\ received'[s][x] = 1
                      /\ socket[s].state # "none" =>
                           /\ \A f \in published' : f.payload = x => f.instanceId = socket[s].at
                           /\ \A f \in inbox : f.payload = x /\ f.to = socket[s].at => f.instanceId = f.to
    BY <1>1 DEF SentOnce
  <2>1. CASE x = b
    <3>1. s \in Open(i, c)
      BY <1>1, <1>5, <2>1
    <3> QED
      BY <1>1, <1>3, <1>4, <1>5, <2>1, <3>1
  <2>2. CASE x # b
    <3>1. x \in DOMAIN received[s] /\ received'[s][x] = received[s][x]
      BY <1>5, <2>2
    <3> QED
      BY <1>3, <2>2, <3>1 DEF SocketInv, SentOnce
  <2> QED
    BY <2>1, <2>2
<1> QED
  BY <1>6, <1>7, <1>8, <1>9 DEF SocketInv

LEMMA EnvelopeKeeps ==
  ASSUME SocketInv, NEW e \in published, RedisPublish(e)
  PROVE  SocketInv'
<1>1. /\ published' = published \ {e}
      /\ UNCHANGED <<socket, activeConnections, subscribedCases, subQueue, channels, received>>
  BY DEF RedisPublish
<1>2. e \in [instanceId: Instance, caseId: Case, payload: Broadcast]
  BY DEF SocketInv, SocketTypeOK
<1>3. ASSUME NEW f \in inbox'
      PROVE  /\ f \in [instanceId: Instance, caseId: Case, payload: Broadcast, to: Instance]
             /\ f \in inbox \/ (f.instanceId = e.instanceId /\ f.caseId = e.caseId /\ f.payload = e.payload)
  <2>1. CASE f \in inbox
    BY <2>1 DEF SocketInv, SocketTypeOK
  <2>2. CASE f \notin inbox
    <3>1. PICK i \in channels[e.caseId] :
            f = [instanceId |-> e.instanceId, caseId |-> e.caseId, payload |-> e.payload, to |-> i]
      BY <2>2 DEF RedisPublish
    <3>2. i \in Instance
      BY <1>2, <3>1 DEF SocketInv, SocketTypeOK
    <3> QED
      BY <1>2, <3>1, <3>2
  <2> QED
    BY <2>1, <2>2
<1>4. SocketTypeOK'
  BY <1>1, <1>3 DEF SocketInv, SocketTypeOK
<1>5. SubscriptionInv'
  BY <1>1, SubscriptionStays DEF SocketInv
<1>6. OneEnvelope'
  <2>1. \A f \in published \ {e} : f.payload # e.payload
    BY DEF SocketInv, OneEnvelope
  <2>2. \A f \in inbox : f.payload # e.payload
    BY DEF SocketInv, OneEnvelope
  <2> QED
    BY <1>1, <1>3, <2>1, <2>2 DEF SocketInv, OneEnvelope
<1>7. SentOnce'
  <2> SUFFICES ASSUME NEW s \in Socket, NEW x \in DOMAIN received[s]
               PROVE  /\ received[s][x] = 1
                      /\ socket[s].state # "none" =>
                           /\ \A f \in published' : f.payload = x => f.instanceId = socket[s].at
                           /\ \A f \in inbox' : f.payload = x /\ f.to = socket[s].at => f.instanceId = f.to
    BY <1>1 DEF SentOnce
  <2> QED
    BY <1>1, <1>3 DEF SocketInv, SentOnce
<1> QED
  BY <1>4, <1>5, <1>6, <1>7 DEF SocketInv

LEMMA ReceiptKeeps ==
  ASSUME SocketInv, NEW e \in inbox, ReceiveEnvelope(e)
  PROVE  SocketInv'
<1>1. /\ inbox' = inbox \ {e}
      /\ Send(Audience(e), e.payload)
      /\ UNCHANGED <<socket, activeConnections, subscribedCases, subQueue, channels, published>>
  BY DEF ReceiveEnvelope
<1>2. e \in [instanceId: Instance, caseId: Case, payload: Broadcast, to: Instance] /\ e.payload \in Broadcast
  BY DEF SocketInv, SocketTypeOK
<1>3. Audience(e) \in SUBSET Socket /\
      \A s \in Audience(e) : socket[s].state # "none" /\ socket[s].at = e.to /\ e.instanceId # e.to
  BY DEF Audience, Open, Registered
<1>4. \A s \in Audience(e) : e.payload \notin DOMAIN received[s]
  BY <1>3 DEF SocketInv, SentOnce
<1>5. /\ DOMAIN received' = Socket
      /\ \A s \in Socket \ Audience(e) : received'[s] = received[s]
      /\ \A s \in Audience(e) :
           /\ DOMAIN received'[s] = DOMAIN received[s] \cup {e.payload}
           /\ \A x \in DOMAIN received[s] \ {e.payload} : received'[s][x] = received[s][x]
           /\ received'[s][e.payload] = 1
  <2>1. PICK sockets : sockets = Audience(e)
    OBVIOUS
  <2>2. PICK x : x = e.payload
    OBVIOUS
  <2>3. SocketTypeOK /\ sockets \in SUBSET Socket /\ x \in Broadcast /\ Send(sockets, x)
    BY <1>1, <1>2, <1>3, <2>1, <2>2 DEF SocketInv
  <2>4. /\ DOMAIN received' = Socket
        /\ \A s \in Socket \ sockets : received'[s] = received[s]
        /\ \A s \in sockets :
             /\ DOMAIN received'[s] = DOMAIN received[s] \cup {x}
             /\ \A y \in DOMAIN received[s] \ {x} : received'[s][y] = received[s][y]
             /\ x \notin DOMAIN received[s] => received'[s][x] = 1
    BY <2>3, SendCounts, Zenon
  <2> QED
    BY <1>1, <1>2, <1>3, <1>4, <2>1, <2>2, <2>3, <2>4
<1>6. SocketTypeOK'
  <2>1. \A s \in Socket : DOMAIN received'[s] \subseteq Broadcast
    BY <1>2, <1>5 DEF SocketInv, SocketTypeOK
  <2> QED
    BY <1>1, <1>5, <2>1 DEF SocketInv, SocketTypeOK
<1>7. SubscriptionInv'
  BY <1>1, SubscriptionStays DEF SocketInv
<1>8. OneEnvelope'
  BY <1>1 DEF SocketInv, OneEnvelope
<1>9. SentOnce'
  <2> SUFFICES ASSUME NEW s \in Socket, NEW x \in DOMAIN received'[s]
               PROVE  /\ received'[s][x] = 1
                      /\ socket[s].state # "none" =>
                           /\ \A f \in published : f.payload = x => f.instanceId = socket[s].at
                           /\ \A f \in inbox' : f.payload = x /\ f.to = socket[s].at => f.instanceId = f.to
    BY <1>1 DEF SentOnce
  <2>1. CASE s \in Audience(e) /\ x = e.payload
    <3>1. \A f \in published : f.payload # x
      BY <2>1 DEF SocketInv, OneEnvelope
    <3>2. ASSUME NEW f \in inbox', f.payload = x, f.to = socket[s].at PROVE FALSE
      <4>1. f \in inbox /\ f # e /\ f.instanceId = e.instanceId /\ f.caseId = e.caseId /\ f.payload = e.payload /\ f.to = e.to
        BY <1>1, <1>3, <2>1, <3>2 DEF SocketInv, OneEnvelope
      <4>2. f \in [instanceId: Instance, caseId: Case, payload: Broadcast, to: Instance]
        BY <4>1 DEF SocketInv, SocketTypeOK
      <4> QED
        BY <1>2, <4>1, <4>2
    <3> QED
      BY <1>5, <2>1, <3>1, <3>2
  <2>2. CASE ~(s \in Audience(e) /\ x = e.payload)
    <3>1. x \in DOMAIN received[s] /\ received'[s][x] = received[s][x]
      BY <1>5, <2>2
    <3> QED
      BY <1>1, <3>1 DEF SocketInv, SentOnce
  <2> QED
    BY <2>1, <2>2
<1> QED
  BY <1>6, <1>7, <1>8, <1>9 DEF SocketInv

\* The invariant of the sockets holds of every run.
THEOREM SocketInvariance == SocketInit /\ [][SocketNext]_socketVars => []SocketInv
<1>1. SocketInv /\ [SocketNext]_socketVars => SocketInv'
  <2> SUFFICES ASSUME SocketInv, [SocketNext]_socketVars PROVE SocketInv'
    OBVIOUS
  <2>1. CASE UNCHANGED socketVars
    <3>1. UNCHANGED <<socket, activeConnections, subscribedCases, subQueue, channels, published, inbox, received>>
      BY <2>1 DEF socketVars
    <3>2. SocketTypeOK'
      BY <3>1 DEF SocketInv, SocketTypeOK
    <3>3. SubscriptionInv' /\ OneEnvelope' /\ SentOnce'
      BY <3>1, SubscriptionStays, DeliveryStays DEF SocketInv
    <3> QED
      BY <3>2, <3>3 DEF SocketInv
  <2>2. ASSUME NEW s \in Socket, \/ \E i \in Instance, c \in Case : StartUpgrade(s, i, c)
                                 \/ RefuseUpgrade(s) \/ RegisterSocket(s) \/ PeerLeaves(s) \/ CloseSocket(s)
        PROVE  SocketInv'
    BY <2>2, UpgradeKeeps, RegisterKeeps, LeaveKeeps, CloseKeeps
  <2>3. ASSUME NEW i \in Instance, Heartbeat(i) \/ RedisSubscription(i) \/ InstanceCrash(i)
        PROVE  SocketInv'
    BY <2>3, HeartbeatKeeps, CommandKeeps, CrashOfInstanceKeeps
  <2>4. ASSUME NEW i \in Instance, NEW c \in Case, NEW b \in Broadcast, Publish(i, c, b)
        PROVE  SocketInv'
    BY <2>4, PublishKeeps
  <2>5. ASSUME NEW e \in published, RedisPublish(e) PROVE SocketInv'
    BY <2>5, EnvelopeKeeps
  <2>6. ASSUME NEW e \in inbox, ReceiveEnvelope(e) PROVE SocketInv'
    BY <2>6, ReceiptKeeps
  <2> QED
    BY <2>1, <2>2, <2>3, <2>4, <2>5, <2>6 DEF SocketNext
<1> QED
  BY <1>1, SocketsBegin, PTL

(***************************************************************************)
(* For any number of processes, connections and commands under way: when   *)
(* Redis has applied what a process asked for, the process is subscribed   *)
(* to exactly the cases of its registered sockets.                         *)
(***************************************************************************)
THEOREM SubscriptionsAgree == SocketSpec => []SubscriptionFollowsSockets
<1>1. SocketInv => SubscriptionFollowsSockets
  BY DEF SocketInv, SubscriptionInv, FlagsFollowSockets, CommandsFollowFlags, Agree, SubscriptionFollowsSockets
<1> QED
  BY <1>1, SocketInvariance, PTL DEF SocketSpec

(***************************************************************************)
(* For any number of processes, connections and broadcasts: the local send *)
(* and the one by way of Redis never reach the same connection.            *)
(***************************************************************************)
THEOREM SentOnceOnly == SocketSpec => []DeliveredAtMostOnce
<1>1. SocketInv => DeliveredAtMostOnce
  BY DEF SocketInv, SentOnce, DeliveredAtMostOnce
<1> QED
  BY <1>1, SocketInvariance, PTL DEF SocketSpec
=============================================================================
