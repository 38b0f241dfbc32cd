---------------------------- MODULE OfflineQueue ----------------------------
(***************************************************************************)
(* PostWinOfflineService: an in-memory queue of intakes and a timer that   *)
(* takes all of it and replays the items one after another.  Each replay   *)
(* awaits, so that the timer fires again, and intakes are queued, while a  *)
(* round is still under way.  The queue does not survive the process.      *)
(***************************************************************************)
EXTENDS Integers, Sequences, FiniteSets

CONSTANTS
  OfflineIntake,  \* intakes that may be queued
  Malformed,      \* those whose message is not text: handleIntake throws
  SyncRound       \* firings of the timer that may overlap

ASSUME MalformedAssumption == Malformed \subseteq OfflineIntake

VARIABLES
  queue,    \* this.queue
  rounds,   \* what each round under way has still to replay
  synced,   \* the routing status of each replay of each intake
  queued    \* the intakes that were handed to enqueueIntake

queueVars == <<queue, rounds, synced, queued>>

QueueInit ==
  /\ queue = <<>>
  /\ rounds = [r \in SyncRound |-> <<>>]
  /\ synced = [i \in OfflineIntake |-> <<>>]
  /\ queued = {}

EnqueueIntake(i) ==
  /\ i \notin queued
  /\ queue' = Append(queue, i)
  /\ queued' = queued \cup {i}
  /\ UNCHANGED <<rounds, synced>>

\* Variant: the queue is emptied when the round is over, not when it begins.
StartSyncNoReset(r) ==
  /\ queue # <<>> /\ rounds[r] = <<>>
  /\ rounds' = [rounds EXCEPT ![r] = queue]
  /\ UNCHANGED <<queue, synced, queued>>

\* The timer fires: itemsToSync is a copy of the queue, the queue is emptied.
StartSync(r) ==
  /\ queue # <<>> /\ rounds[r] = <<>>
  /\ rounds' = [rounds EXCEPT ![r] = queue]
  /\ queue' = <<>>
  /\ UNCHANGED <<synced, queued>>

(***************************************************************************)
(* processPostWin(): the projection names no task, "ENROLL" is none of     *)
(* projectTasks, and so the sequence check blocks it before any body is    *)
(* ranked; without a body it would fall back.                              *)
(***************************************************************************)
ProjectTasks == {"t1", "t2"}
Dependencies(task) == IF task = "t2" THEN {"t1"} ELSE {}
ValidateTaskSequence(completed, task) ==
  task \in ProjectTasks /\ Dependencies(task) \subseteq completed

RankBodies(sdgGoal, bodies) == { b \in bodies : sdgGoal \in b.capabilities }

ProcessPostWin(postWin, bodies) ==
  IF ~ValidateTaskSequence({}, postWin.taskId) THEN "BLOCKED"
  ELSE IF RankBodies(postWin.sdgGoal, bodies) # {} THEN "MATCHED"
  ELSE "FALLBACK"

ProjectedPostWin == [taskId |-> "ENROLL", sdgGoal |-> "none"]

\* One item of a round goes through handleIntake, trusted, and through the router with no
\* bodies; whatever the router answers, the item is done.
SyncIntake(r) ==
  /\ rounds[r] # <<>>
  /\ LET i == Head(rounds[r])
     IN  /\ i \notin Malformed
         /\ synced' = [synced EXCEPT ![i] = Append(@, ProcessPostWin(ProjectedPostWin, {}))]
  /\ rounds' = [rounds EXCEPT ![r] = Tail(@)]
  /\ UNCHANGED <<queue, queued>>

\* Variant: a failed item ends its round, which goes back to the front of the queue.
RequeueRest(r) ==
  /\ rounds[r] # <<>> /\ Head(rounds[r]) \in Malformed
  /\ queue' = rounds[r] \o queue
  /\ rounds' = [rounds EXCEPT ![r] = <<>>]
  /\ UNCHANGED <<synced, queued>>

\* The item throws: it goes to the end of the queue and the round goes on.
Requeue(r) ==
  /\ rounds[r] # <<>> /\ Head(rounds[r]) \in Malformed
  /\ queue' = Append(queue, Head(rounds[r]))
  /\ rounds' = [rounds EXCEPT ![r] = Tail(@)]
  /\ UNCHANGED <<synced, queued>>

QueueNext ==
  \/ \E i \in OfflineIntake : EnqueueIntake(i)
  \/ \E r \in SyncRound : StartSync(r) \/ SyncIntake(r) \/ Requeue(r)

\* The timer fires for ever and an awaited replay ends.
QueueFairness == \A r \in SyncRound : WF_queueVars(StartSync(r)) /\ WF_queueVars(SyncIntake(r) \/ Requeue(r))

QueueSpec == QueueInit /\ [][QueueNext]_queueVars /\ QueueFairness
-----------------------------------------------------------------------------
QueueTypeOK ==
  /\ queue \in Seq(OfflineIntake)
  /\ rounds \in [SyncRound -> Seq(OfflineIntake)]
  /\ synced \in [OfflineIntake -> Seq({"BLOCKED", "MATCHED", "FALLBACK"})]
  /\ queued \subseteq OfflineIntake

\* Where an intake is: its places in the queue and in the rounds, and its replays.
Positions(s, i) == { n \in DOMAIN s : s[n] = i }

Places(i) ==
  { <<"queue", n>> : n \in Positions(queue, i) }
    \cup (UNION { { <<"round", <<r, n>>>> : n \in Positions(rounds[r], i) } : r \in SyncRound })
    \cup { <<"synced", n>> : n \in DOMAIN synced[i] }

(***************************************************************************)
(* "Failures are requeued safely so no intake request is lost", while      *)
(* rounds overlap: a queued intake is in exactly one place, the queue, one *)
(* round or the synced ones.                                               *)
(***************************************************************************)
NoIntakeIsLost == \A i \in queued : Cardinality(Places(i)) = 1

\* An intake whose replay does not throw is replayed, however the rounds interleave and
\* however often a malformed one comes back.
EveryIntakeIsReplayed ==
  \A i \in OfflineIntake \ Malformed : (i \in queued) ~> (synced[i] # <<>>)
=============================================================================
