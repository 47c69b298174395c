--------------------------- MODULE CbNotification ---------------------------
(***************************************************************************)
(* The life of a context-broker notification inside queues-consumer:       *)
(*                                                                         *)
(*   POST /orion-ld/subscription  ->  main queue  ->  Celery worker        *)
(*     worker: EntitySync (refresh, transform, save, enqueue observers)    *)
(*     failure: retry with a higher count, or the dead-letter queue (DLQ)  *)
(*   DLQ  ->  recovery job (WORKER_TYPE=dlq_recovery)  ->  main queue      *)
(*                                                                         *)
(* RabbitMQ and Celery are external: a message a worker holds is unacked   *)
(* and goes back to its queue when the worker process dies (acks_late);    *)
(* it is acknowledged when a pool child is killed by the hard time limit   *)
(* (task_acks_on_failure_or_timeout keeps its default).  The ETA of a      *)
(* retry only delays it, so time does not appear.                          *)
(***************************************************************************)
EXTENDS Integers, FiniteSets

CONSTANTS
  Notifs,      \* notifications the context broker sends
  Size,        \* Size[n]: entities in the "data" list of notification n (an
               \* entity stands for itself and its virtual notifications)
  Workers,     \* pool children consuming the main queue
  NumDBs,      \* timescale databases, written in order 1..NumDBs
  MaxRetries,  \* QUEUE_TASK_CONFIG ... max_retries
  Deletions,   \* notifications with a root-level "deletedAt"
  Expired,     \* entities whose devices' subscriptions ran out
  Poison,      \* entities whose processing always raises (no tenant or scope)
  CrowdFlow,   \* entities of type CrowdFlowEvent
  LossyFaults, \* the faults that may make a notification disappear
  MaxFaults,   \* bound on the faults of a behaviour
  None         \* "no notification"

Items   == {i \in Notifs \X Nat : i[2] \in 1 .. Size[i[1]]}
Retries == 0 .. MaxRetries
DBs     == 1 .. NumDBs
Jobs    == {"realtime", "alarms", "connectors"}

\* What can make a notification disappear without being stored: the pipeline
\* raises, a retry or a move to the DLQ cannot be published, a child is killed.
AllLossyFaults == {"transform", "retry", "dlq", "kill"}

ASSUME ConstantsAssumption ==
  /\ Size \in [Notifs -> Nat \ {0}]
  /\ NumDBs \in Nat \ {0}
  /\ MaxRetries \in Nat
  /\ MaxFaults \in Nat
  /\ LossyFaults \subseteq AllLossyFaults
  /\ Deletions \subseteq Notifs
  /\ Expired \subseteq Items
  /\ Poison \subseteq Items
  /\ CrowdFlow \subseteq Items
  /\ None \notin Notifs

VARIABLES
  unsent,    \* notifications the context broker has not sent yet
  missed,    \* notifications answered 204 that never reached the queue
  main,      \* main[n][r]: ready messages of n with retry count r
  dlq,       \* dlq[n]: ready messages of n in the dead-letter queue
  pc,        \* pc[w]: where worker w is in fiware_orion_subscription_job
  held,      \* held[w]: notification of the unacked message w works on
  tries,     \* tries[w]: self.request.retries of that message
  ent,       \* ent[w]: position in notification_data.data
  db,        \* db[w]: next timescale database to write
  stored,    \* stored[d]: entities with rows in timescale database d
  enqueued,  \* <<item, job>> pairs put on the observers' queues
  recovery,  \* the recovery process: "off", "poll", "holding", "published"
  taken,     \* the DLQ message the recovery loop works on
  stuck,     \* stuck[n]: DLQ messages left unacked by a caught exception
  faults,    \* faults so far
  blame      \* blame[n]: the lossy faults that hit n (history)

workerVars   == <<pc, held, tries, ent, db>>
recoveryVars == <<recovery, taken, stuck>>
outputVars   == <<stored, enqueued>>
faultVars    == <<faults, blame>>
vars == <<unsent, missed, main, dlq, workerVars, outputVars, recoveryVars, faultVars>>

PCs == {"idle", "refresh", "transform", "save", "observe", "failed", "settle"}

TypeOK ==
  /\ unsent \subseteq Notifs
  /\ missed \subseteq Notifs
  /\ main \in [Notifs -> [Retries -> Nat]]
  /\ dlq \in [Notifs -> Nat]
  /\ pc \in [Workers -> PCs]
  /\ held \in [Workers -> Notifs \cup {None}]
  /\ \A w \in Workers : pc[w] # "idle" => held[w] \in Notifs
  /\ tries \in [Workers -> Retries]
  /\ ent \in [Workers -> Nat]
  /\ db \in [Workers -> Nat]
  /\ stored \in [DBs -> SUBSET Items]
  /\ enqueued \subseteq Items \X Jobs
  /\ recovery \in {"off", "poll", "holding", "published"}
  /\ taken \in Notifs \cup {None}
  /\ recovery \in {"holding", "published"} => taken \in Notifs
  /\ stuck \in [Notifs -> Nat]
  /\ faults \in 0 .. MaxFaults
  /\ blame \in [Notifs -> SUBSET LossyFaults]

Init ==
  /\ unsent = Notifs
  /\ missed = {}
  /\ main = [n \in Notifs |-> [r \in Retries |-> 0]]
  /\ dlq = [n \in Notifs |-> 0]
  /\ pc = [w \in Workers |-> "idle"]
  /\ held = [w \in Workers |-> None]
  /\ tries = [w \in Workers |-> 0]
  /\ ent = [w \in Workers |-> 1]
  /\ db = [w \in Workers |-> 1]
  /\ stored = [d \in DBs |-> {}]
  /\ enqueued = {}
  /\ recovery = "off"
  /\ taken = None
  /\ stuck = [n \in Notifs |-> 0]
  /\ faults = 0
  /\ blame = [n \in Notifs |-> {}]

-----------------------------------------------------------------------------
(* Faults.                                                                 *)

Fault ==
  /\ faults < MaxFaults
  /\ faults' = faults + 1

\* A fault that hits notification n and may lose it.
LossyFault(n, kind) ==
  /\ kind \in LossyFaults
  /\ Fault
  /\ blame' = [blame EXCEPT ![n] = @ \cup {kind}]

HarmlessFault == Fault /\ UNCHANGED blame

-----------------------------------------------------------------------------
(* The HTTP entry point.                                                   *)

\* fiware_orion_subscription_job.delay(notification).
Notify(n) ==
  /\ n \in unsent
  /\ unsent' = unsent \ {n}
  /\ main' = [main EXCEPT ![n][0] = @ + 1]
  /\ UNCHANGED <<missed, dlq, workerVars, outputVars, recoveryVars, faultVars>>

\* The publish raises; the exception is logged and the answer is still 204.
NotifyFails(n) ==
  /\ n \in unsent
  /\ HarmlessFault
  /\ unsent' = unsent \ {n}
  /\ missed' = missed \cup {n}
  /\ UNCHANGED <<main, dlq, workerVars, outputVars, recoveryVars>>

-----------------------------------------------------------------------------
(* The worker.                                                             *)

Item(w) == <<held[w], ent[w]>>

Goto(w, label) == pc' = [pc EXCEPT ![w] = label]

\* End of _process_single_entity: the loop takes the next entity or ends.
NextEntity(w) ==
  IF ent[w] < Size[held[w]]
  THEN /\ Goto(w, "refresh")
       /\ ent' = [ent EXCEPT ![w] = @ + 1]
       /\ db' = [db EXCEPT ![w] = 1]
  ELSE Goto(w, "settle") /\ UNCHANGED <<ent, db>>

\* The worker is done with its message.
Release(w) ==
  /\ pc' = [pc EXCEPT ![w] = "idle"]
  /\ held' = [held EXCEPT ![w] = None]
  /\ tries' = [tries EXCEPT ![w] = 0]
  /\ ent' = [ent EXCEPT ![w] = 1]
  /\ db' = [db EXCEPT ![w] = 1]

\* Delivery of a message; a deletion notification is skipped as a whole.
Receive(w, n, r) ==
  /\ pc[w] = "idle"
  /\ main[n][r] > 0
  /\ main' = [main EXCEPT ![n][r] = @ - 1]
  /\ held' = [held EXCEPT ![w] = n]
  /\ tries' = [tries EXCEPT ![w] = r]
  /\ Goto(w, IF n \in Deletions THEN "settle" ELSE "refresh")
  /\ UNCHANGED <<unsent, missed, dlq, ent, db, outputVars, recoveryVars, faultVars>>

\* _refresh_and_validate_entity: the entity is found or created, or skipped
\* because the subscription of one of its devices expired.
Refresh(w) ==
  /\ pc[w] = "refresh"
  /\ Item(w) \notin Poison
  /\ IF Item(w) \in Expired
     THEN NextEntity(w)
     ELSE Goto(w, "transform") /\ UNCHANGED <<ent, db>>
  /\ UNCHANGED <<unsent, missed, main, dlq, held, tries, outputVars, recoveryVars, faultVars>>

\* get_or_create_entity returns None for an entity without tenant or scope and
\* the caller unpacks it as a pair: TypeError, on every attempt.
RefreshPoison(w) ==
  /\ pc[w] = "refresh"
  /\ Item(w) \in Poison
  /\ Goto(w, "failed")
  /\ UNCHANGED <<unsent, missed, main, dlq, held, tries, ent, db, outputVars,
                 recoveryVars, faultVars>>

\* The main database fails.
RefreshFails(w) ==
  /\ pc[w] = "refresh"
  /\ HarmlessFault
  /\ Goto(w, "failed")
  /\ UNCHANGED <<unsent, missed, main, dlq, held, tries, ent, db, outputVars, recoveryVars>>

\* The processor pipeline and the mapping schemas succeed.
Transform(w) ==
  /\ pc[w] = "transform"
  /\ Goto(w, "save")
  /\ UNCHANGED <<unsent, missed, main, dlq, held, tries, ent, db, outputVars,
                 recoveryVars, faultVars>>

\* The pipeline raises (it reads and writes the realtime database): the
\* exception is logged, nothing is dispatched and the loop goes on.
TransformFails(w) ==
  /\ pc[w] = "transform"
  /\ LossyFault(held[w], "transform")
  /\ NextEntity(w)
  /\ UNCHANGED <<unsent, missed, main, dlq, held, tries, outputVars, recoveryVars>>

\* Mutant of SaveTimeseries: only the first database is written.
SaveFirstDatabase(w) ==
  /\ pc[w] = "save"
  /\ stored' = [stored EXCEPT ![db[w]] = @ \cup {Item(w)}]
  /\ Goto(w, "observe")
  /\ UNCHANGED <<unsent, missed, main, dlq, held, tries, ent, db, enqueued, recoveryVars, faultVars>>

\* TimescaleSyncJob.single_handle on the next database: insert on conflict do
\* nothing, then commit.
SaveTimeseries(w) ==
  /\ pc[w] = "save"
  /\ stored' = [stored EXCEPT ![db[w]] = @ \cup {Item(w)}]
  /\ IF db[w] < NumDBs
     THEN db' = [db EXCEPT ![w] = @ + 1] /\ UNCHANGED pc
     ELSE Goto(w, "observe") /\ UNCHANGED db
  /\ UNCHANGED <<unsent, missed, main, dlq, held, tries, ent, enqueued, recoveryVars, faultVars>>

\* Mutant of SaveFails: the exception is logged and not raised again.
SaveFailsSilently(w) ==
  /\ pc[w] = "save"
  /\ HarmlessFault
  /\ NextEntity(w)
  /\ UNCHANGED <<unsent, missed, main, dlq, held, tries, outputVars, recoveryVars>>

\* Mutant of SaveFails: the loop over the databases goes on after a failure.
SaveFailsGoesOn(w) ==
  /\ pc[w] = "save"
  /\ HarmlessFault
  /\ IF db[w] < NumDBs
     THEN db' = [db EXCEPT ![w] = @ + 1] /\ UNCHANGED pc
     ELSE Goto(w, "failed") /\ UNCHANGED db
  /\ UNCHANGED <<unsent, missed, main, dlq, held, tries, ent, outputVars, recoveryVars>>

\* Mutant of SaveFails: a failed attempt removes the rows of the entity.
SaveFailsCleansUp(w) ==
  /\ pc[w] = "save"
  /\ HarmlessFault
  /\ Goto(w, "failed")
  /\ stored' = [d \in DBs |-> stored[d] \ {Item(w)}]
  /\ UNCHANGED <<unsent, missed, main, dlq, held, tries, ent, db, enqueued, recoveryVars>>

\* A timescale database fails: the exception reaches the task.
SaveFails(w) ==
  /\ pc[w] = "save"
  /\ HarmlessFault
  /\ Goto(w, "failed")
  /\ UNCHANGED <<unsent, missed, main, dlq, held, tries, ent, db, outputVars, recoveryVars>>

\* Each observer runs in its own try: one that fails is logged and its job is
\* never enqueued.  A CrowdFlowEvent enqueues at most the realtime job.
Observe(w) ==
  /\ pc[w] = "observe"
  /\ \E jobs \in SUBSET Jobs :
       /\ enqueued' = enqueued \cup ({Item(w)} \X jobs)
       /\ IF Item(w) \in CrowdFlow
          THEN jobs \subseteq {"realtime"} /\ UNCHANGED faults
          ELSE IF jobs = Jobs THEN UNCHANGED faults ELSE Fault
  /\ NextEntity(w)
  /\ UNCHANGED <<unsent, missed, main, dlq, held, tries, stored, recoveryVars, blame>>

\* Mutant of Retry: the retry count does not grow.
RetryKeepsCount(w) ==
  /\ pc[w] = "failed"
  /\ tries[w] < MaxRetries
  /\ main' = [main EXCEPT ![held[w]][tries[w]] = @ + 1]
  /\ Goto(w, "settle")
  /\ UNCHANGED <<unsent, missed, dlq, held, tries, ent, db, outputVars, recoveryVars, faultVars>>

\* self.retry publishes the message with one more retry, then it is acked.
Retry(w) ==
  /\ pc[w] = "failed"
  /\ tries[w] < MaxRetries
  /\ main' = [main EXCEPT ![held[w]][tries[w] + 1] = @ + 1]
  /\ Goto(w, "settle")
  /\ UNCHANGED <<unsent, missed, dlq, held, tries, ent, db, outputVars, recoveryVars, faultVars>>

\* The publish of the retry raises: Celery turns that into
\* Reject(requeue=False).
RetryFails(w) ==
  /\ pc[w] = "failed"
  /\ tries[w] < MaxRetries
  /\ LossyFault(held[w], "retry")
  /\ Goto(w, "settle")
  /\ UNCHANGED <<unsent, missed, main, dlq, held, tries, ent, db, outputVars, recoveryVars>>

\* Retries exhausted: send_task to the DLQ, then Reject(requeue=False).
MoveToDlq(w) ==
  /\ pc[w] = "failed"
  /\ tries[w] >= MaxRetries
  /\ dlq' = [dlq EXCEPT ![held[w]] = @ + 1]
  /\ Goto(w, "settle")
  /\ UNCHANGED <<unsent, missed, main, held, tries, ent, db, outputVars, recoveryVars, faultVars>>

\* The send_task raises: the error is logged and the message is rejected all
\* the same.
MoveToDlqFails(w) ==
  /\ pc[w] = "failed"
  /\ tries[w] >= MaxRetries
  /\ LossyFault(held[w], "dlq")
  /\ Goto(w, "settle")
  /\ UNCHANGED <<unsent, missed, main, dlq, held, tries, ent, db, outputVars, recoveryVars>>

\* The broker removes the message: ack of a finished or retried task, or the
\* reject without requeue after the DLQ publish.
Settle(w) ==
  /\ pc[w] = "settle"
  /\ Release(w)
  /\ UNCHANGED <<unsent, missed, main, dlq, outputVars, recoveryVars, faultVars>>

\* Mutant of WorkerCrash: without acks_late the message was acked on delivery.
WorkerCrashAcked(w) ==
  /\ pc[w] # "idle"
  /\ HarmlessFault
  /\ Release(w)
  /\ UNCHANGED <<unsent, missed, main, dlq, outputVars, recoveryVars>>

\* The worker process dies: acks_late, so the message is delivered again, with
\* the retry count it had.
WorkerCrash(w) ==
  /\ pc[w] # "idle"
  /\ HarmlessFault
  /\ main' = [main EXCEPT ![held[w]][tries[w]] = @ + 1]
  /\ Release(w)
  /\ UNCHANGED <<unsent, missed, dlq, outputVars, recoveryVars>>

\* The pool child exceeds time_limit (or is killed): its parent acknowledges
\* the message.
ChildKilled(w) ==
  /\ pc[w] \notin {"idle", "settle"}
  /\ LossyFault(held[w], "kill")
  /\ Release(w)
  /\ UNCHANGED <<unsent, missed, main, dlq, outputVars, recoveryVars>>

-----------------------------------------------------------------------------
(* The DLQ recovery job.                                                   *)

\* The operator launches the job.
RecoveryStart ==
  /\ recovery = "off"
  /\ recovery' = "poll"
  /\ UNCHANGED <<unsent, missed, main, dlq, workerVars, outputVars, taken, stuck, faultVars>>

\* Mutant of RecoveryGet: the count is trusted and get() not checked for None.
RecoveryGetUnchecked(n) ==
  /\ recovery = "poll"
  /\ dlq' = [dlq EXCEPT ![n] = @ - 1]
  /\ recovery' = "holding"
  /\ taken' = n
  /\ UNCHANGED <<unsent, missed, main, workerVars, outputVars, stuck, faultVars>>

\* dlq_queue(conn).get(no_ack=False)
RecoveryGet(n) ==
  /\ recovery = "poll"
  /\ dlq[n] > 0
  /\ dlq' = [dlq EXCEPT ![n] = @ - 1]
  /\ recovery' = "holding"
  /\ taken' = n
  /\ UNCHANGED <<unsent, missed, main, workerVars, outputVars, stuck, faultVars>>

\* _republish_message: the DLQ message is a fresh task, its retry count is 0.
RecoveryRepublish ==
  /\ recovery = "holding"
  /\ main' = [main EXCEPT ![taken][0] = @ + 1]
  /\ recovery' = "published"
  /\ UNCHANGED <<unsent, missed, dlq, workerVars, outputVars, taken, stuck, faultVars>>

\* Mutant of RecoveryAck: message.ack() is forgotten.
RecoveryAckForgotten ==
  /\ recovery = "published"
  /\ stuck' = [stuck EXCEPT ![taken] = @ + 1]
  /\ recovery' = "poll"
  /\ taken' = None
  /\ UNCHANGED <<unsent, missed, main, dlq, workerVars, outputVars, faultVars>>

\* message.ack()
RecoveryAck ==
  /\ recovery = "published"
  /\ recovery' = "poll"
  /\ taken' = None
  /\ UNCHANGED <<unsent, missed, main, dlq, workerVars, outputVars, stuck, faultVars>>

\* Mutant of RecoveryError: the message is acked although the republish failed.
RecoveryErrorAcks ==
  /\ recovery \in {"holding", "published"}
  /\ HarmlessFault
  /\ recovery' = "poll"
  /\ taken' = None
  /\ UNCHANGED <<unsent, missed, main, dlq, workerVars, outputVars, stuck>>

\* The republish or the ack raises: the loop goes on and the message stays
\* unacked on the connection of the job.
RecoveryError ==
  /\ recovery \in {"holding", "published"}
  /\ HarmlessFault
  /\ stuck' = [stuck EXCEPT ![taken] = @ + 1]
  /\ recovery' = "poll"
  /\ taken' = None
  /\ UNCHANGED <<unsent, missed, main, dlq, workerVars, outputVars>>

\* The connection closes: every unacked message is ready in the DLQ again.
RecoveryDisconnect ==
  /\ recovery' = "off"
  /\ taken' = None
  /\ dlq' = [n \in Notifs |-> dlq[n] + stuck[n] + (IF n = taken THEN 1 ELSE 0)]
  /\ stuck' = [n \in Notifs |-> 0]
  /\ UNCHANGED <<unsent, missed, main, workerVars, outputVars>>

\* No ready message for idle_timeout seconds: sys.exit(0).
RecoveryExit ==
  /\ recovery = "poll"
  /\ \A n \in Notifs : dlq[n] = 0
  /\ RecoveryDisconnect
  /\ UNCHANGED faultVars

RecoveryCrash ==
  /\ recovery # "off"
  /\ HarmlessFault
  /\ RecoveryDisconnect

-----------------------------------------------------------------------------

WorkerStep(w) ==
  \/ Refresh(w) \/ RefreshPoison(w) \/ Transform(w) \/ SaveTimeseries(w)
  \/ Observe(w) \/ Retry(w) \/ MoveToDlq(w) \/ Settle(w)

WorkerFault(w) ==
  \/ RefreshFails(w) \/ TransformFails(w) \/ SaveFails(w) \/ RetryFails(w)
  \/ MoveToDlqFails(w) \/ WorkerCrash(w) \/ ChildKilled(w)

RecoveryStep ==
  \/ \E n \in Notifs : RecoveryGet(n)
  \/ RecoveryRepublish \/ RecoveryAck \/ RecoveryExit

Next ==
  \/ \E n \in Notifs : Notify(n) \/ NotifyFails(n)
  \/ \E w \in Workers, n \in Notifs, r \in Retries : Receive(w, n, r)
  \/ \E w \in Workers : WorkerStep(w) \/ WorkerFault(w)
  \/ RecoveryStart \/ RecoveryStep \/ RecoveryError \/ RecoveryCrash

Spec == Init /\ [][Next]_vars

(***************************************************************************)
(* Fairness.  A pool child keeps executing its task; RabbitMQ hands out    *)
(* ready messages in order, so no message is passed over forever; and a    *)
(* recovery job that runs keeps looping.  Nothing makes the operator       *)
(* launch it, and no fault has to happen.                                  *)
(***************************************************************************)
Fairness ==
  /\ \A w \in Workers : WF_vars(WorkerStep(w))
  /\ \A n \in Notifs, r \in Retries : SF_vars(\E w \in Workers : Receive(w, n, r))
  /\ \A n \in Notifs : SF_vars(RecoveryGet(n))
  /\ WF_vars(RecoveryStep)

FairSpec == Spec /\ Fairness

\* The operator keeps launching the job (the documented way to drain the DLQ).
OperatorSpec == FairSpec /\ WF_vars(RecoveryStart)

-----------------------------------------------------------------------------
(* Properties.                                                             *)

\* A worker that still owes its message a result.
Working(w) == pc[w] \notin {"idle", "settle"}

\* A copy of n that some process will still work on.  A message at "settle" is
\* about to be removed and does not count.
Queued(n)    == \E r \in Retries : main[n][r] > 0
InProgress(n) == \E w \in Workers : Working(w) /\ held[w] = n
Parked(n) ==
  \/ dlq[n] > 0
  \/ stuck[n] > 0
  \/ recovery = "holding" /\ taken = n

\* The rows of every entity of n are in every database; entities with an
\* expired subscription are skipped on purpose.
Done(i)     == i \in Expired \/ \A d \in DBs : i \in stored[d]
Complete(n) == \A e \in 1 .. Size[n] : Done(<<n, e>>)

Accepted(n) == n \notin unsent /\ n \notin missed

\* Nothing of n can get lost any more, or somebody still has to deal with it.
Kept(n) ==
  \/ Complete(n) \/ n \in Deletions
  \/ Queued(n) \/ InProgress(n) \/ Parked(n)

\* A notification whose message entered the main queue is, at every moment,
\* completely stored, or a deletion, or in a queue or in work, unless one of
\* the lossy faults hit that very notification.  Crashes of workers and of
\* the recovery job and failures of the databases lose nothing.
NoLoss == \A n \in Notifs : Accepted(n) => Kept(n) \/ blame[n] # {}

\* What docs/dlq/dead_letter_queue_recovery.md promises: no message is ever
\* discarded, it is stored, pending or parked in the DLQ.
ZeroDataLoss == \A n \in Notifs : Accepted(n) => Kept(n)

\* No realtime, alarm or connector job is ever enqueued for data that some
\* timescale database does not have, whatever was retried or redelivered in
\* between: the jobs of an entity follow its last commit.
JobsAfterRows ==
  \A p \in enqueued : \A d \in DBs : p[1] \in stored[d]

\* The databases are written in order and each commits on its own: one may lag
\* behind an earlier one but never be ahead of it, also after a retry.
DatabasesInOrder ==
  \A d \in DBs : d + 1 \in DBs => stored[d + 1] \subseteq stored[d]

ProgressOf(w) ==
  /\ Working(w) =>
       /\ held[w] \notin Deletions
       /\ ent[w] \in 1 .. Size[held[w]]
       /\ db[w] \in DBs
       /\ \A e \in 1 .. (ent[w] - 1) :
            Done(<<held[w], e>>) \/ blame[held[w]] # {}
  /\ pc[w] = "idle" => ent[w] = 1
  /\ pc[w] \in {"idle", "refresh", "transform"} => db[w] = 1
  /\ pc[w] = "save" => \A d \in 1 .. (db[w] - 1) : Item(w) \in stored[d]
  /\ pc[w] = "observe" => \A d \in DBs : Item(w) \in stored[d]

\* What a worker has gone past in its notification is stored, in the databases
\* it has gone past, or was lost to a fault that hit this notification.
Progress == \A w \in Workers : ProgressOf(w)

\* Every accepted notification ends up stored, or in the DLQ, unless it is a
\* deletion or a lossy fault hit it: retries do not go on forever.
Settled(n) == Complete(n) \/ n \in Deletions \/ Parked(n) \/ blame[n] # {}
Settles == \A n \in Notifs : Accepted(n) ~> Settled(n)

\* When the operator keeps launching the recovery job and the job ends each
\* time (a notification that fails for ever can keep it busy, and what a caught
\* error left unacked only comes back when it ends), every accepted
\* notification without a poisonous entity is finally stored.
Owed(n)      == Accepted(n) /\ \A e \in 1 .. Size[n] : <<n, e>> \notin Poison
Delivered(n) == Complete(n) \/ n \in Deletions \/ blame[n] # {}
EventuallyStored ==
  []<>(recovery = "off") => \A n \in Notifs : Owed(n) ~> Delivered(n)

-----------------------------------------------------------------------------
(* Refinement of NotificationDelivery.                                     *)

\* Nothing of n has to be stored: all its entities are skipped.
NothingToStore(n) ==
  n \in Deletions \/ \A e \in 1 .. Size[n] : <<n, e>> \in Expired

\* A message its holder is about to remove still counts here: a crash would
\* bring it back.
StatusOf(n) ==
  IF n \in unsent THEN "unsent"
  ELSE IF n \in missed THEN "lost"
  ELSE IF Complete(n) /\ ~ NothingToStore(n) THEN "stored"
  ELSE IF Queued(n) \/ \E w \in Workers : held[w] = n THEN "pending"
  ELSE IF Parked(n) \/ taken = n THEN "parked"
  ELSE IF NothingToStore(n) THEN "discarded"
  ELSE "lost"

Delivery == INSTANCE NotificationDelivery
              WITH status <- [n \in Notifs |-> StatusOf(n)]

\* The queues, retries, DLQ and recovery job implement the abstract delivery:
\* in particular stored, discarded and lost are final, whatever copies of the
\* notification still circulate.
RefinesDelivery == Delivery!Spec

=============================================================================
