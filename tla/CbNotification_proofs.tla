------------------------ MODULE CbNotification_proofs ------------------------
(***************************************************************************)
(* Proofs about CbNotification, for any notifications, workers, databases, *)
(* retry limit and number of faults.                                       *)
(***************************************************************************)
EXTENDS CbNotification, TLAPS

\* Every notification has at least one entity.
LEMMA SizePositive ==
  ASSUME NEW n \in Notifs PROVE Size[n] \in Nat /\ Size[n] >= 1
BY ConstantsAssumption

\* A position in the list of a notification is an item.
LEMMA ItemType ==
  ASSUME NEW n \in Notifs, NEW e \in 1 .. Size[n] PROVE <<n, e>> \in Items
BY SizePositive DEF Items

\* The initial state is well typed.
LEMMA InitType == Init => TypeOK
<1> SUFFICES ASSUME Init PROVE TypeOK OBVIOUS
<1>1. 0 \in Retries BY ConstantsAssumption DEF Retries
<1> QED BY <1>1, ConstantsAssumption DEF Init, TypeOK, PCs

\* Publishing one more message keeps the main queue a table of counters.
LEMMA PublishType ==
  ASSUME TypeOK, NEW n \in Notifs, NEW r \in Retries
  PROVE  [main EXCEPT ![n][r] = @ + 1] \in [Notifs -> [Retries -> Nat]]
<1>1. main[n] \in [Retries -> Nat] BY DEF TypeOK
<1>2. [main[n] EXCEPT ![r] = @ + 1] \in [Retries -> Nat] BY <1>1
<1> QED BY <1>2 DEF TypeOK

\* The loop over the entities keeps the types, and only moves a busy worker.
LEMMA NextEntityType ==
  ASSUME TypeOK, NEW w \in Workers, pc[w] # "idle", NextEntity(w)
  PROVE  /\ pc' \in [Workers -> PCs]
         /\ ent' \in [Workers -> Nat]
         /\ db' \in [Workers -> Nat]
         /\ \A v \in Workers : pc'[v] # "idle" => pc[v] # "idle"
<1>1. CASE ent[w] < Size[held[w]]
  <2>1. /\ pc' = [pc EXCEPT ![w] = "refresh"]
        /\ ent' = [ent EXCEPT ![w] = @ + 1]
        /\ db' = [db EXCEPT ![w] = 1]
    BY <1>1 DEF NextEntity, Goto
  <2>2. ent[w] + 1 \in Nat BY DEF TypeOK
  <2> QED BY <2>1, <2>2 DEF TypeOK, PCs
<1>2. CASE ~(ent[w] < Size[held[w]])
  BY <1>2 DEF TypeOK, NextEntity, Goto, PCs
<1> QED BY <1>1, <1>2

\* A worker that drops its message is well typed again.
LEMMA ReleaseType ==
  ASSUME TypeOK, NEW w \in Workers, Release(w)
  PROVE  /\ pc' \in [Workers -> PCs]
         /\ held' \in [Workers -> Notifs \cup {None}]
         /\ \A v \in Workers : pc'[v] # "idle" => held'[v] \in Notifs
         /\ tries' \in [Workers -> Retries]
         /\ ent' \in [Workers -> Nat]
         /\ db' \in [Workers -> Nat]
<1>1. 0 \in Retries BY ConstantsAssumption DEF Retries
<1> QED BY <1>1 DEF TypeOK, Release, PCs

\* Every step keeps the types, given that workers stay inside their notification.
LEMMA NextType == TypeOK /\ Progress /\ [Next]_vars => TypeOK'
<1> SUFFICES ASSUME TypeOK, Progress, [Next]_vars PROVE TypeOK' OBVIOUS
<1> USE ConstantsAssumption
<1>1. CASE UNCHANGED vars
  BY <1>1 DEF TypeOK, vars, workerVars, outputVars, recoveryVars, faultVars
<1>2. ASSUME NEW n \in Notifs, Notify(n) PROVE TypeOK'
  <2>1. 0 \in Retries BY DEF Retries
  <2>2. main' \in [Notifs -> [Retries -> Nat]] BY <1>2, <2>1, PublishType DEF Notify
  <2> QED BY <1>2, <2>2 DEF TypeOK, Notify, workerVars, outputVars, recoveryVars, faultVars
<1>3. ASSUME NEW n \in Notifs, NotifyFails(n) PROVE TypeOK'
  BY <1>3 DEF TypeOK, NotifyFails, HarmlessFault, Fault, workerVars, outputVars, recoveryVars
<1>4. ASSUME NEW w \in Workers, NEW n \in Notifs, NEW r \in Retries, Receive(w, n, r)
      PROVE TypeOK'
  <2>1. main[n] \in [Retries -> Nat] /\ main[n][r] > 0 BY <1>4 DEF TypeOK, Receive
  <2>2. [main[n] EXCEPT ![r] = @ - 1] \in [Retries -> Nat] BY <2>1
  <2>3. main' \in [Notifs -> [Retries -> Nat]] BY <1>4, <2>2 DEF TypeOK, Receive
  <2> QED BY <1>4, <2>3 DEF TypeOK, Receive, Goto, PCs, outputVars, recoveryVars, faultVars
<1>5. ASSUME NEW w \in Workers, Refresh(w) PROVE TypeOK'
  <2>1. CASE Item(w) \in Expired
    <3>1. NextEntity(w) /\ pc[w] # "idle" BY <1>5, <2>1 DEF Refresh
    <3> QED BY <1>5, <3>1, NextEntityType DEF TypeOK, Refresh, outputVars, recoveryVars, faultVars
  <2>2. CASE Item(w) \notin Expired
    BY <1>5, <2>2 DEF TypeOK, Refresh, Goto, PCs, outputVars, recoveryVars, faultVars
  <2> QED BY <2>1, <2>2
<1>6. ASSUME NEW w \in Workers, RefreshPoison(w) PROVE TypeOK'
  BY <1>6 DEF TypeOK, RefreshPoison, Goto, PCs, outputVars, recoveryVars, faultVars
<1>7. ASSUME NEW w \in Workers, RefreshFails(w) PROVE TypeOK'
  BY <1>7 DEF TypeOK, RefreshFails, HarmlessFault, Fault, Goto, PCs, outputVars, recoveryVars
<1>8. ASSUME NEW w \in Workers, Transform(w) PROVE TypeOK'
  BY <1>8 DEF TypeOK, Transform, Goto, PCs, outputVars, recoveryVars, faultVars
<1>9. ASSUME NEW w \in Workers, TransformFails(w) PROVE TypeOK'
  <2>1. NextEntity(w) /\ pc[w] # "idle" BY <1>9 DEF TransformFails
  <2> QED BY <1>9, <2>1, NextEntityType
          DEF TypeOK, TransformFails, LossyFault, Fault, outputVars, recoveryVars
<1>10. ASSUME NEW w \in Workers, SaveTimeseries(w) PROVE TypeOK'
  <2>1. Item(w) \in Items
    BY <1>10, ItemType DEF TypeOK, Progress, ProgressOf, SaveTimeseries, Working, Item
  <2>2. stored' \in [DBs -> SUBSET Items]
    BY <1>10, <2>1 DEF TypeOK, SaveTimeseries
  <2>3. CASE db[w] < NumDBs
    BY <1>10, <2>2, <2>3 DEF TypeOK, SaveTimeseries, recoveryVars, faultVars
  <2>4. CASE ~(db[w] < NumDBs)
    BY <1>10, <2>2, <2>4 DEF TypeOK, SaveTimeseries, Goto, PCs, recoveryVars, faultVars
  <2> QED BY <2>3, <2>4
<1>11. ASSUME NEW w \in Workers, SaveFails(w) PROVE TypeOK'
  BY <1>11 DEF TypeOK, SaveFails, HarmlessFault, Fault, Goto, PCs, outputVars, recoveryVars
<1>12. ASSUME NEW w \in Workers, Observe(w) PROVE TypeOK'
  <2>1. Item(w) \in Items
    BY <1>12, ItemType DEF TypeOK, Progress, ProgressOf, Observe, Working, Item
  <2>2. enqueued' \subseteq Items \X Jobs
    BY <1>12, <2>1 DEF TypeOK, Observe
  <2>3. faults' \in 0 .. MaxFaults
    BY <1>12 DEF TypeOK, Observe, Fault
  <2>4. NextEntity(w) /\ pc[w] # "idle" BY <1>12 DEF Observe
  <2> QED BY <1>12, <2>2, <2>3, <2>4, NextEntityType DEF TypeOK, Observe, recoveryVars
<1>13. ASSUME NEW w \in Workers, Retry(w) PROVE TypeOK'
  <2>1. held[w] \in Notifs BY <1>13 DEF TypeOK, Retry
  <2>2. tries[w] + 1 \in Retries BY <1>13 DEF TypeOK, Retry, Retries
  <2>3. main' \in [Notifs -> [Retries -> Nat]] BY <1>13, <2>1, <2>2, PublishType DEF Retry
  <2> QED BY <1>13, <2>3 DEF TypeOK, Retry, Goto, PCs, outputVars, recoveryVars, faultVars
<1>14. ASSUME NEW w \in Workers, RetryFails(w) PROVE TypeOK'
  BY <1>14 DEF TypeOK, RetryFails, LossyFault, Fault, Goto, PCs, outputVars, recoveryVars
<1>15. ASSUME NEW w \in Workers, MoveToDlq(w) PROVE TypeOK'
  BY <1>15 DEF TypeOK, MoveToDlq, Goto, PCs, outputVars, recoveryVars, faultVars
<1>16. ASSUME NEW w \in Workers, MoveToDlqFails(w) PROVE TypeOK'
  BY <1>16 DEF TypeOK, MoveToDlqFails, LossyFault, Fault, Goto, PCs, outputVars, recoveryVars
<1>17. ASSUME NEW w \in Workers, Settle(w) PROVE TypeOK'
  BY <1>17, ReleaseType DEF TypeOK, Settle, outputVars, recoveryVars, faultVars
<1>18. ASSUME NEW w \in Workers, WorkerCrash(w) PROVE TypeOK'
  <2>1. held[w] \in Notifs /\ tries[w] \in Retries BY <1>18 DEF TypeOK, WorkerCrash
  <2>2. main' \in [Notifs -> [Retries -> Nat]] BY <1>18, <2>1, PublishType DEF WorkerCrash
  <2>3. Release(w) BY <1>18 DEF WorkerCrash
  <2> QED BY <1>18, <2>2, <2>3, ReleaseType
          DEF TypeOK, WorkerCrash, HarmlessFault, Fault, outputVars, recoveryVars
<1>19. ASSUME NEW w \in Workers, ChildKilled(w) PROVE TypeOK'
  <2>1. Release(w) BY <1>19 DEF ChildKilled
  <2> QED BY <1>19, <2>1, ReleaseType
          DEF TypeOK, ChildKilled, LossyFault, Fault, outputVars, recoveryVars
<1>20. CASE RecoveryStart
  BY <1>20 DEF TypeOK, RecoveryStart, workerVars, outputVars, faultVars
<1>21. ASSUME NEW n \in Notifs, RecoveryGet(n) PROVE TypeOK'
  BY <1>21 DEF TypeOK, RecoveryGet, workerVars, outputVars, faultVars
<1>22. CASE RecoveryRepublish
  <2>1. 0 \in Retries BY DEF Retries
  <2>2. taken \in Notifs BY <1>22 DEF TypeOK, RecoveryRepublish
  <2>3. main' \in [Notifs -> [Retries -> Nat]]
    BY <1>22, <2>1, <2>2, PublishType DEF RecoveryRepublish
  <2> QED BY <1>22, <2>2, <2>3 DEF TypeOK, RecoveryRepublish, workerVars, outputVars, faultVars
<1>23. CASE RecoveryAck
  BY <1>23 DEF TypeOK, RecoveryAck, workerVars, outputVars, faultVars
<1>24. CASE RecoveryError
  BY <1>24 DEF TypeOK, RecoveryError, HarmlessFault, Fault, workerVars, outputVars
<1>25. CASE RecoveryExit
  BY <1>25 DEF TypeOK, RecoveryExit, RecoveryDisconnect, workerVars, outputVars, faultVars
<1>26. CASE RecoveryCrash
  BY <1>26 DEF TypeOK, RecoveryCrash, RecoveryDisconnect, HarmlessFault, Fault, workerVars, outputVars
<1> QED
  BY <1>1, <1>2, <1>3, <1>4, <1>5, <1>6, <1>7, <1>8, <1>9, <1>10, <1>11, <1>12, <1>13,
     <1>14, <1>15, <1>16, <1>17, <1>18, <1>19, <1>20, <1>21, <1>22, <1>23, <1>24, <1>25, <1>26
  DEF Next, WorkerStep, WorkerFault, RecoveryStep

-----------------------------------------------------------------------------

\* Rows are never removed and a notification is never cleared of blame.
Grows ==
  /\ \A d \in DBs : stored[d] \subseteq stored'[d]
  /\ \A n \in Notifs : blame[n] \subseteq blame'[n]

\* No step removes a row or forgets a lossy fault.
LEMMA NextGrows == TypeOK /\ [Next]_vars => Grows
<1> SUFFICES ASSUME TypeOK, [Next]_vars PROVE Grows OBVIOUS
<1>1. CASE stored' = stored /\ blame' = blame
  BY <1>1 DEF Grows
<1>2. ASSUME NEW n \in Notifs, NEW k, LossyFault(n, k), stored' = stored PROVE Grows
  BY <1>2 DEF Grows, LossyFault, TypeOK
<1>3. ASSUME NEW w \in Workers, SaveTimeseries(w) PROVE Grows
  BY <1>3 DEF Grows, SaveTimeseries, faultVars, TypeOK
<1>4. ASSUME NEW w \in Workers, WorkerFault(w) PROVE Grows
  <2>1. CASE TransformFails(w) \/ RetryFails(w) \/ MoveToDlqFails(w) \/ ChildKilled(w)
    <3>1. held[w] \in Notifs /\ stored' = stored
      BY <2>1 DEF TypeOK, TransformFails, RetryFails, MoveToDlqFails, ChildKilled, outputVars
    <3> QED BY <2>1, <3>1, <1>2 DEF TransformFails, RetryFails, MoveToDlqFails, ChildKilled
  <2>2. CASE RefreshFails(w) \/ SaveFails(w) \/ WorkerCrash(w)
    BY <2>2, <1>1 DEF RefreshFails, SaveFails, WorkerCrash, HarmlessFault, outputVars
  <2> QED BY <1>4, <2>1, <2>2 DEF WorkerFault
<1>5. ASSUME NEW w \in Workers, WorkerStep(w) PROVE Grows
  BY <1>5, <1>3, <1>1 DEF WorkerStep, Refresh, RefreshPoison, Transform, Observe, Retry,
     MoveToDlq, Settle, outputVars, faultVars
<1>6. CASE UNCHANGED vars
  BY <1>6, <1>1 DEF vars, outputVars, faultVars
<1>7. ASSUME NEW n \in Notifs, Notify(n) \/ NotifyFails(n) PROVE Grows
  BY <1>7, <1>1 DEF Notify, NotifyFails, HarmlessFault, outputVars, faultVars
<1>8. ASSUME NEW w \in Workers, NEW n \in Notifs, NEW r \in Retries, Receive(w, n, r) PROVE Grows
  BY <1>8, <1>1 DEF Receive, outputVars, faultVars
<1>9. CASE RecoveryStart \/ RecoveryStep \/ RecoveryError \/ RecoveryCrash
  BY <1>9, <1>1 DEF RecoveryStart, RecoveryStep, RecoveryGet, RecoveryRepublish, RecoveryAck,
     RecoveryExit, RecoveryError, RecoveryCrash, RecoveryDisconnect, HarmlessFault, outputVars, faultVars
<1> QED BY <1>4, <1>5, <1>6, <1>7, <1>8, <1>9 DEF Next

\* An item whose rows are stored, or that is skipped, stays so.
LEMMA DoneStable ==
  ASSUME Grows, NEW i, Done(i) PROVE Done(i)'
BY DEF Grows, Done

\* A worker that is not between Refresh and Observe has no progress to keep.
LEMMA ProgressIdle ==
  ASSUME NEW v, ~ Working(v)', pc'[v] = "idle" => ent'[v] = 1 /\ db'[v] = 1
  PROVE  ProgressOf(v)'
BY DEF ProgressOf, Working

\* A worker that moves on within one entity.
LEMMA ProgressMoves ==
  ASSUME TypeOK, Grows, NEW v \in Workers, ProgressOf(v), Working(v),
         held'[v] = held[v], ent'[v] = ent[v], db'[v] \in DBs,
         pc'[v] \in {"transform", "save", "observe", "failed"},
         pc'[v] = "transform" => db'[v] = 1,
         pc'[v] = "save" => \A d \in 1 .. (db'[v] - 1) : Item(v) \in stored'[d],
         pc'[v] = "observe" => \A d \in DBs : Item(v) \in stored'[d]
  PROVE  ProgressOf(v)'
<1>1. held[v] \in Notifs BY DEF Working, TypeOK
<1>2. ASSUME NEW e \in 1 .. (ent[v] - 1)
      PROVE  Done(<<held[v], e>>)' \/ blame'[held[v]] # {}
  <2>1. Done(<<held[v], e>>) \/ blame[held[v]] # {} BY DEF ProgressOf
  <2>2. CASE Done(<<held[v], e>>)
    <3> DEFINE i == <<held[v], e>>
    <3>1. Done(i)' BY <2>2, DoneStable
    <3> QED BY <3>1
  <2>3. CASE blame[held[v]] # {} BY <2>3, <1>1 DEF Grows
  <2> QED BY <2>1, <2>2, <2>3
<1>3. Item(v)' = Item(v) BY DEF Item
<1>4. held[v] \notin Deletions /\ ent[v] \in 1 .. Size[held[v]] BY DEF ProgressOf
<1> QED BY <1>2, <1>3, <1>4 DEF ProgressOf, DBs

\* A worker that does not move keeps its progress.
LEMMA ProgressStable ==
  ASSUME TypeOK, Grows, NEW v \in Workers, ProgressOf(v),
         pc'[v] = pc[v], held'[v] = held[v], ent'[v] = ent[v], db'[v] = db[v]
  PROVE  ProgressOf(v)'
<1>1. CASE ~ Working(v)
  BY <1>1, ProgressIdle DEF ProgressOf, Working
<1>2. CASE Working(v) /\ pc[v] # "refresh"
  <2>1. pc[v] \in {"transform", "save", "observe", "failed"}
    BY <1>2 DEF Working, TypeOK, PCs
  <2>2. db[v] \in DBs BY <1>2 DEF ProgressOf
  <2>3. \A d \in 1 .. (db[v] - 1) : d \in DBs BY <2>2, ConstantsAssumption DEF DBs
  <2>4. pc[v] = "save" => \A d \in 1 .. (db[v] - 1) : Item(v) \in stored'[d]
    BY <2>3 DEF ProgressOf, Grows
  <2>5. pc[v] = "observe" => \A d \in DBs : Item(v) \in stored'[d]
    BY DEF ProgressOf, Grows
  <2>6. pc[v] = "transform" => db[v] = 1 BY DEF ProgressOf
  <2> QED BY <1>2, <2>1, <2>2, <2>4, <2>5, <2>6, ProgressMoves
<1>3. CASE pc[v] = "refresh"
  <2>1. held[v] \in Notifs BY <1>3 DEF TypeOK
  <2>2. ASSUME NEW e \in 1 .. (ent[v] - 1)
        PROVE  Done(<<held[v], e>>)' \/ blame'[held[v]] # {}
    <3>1. Done(<<held[v], e>>) \/ blame[held[v]] # {} BY <1>3 DEF ProgressOf, Working
    <3>2. CASE Done(<<held[v], e>>)
      <4> DEFINE i == <<held[v], e>>
      <4>1. Done(i)' BY <3>2, DoneStable
      <4> QED BY <4>1
    <3>3. CASE blame[held[v]] # {} BY <3>3, <2>1 DEF Grows
    <3> QED BY <3>1, <3>2, <3>3
  <2>3. /\ held[v] \notin Deletions /\ ent[v] \in 1 .. Size[held[v]]
        /\ db[v] \in DBs /\ db[v] = 1
    BY <1>3 DEF ProgressOf, Working
  <2> QED BY <1>3, <2>2, <2>3 DEF ProgressOf, DBs
<1> QED BY <1>1, <1>2, <1>3 DEF Working

\* The loop over the entities goes on only past an entity that is done or
\* whose notification is blamed.
LEMMA ProgressNext ==
  ASSUME TypeOK, Grows, NEW w \in Workers, ProgressOf(w), Working(w), NextEntity(w),
         held' = held, NEW i, i = Item(w), Done(i)' \/ blame'[held[w]] # {}
  PROVE  ProgressOf(w)'
<1>1. CASE ent[w] < Size[held[w]]
  <2>1. /\ pc' = [pc EXCEPT ![w] = "refresh"]
        /\ ent' = [ent EXCEPT ![w] = @ + 1]
        /\ db' = [db EXCEPT ![w] = 1]
    BY <1>1 DEF NextEntity, Goto
  <2>2. held[w] \in Notifs /\ held'[w] = held[w] BY DEF TypeOK, Working
  <2>3. /\ held[w] \notin Deletions
        /\ ent[w] \in 1 .. Size[held[w]]
    BY DEF ProgressOf
  <2>4. ent'[w] = ent[w] + 1 /\ pc'[w] = "refresh" /\ db'[w] = 1
    BY <2>1 DEF TypeOK
  <2>5. ent'[w] \in 1 .. Size[held[w]] BY <2>2, <2>3, <2>4, <1>1, SizePositive
  <2>6. ASSUME NEW e \in 1 .. (ent'[w] - 1)
        PROVE  Done(<<held[w], e>>)' \/ blame'[held[w]] # {}
    <3>1. CASE e = ent[w]
      <4>1. i = <<held'[w], e>> BY <3>1, <2>2 DEF Item
      <4> QED BY <4>1
    <3>2. CASE e # ent[w]
      <4>1. e \in 1 .. (ent[w] - 1) BY <3>2, <2>4, <2>3, <2>6, <2>2, SizePositive
      <4>2. Done(<<held[w], e>>) \/ blame[held[w]] # {} BY <4>1 DEF ProgressOf
      <4>3. CASE Done(<<held[w], e>>)
        <5>1. Done(<<held[w], e>>)' BY <4>3, DoneStable
        <5> QED BY <5>1
      <4>4. CASE blame[held[w]] # {} BY <4>4, <2>2 DEF Grows
      <4> QED BY <4>2, <4>3, <4>4
    <3> QED BY <3>1, <3>2
  <2>7. 1 \in DBs BY ConstantsAssumption DEF DBs
  <2> QED BY <2>2, <2>3, <2>4, <2>5, <2>6, <2>7 DEF ProgressOf, DBs
<1>2. CASE ~(ent[w] < Size[held[w]])
  <2>1. pc'[w] = "settle" BY <1>2 DEF NextEntity, Goto, TypeOK
  <2> QED BY <2>1, ProgressIdle DEF Working
<1> QED BY <1>1, <1>2

\* What a worker has gone past stays stored or blamed, in every step.
LEMMA NextProgress == TypeOK /\ Progress /\ [Next]_vars => Progress'
<1> SUFFICES ASSUME TypeOK, Progress, [Next]_vars, NEW v \in Workers PROVE ProgressOf(v)'
  BY DEF Progress
<1>1. Grows BY NextGrows
<1>2. ProgressOf(v) BY DEF Progress
<1>3. CASE UNCHANGED workerVars
  BY <1>1, <1>2, <1>3, ProgressStable DEF workerVars
\* The other workers do not move.
<1>4. ASSUME NEW w \in Workers, w # v,
             \/ WorkerStep(w) \/ WorkerFault(w)
             \/ \E n \in Notifs, r \in Retries : Receive(w, n, r)
      PROVE  ProgressOf(v)'
  <2>1. pc'[v] = pc[v] /\ held'[v] = held[v] /\ ent'[v] = ent[v] /\ db'[v] = db[v]
    <3>1. CASE WorkerStep(w)
      BY <3>1, <1>4 DEF WorkerStep, Refresh, RefreshPoison, Transform, SaveTimeseries, Observe,
         Retry, MoveToDlq, Settle, NextEntity, Release, Goto, TypeOK
    <3>2. CASE WorkerFault(w)
      BY <3>2, <1>4 DEF WorkerFault, RefreshFails, TransformFails, SaveFails, RetryFails,
         MoveToDlqFails, WorkerCrash, ChildKilled, NextEntity, Release, Goto, TypeOK
    <3>3. CASE \E n \in Notifs, r \in Retries : Receive(w, n, r)
      BY <3>3, <1>4 DEF Receive, Goto, TypeOK
    <3> QED BY <1>4, <3>1, <3>2, <3>3
  <2> QED BY <2>1, <1>1, <1>2, ProgressStable
<1>5. ASSUME NEW n \in Notifs, NEW r \in Retries, Receive(v, n, r) PROVE ProgressOf(v)'
  <2>1. CASE n \in Deletions
    <3>1. pc'[v] = "settle" BY <1>5, <2>1 DEF Receive, Goto, TypeOK
    <3> QED BY <3>1, ProgressIdle DEF Working
  <2>2. CASE n \notin Deletions
    <3>1. pc'[v] = "refresh" /\ held'[v] = n /\ ent'[v] = ent[v] /\ db'[v] = db[v]
      BY <1>5, <2>2 DEF Receive, Goto, TypeOK
    <3>2. ent[v] = 1 /\ db[v] = 1 BY <1>5, <1>2 DEF Receive, ProgressOf
    <3> QED BY <3>1, <3>2, <2>2, SizePositive, ConstantsAssumption DEF ProgressOf, DBs
  <2> QED BY <2>1, <2>2
<1>6. CASE Refresh(v)
  <2>1. Working(v) /\ held' = held BY <1>6 DEF Refresh, Working
  <2>2. CASE Item(v) \in Expired
    <3>1. NextEntity(v) /\ Done(Item(v)) BY <1>6, <2>2 DEF Refresh, Done
    <3>2. ASSUME NEW i, i = Item(v) PROVE Done(i)' BY <3>1, <3>2, <1>1, DoneStable
    <3> QED BY <1>1, <1>2, <2>1, <3>1, <3>2, ProgressNext
  <2>3. CASE Item(v) \notin Expired
    <3>1. /\ pc'[v] = "transform" /\ ent'[v] = ent[v] /\ db'[v] = db[v]
          /\ db[v] = 1 /\ db[v] \in DBs
      BY <1>6, <1>2, <2>3 DEF Refresh, Goto, TypeOK, Working, ProgressOf
    <3> QED BY <1>1, <1>2, <2>1, <3>1, ProgressMoves
  <2> QED BY <2>2, <2>3
<1>7. CASE RefreshPoison(v) \/ RefreshFails(v) \/ Transform(v) \/ SaveFails(v)
  <2>1. /\ Working(v) /\ held'[v] = held[v] /\ ent'[v] = ent[v] /\ db'[v] = db[v]
        /\ pc'[v] = "failed" \/ (pc'[v] = "save" /\ pc[v] = "transform")
    BY <1>7 DEF RefreshPoison, RefreshFails, Transform, SaveFails, Goto, TypeOK, Working
  <2>2. db[v] \in DBs /\ (pc[v] = "transform" => db[v] = 1) BY <2>1, <1>2 DEF ProgressOf
  <2> QED BY <2>1, <2>2, <1>1, <1>2, ProgressMoves
<1>8. CASE TransformFails(v)
  <2>1. Working(v) /\ held' = held /\ NextEntity(v) /\ held[v] \in Notifs
    BY <1>8 DEF TransformFails, Working, TypeOK
  <2>2. blame'[held[v]] # {} BY <1>8, <2>1 DEF TransformFails, LossyFault, TypeOK
  <2> QED BY <1>1, <1>2, <2>1, <2>2, ProgressNext
<1>9. CASE SaveTimeseries(v)
  <2>1. Working(v) /\ held'[v] = held[v] /\ ent'[v] = ent[v]
    BY <1>9 DEF SaveTimeseries, Working
  <2>2. /\ db[v] \in DBs
        /\ \A d \in 1 .. (db[v] - 1) : Item(v) \in stored[d]
    BY <1>9, <1>2, <2>1 DEF SaveTimeseries, ProgressOf
  <2>3. Item(v) \in stored'[db[v]] BY <1>9, <2>2 DEF SaveTimeseries, TypeOK
  <2>4. \A d \in 1 .. db[v] : d \in DBs /\ Item(v) \in stored'[d]
    BY <2>2, <2>3, <1>1, ConstantsAssumption DEF DBs, Grows
  <2>5. CASE db[v] < NumDBs
    <3>1. pc'[v] = "save" /\ db'[v] = db[v] + 1 BY <1>9, <2>5 DEF SaveTimeseries, TypeOK
    <3>2. db'[v] \in DBs /\ \A d \in 1 .. (db'[v] - 1) : Item(v) \in stored'[d]
      BY <3>1, <2>2, <2>4, <2>5, ConstantsAssumption DEF DBs
    <3> QED BY <1>1, <1>2, <2>1, <3>1, <3>2, ProgressMoves
  <2>6. CASE ~(db[v] < NumDBs)
    <3>1. pc'[v] = "observe" /\ db'[v] = db[v]
      BY <1>9, <2>6 DEF SaveTimeseries, Goto, TypeOK
    <3>2. \A d \in DBs : Item(v) \in stored'[d]
      BY <2>2, <2>4, <2>6, ConstantsAssumption DEF DBs
    <3> QED BY <1>1, <1>2, <2>1, <2>2, <3>1, <3>2, ProgressMoves
  <2> QED BY <2>5, <2>6
<1>10. CASE Observe(v)
  <2>1. Working(v) /\ held' = held /\ NextEntity(v) /\ stored' = stored
    BY <1>10 DEF Observe, Working
  <2>2. ASSUME NEW i, i = Item(v) PROVE Done(i)'
    BY <1>10, <1>2, <2>1, <2>2 DEF Observe, ProgressOf, Done
  <2> QED BY <1>1, <1>2, <2>1, <2>2, ProgressNext
<1>11. CASE Retry(v) \/ RetryFails(v) \/ MoveToDlq(v) \/ MoveToDlqFails(v)
  <2>1. pc'[v] = "settle"
    BY <1>11 DEF Retry, RetryFails, MoveToDlq, MoveToDlqFails, Goto, TypeOK
  <2> QED BY <2>1, ProgressIdle DEF Working
<1>12. CASE Settle(v) \/ WorkerCrash(v) \/ ChildKilled(v)
  <2>1. pc'[v] = "idle" /\ ent'[v] = 1 /\ db'[v] = 1
    BY <1>12 DEF Settle, WorkerCrash, ChildKilled, Release, TypeOK
  <2> QED BY <2>1, ProgressIdle DEF Working
<1>13. CASE \E n \in Notifs : Notify(n) \/ NotifyFails(n)
  BY <1>13, <1>3 DEF Notify, NotifyFails
<1>14. CASE RecoveryStart \/ RecoveryStep \/ RecoveryError \/ RecoveryCrash
  BY <1>14, <1>3 DEF RecoveryStart, RecoveryStep, RecoveryGet, RecoveryRepublish, RecoveryAck,
     RecoveryExit, RecoveryError, RecoveryCrash, RecoveryDisconnect
<1>15. CASE UNCHANGED vars
  BY <1>15, <1>3 DEF vars
<1> QED
  BY <1>4, <1>5, <1>6, <1>7, <1>8, <1>9, <1>10, <1>11, <1>12, <1>13, <1>14, <1>15
  DEF Next, WorkerStep, WorkerFault

-----------------------------------------------------------------------------

\* Publishing never takes a message out of the main queue.
LEMMA PublishQueues ==
  ASSUME TypeOK, NEW m \in Notifs, NEW r \in Retries, main' = [main EXCEPT ![m][r] = @ + 1],
         NEW n \in Notifs, Queued(n) \/ n = m
  PROVE  Queued(n)'
<1>1. \A k \in Notifs : main[k] \in [Retries -> Nat] BY DEF TypeOK
<1>2. CASE n = m
  <2>1. main'[n][r] = main[n][r] + 1 BY <1>1, <1>2 DEF TypeOK
  <2>2. main'[n][r] > 0 BY <1>1, <2>1
  <2> QED BY <2>2 DEF Queued
<1>3. CASE n # m
  <2>1. main'[n] = main[n] BY <1>3 DEF TypeOK
  <2> QED BY <1>3, <2>1 DEF Queued
<1> QED BY <1>2, <1>3

\* A notification that is completely stored stays so.
LEMMA CompleteStable ==
  ASSUME Grows, NEW n \in Notifs, Complete(n) PROVE Complete(n)'
<1>1. ASSUME NEW e \in 1 .. Size[n] PROVE Done(<<n, e>>)'
  <2> DEFINE i == <<n, e>>
  <2>1. Done(i) BY <1>1 DEF Complete
  <2>2. Done(i)' BY <2>1, DoneStable
  <2> QED BY <2>2
<1> QED BY <1>1 DEF Complete

\* When the loop over the entities ends, the notification is complete or
\* blamed.
LEMMA EndOfLoop ==
  ASSUME TypeOK, Grows, NEW w \in Workers, ProgressOf(w), Working(w), NextEntity(w),
         held' = held, NEW i, i = Item(w), Done(i)' \/ blame'[held[w]] # {}
  PROVE  pc'[w] = "refresh" \/ Complete(held[w])' \/ blame'[held[w]] # {}
<1> DEFINE n == held[w]
<1>1. n \in Notifs /\ ent[w] \in 1 .. Size[n] BY DEF Working, TypeOK, ProgressOf
<1>2. CASE ent[w] < Size[n] BY <1>2 DEF NextEntity, Goto, TypeOK
<1>3. CASE ~(ent[w] < Size[n]) /\ blame'[n] = {}
  <2>1. ent[w] = Size[n] BY <1>1, <1>3, SizePositive
  <2>2. blame[n] = {} BY <1>1, <1>3 DEF Grows
  <2>3. ASSUME NEW e \in 1 .. Size[n] PROVE Done(<<n, e>>)'
    <3>1. CASE e = ent[w] BY <3>1, <1>3 DEF Item
    <3>2. CASE e # ent[w]
      <4>1. e \in 1 .. (ent[w] - 1) BY <3>2, <2>1, <2>3, <1>1, SizePositive
      <4>2. Done(<<n, e>>) BY <4>1, <2>2 DEF ProgressOf
      <4> QED BY <4>2 DEF Done, Grows
    <3> QED BY <3>1, <3>2
  <2> QED BY <2>3 DEF Complete
<1> QED BY <1>2, <1>3

Live(n) == Queued(n) \/ InProgress(n) \/ Parked(n)

\* A step of worker w that touches no queue, and does not end its work on n.
LEMMA StillLive ==
  ASSUME NEW w \in Workers, NEW n, Live(n), main' = main, dlq' = dlq, UNCHANGED recoveryVars,
         \A v \in Workers \ {w} : pc'[v] = pc[v] /\ held'[v] = held[v],
         Working(w) /\ held[w] = n => Working(w)' /\ held'[w] = n
  PROVE  Live(n)'
<1>1. Queued(n) => Queued(n)' BY DEF Queued
<1>2. Parked(n) => Parked(n)' BY DEF Parked, recoveryVars
<1>3. InProgress(n) => InProgress(n)' BY DEF InProgress, Working
<1> QED BY <1>1, <1>2, <1>3 DEF Live

\* The same for a step that publishes a message in the main queue, of n if the
\* work on n ends.
LEMMA StillLivePublish ==
  ASSUME TypeOK, NEW w \in Workers, NEW n \in Notifs, NEW m \in Notifs, NEW r \in Retries,
         main' = [main EXCEPT ![m][r] = @ + 1], dlq' = dlq, UNCHANGED recoveryVars,
         \A v \in Workers \ {w} : pc'[v] = pc[v] /\ held'[v] = held[v],
         Working(w) /\ held[w] = n => m = n,
         Live(n)
  PROVE  Live(n)'
<1>1. Queued(n) \/ n = m => Queued(n)' BY PublishQueues
<1>2. Parked(n) => Parked(n)' BY DEF Parked, recoveryVars
<1>3. InProgress(n) => n = m \/ InProgress(n)' BY DEF InProgress, Working
<1> QED BY <1>1, <1>2, <1>3 DEF Live

\* Every step keeps a notification stored, or in a queue or in work, or blames a
\* fault of its own.
LEMMA NextNoLoss == TypeOK /\ Progress /\ NoLoss /\ [Next]_vars => NoLoss'
<1> SUFFICES ASSUME TypeOK, Progress, NoLoss, [Next]_vars, NEW n \in Notifs, Accepted(n)',
                    ~ Complete(n)', n \notin Deletions, blame'[n] = {}
             PROVE  Live(n)'
  BY DEF NoLoss, Kept, Live
<1>1. Grows BY NextGrows
<1>2. ASSUME NEW w \in Workers PROVE ProgressOf(w) BY DEF Progress
<1>3. ~ Complete(n) /\ blame[n] = {} BY <1>1, CompleteStable DEF Grows
<1>4. Accepted(n) => Live(n) BY <1>3 DEF NoLoss, Kept, Live
<1>5. ASSUME NEW m \in Notifs, Notify(m) PROVE Live(n)'
  <2>1. 0 \in Retries BY ConstantsAssumption DEF Retries
  <2>2. n = m \/ Live(n) BY <1>4, <1>5 DEF Accepted, Notify
  <2>3. Queued(n) \/ n = m => Queued(n)' BY <1>5, <2>1, PublishQueues DEF Notify
  <2>4. (InProgress(n) => InProgress(n)') /\ (Parked(n) => Parked(n)')
    BY <1>5 DEF Notify, workerVars, recoveryVars, InProgress, Working, Parked
  <2> QED BY <2>2, <2>3, <2>4 DEF Live
<1>6. ASSUME NEW m \in Notifs, NotifyFails(m) PROVE Live(n)'
  <2>1. Live(n) BY <1>4, <1>6 DEF Accepted, NotifyFails
  <2> QED BY <2>1, <1>6
          DEF NotifyFails, workerVars, recoveryVars, Live, Queued, InProgress, Working, Parked
<1>7. ASSUME NEW w \in Workers, NEW m \in Notifs, NEW r \in Retries, Receive(w, m, r)
      PROVE  Live(n)'
  <2>1. Live(n) BY <1>4, <1>7 DEF Accepted, Receive
  <2>2. CASE n = m
    <3>1. pc'[w] = "refresh" /\ held'[w] = n BY <1>7, <2>2 DEF Receive, Goto, TypeOK
    <3> QED BY <3>1 DEF Live, InProgress, Working
  <2>3. CASE n # m
    <3>1. main'[n] = main[n] BY <1>7, <2>3 DEF Receive, TypeOK
    <3>2. Queued(n) => Queued(n)' BY <3>1 DEF Queued
    <3>3. Parked(n) => Parked(n)' BY <1>7 DEF Receive, recoveryVars, Parked
    <3>4. InProgress(n) => InProgress(n)'
      BY <1>7 DEF Receive, Goto, TypeOK, InProgress, Working
    <3> QED BY <2>1, <3>2, <3>3, <3>4 DEF Live
  <2> QED BY <2>2, <2>3
<1>8. ASSUME NEW w \in Workers, WorkerStep(w) \/ WorkerFault(w) PROVE Live(n)'
  <2>1. Live(n)
    BY <1>4, <1>8 DEF Accepted, WorkerStep, WorkerFault, Refresh, RefreshPoison, Transform,
       SaveTimeseries, Observe, Retry, MoveToDlq, Settle, RefreshFails, TransformFails, SaveFails,
       RetryFails, MoveToDlqFails, WorkerCrash, ChildKilled
  <2>2. \A v \in Workers \ {w} : pc'[v] = pc[v] /\ held'[v] = held[v]
    <3>1. CASE WorkerStep(w)
      BY <3>1 DEF WorkerStep, Refresh, RefreshPoison, Transform, SaveTimeseries, Observe,
         Retry, MoveToDlq, Settle, NextEntity, Release, Goto, TypeOK
    <3>2. CASE WorkerFault(w)
      BY <3>2 DEF WorkerFault, RefreshFails, TransformFails, SaveFails, RetryFails,
         MoveToDlqFails, WorkerCrash, ChildKilled, NextEntity, Release, Goto, TypeOK
    <3> QED BY <1>8, <3>1, <3>2
  <2>3. CASE RefreshPoison(w) \/ Transform(w) \/ SaveTimeseries(w) \/ RefreshFails(w) \/ SaveFails(w)
    <3>1. Working(w)' /\ held' = held
      BY <2>3 DEF RefreshPoison, Transform, SaveTimeseries, RefreshFails, SaveFails, Goto,
         TypeOK, Working
    <3>2. main' = main /\ dlq' = dlq /\ UNCHANGED recoveryVars
      BY <2>3 DEF RefreshPoison, Transform, SaveTimeseries, RefreshFails, SaveFails
    <3> QED BY <2>1, <2>2, <3>1, <3>2, StillLive
  \* The loop over the entities: while the notification is not complete the
  \* worker stays in it.
  <2>4. ASSUME NextEntity(w), Working(w), held' = held, main' = main, dlq' = dlq,
               UNCHANGED recoveryVars,
               \A i : i = Item(w) => Done(i)' \/ blame'[held[w]] # {}
        PROVE  Live(n)'
    <3>1. held[w] = n => pc'[w] = "refresh"
      BY <2>4, <1>1, <1>2, EndOfLoop
    <3>2. Working(w) /\ held[w] = n => Working(w)' /\ held'[w] = n
      BY <2>4, <3>1 DEF Working
    <3> QED BY <2>1, <2>2, <2>4, <3>2, StillLive
  <2>5. CASE Refresh(w)
    <3>1. Working(w) /\ held' = held /\ main' = main /\ dlq' = dlq /\ UNCHANGED recoveryVars
      BY <2>5 DEF Refresh, Working
    <3>2. CASE Item(w) \in Expired
      <4>1. NextEntity(w) BY <2>5, <3>2 DEF Refresh
      <4>2. \A i : i = Item(w) => Done(i)' BY <3>2 DEF Done
      <4> QED BY <2>4, <3>1, <4>1, <4>2
    <3>3. CASE Item(w) \notin Expired
      <4>1. Working(w)' BY <2>5, <3>3 DEF Refresh, Goto, TypeOK, Working
      <4> QED BY <2>1, <2>2, <3>1, <4>1, StillLive
    <3> QED BY <3>2, <3>3
  <2>6. CASE TransformFails(w)
    <3>1. /\ Working(w) /\ held' = held /\ main' = main /\ dlq' = dlq
          /\ UNCHANGED recoveryVars /\ NextEntity(w) /\ held[w] \in Notifs
      BY <2>6 DEF TransformFails, Working, TypeOK
    <3>2. blame'[held[w]] # {} BY <2>6, <3>1 DEF TransformFails, LossyFault, TypeOK
    <3> QED BY <2>4, <3>1, <3>2
  <2>7. CASE Observe(w)
    <3>1. /\ Working(w) /\ held' = held /\ main' = main /\ dlq' = dlq
          /\ UNCHANGED recoveryVars /\ NextEntity(w) /\ stored' = stored
      BY <2>7 DEF Observe, Working
    <3>2. \A i : i = Item(w) => Done(i)'
      BY <2>7, <3>1, <1>2 DEF Observe, ProgressOf, Done
    <3> QED BY <2>4, <3>1, <3>2
  <2>8. CASE RetryFails(w) \/ MoveToDlqFails(w) \/ ChildKilled(w)
    <3>1. main' = main /\ dlq' = dlq /\ UNCHANGED recoveryVars
      BY <2>8 DEF RetryFails, MoveToDlqFails, ChildKilled
    <3>2. held[w] \in Notifs
      BY <2>8 DEF RetryFails, MoveToDlqFails, ChildKilled, TypeOK
    <3>3. \E kind \in LossyFaults : LossyFault(held[w], kind)
      BY <2>8 DEF RetryFails, MoveToDlqFails, ChildKilled, LossyFault
    <3>4. blame'[held[w]] # {} BY <3>2, <3>3 DEF LossyFault, TypeOK
    <3>5. held[w] # n BY <3>4
    <3> QED BY <2>1, <2>2, <3>1, <3>5, StillLive
  <2>9. CASE Settle(w)
    BY <2>9, <2>1, <2>2, StillLive DEF Settle, Working
  <2>10. CASE Retry(w)
    <3>1. held[w] \in Notifs BY <2>10 DEF Retry, TypeOK
    <3>2. tries[w] \in Retries BY DEF TypeOK
    <3>3. tries[w] + 1 \in Retries
      BY <2>10, <3>2, ConstantsAssumption DEF Retry, Retries
    <3>4. /\ main' = [main EXCEPT ![held[w]][tries[w] + 1] = @ + 1]
          /\ dlq' = dlq /\ UNCHANGED recoveryVars
      BY <2>10 DEF Retry
    <3> QED BY <2>1, <2>2, <3>1, <3>3, <3>4, StillLivePublish
  <2>11. CASE WorkerCrash(w)
    <3>1. /\ held[w] \in Notifs /\ tries[w] \in Retries
          /\ main' = [main EXCEPT ![held[w]][tries[w]] = @ + 1]
          /\ dlq' = dlq /\ UNCHANGED recoveryVars
      BY <2>11 DEF WorkerCrash, TypeOK
    <3> QED BY <2>1, <2>2, <3>1, StillLivePublish
  <2>12. CASE MoveToDlq(w)
    <3>1. /\ main' = main /\ UNCHANGED recoveryVars /\ held[w] \in Notifs
          /\ dlq' = [dlq EXCEPT ![held[w]] = @ + 1]
      BY <2>12 DEF MoveToDlq, TypeOK
    <3>2. dlq'[n] >= dlq[n] /\ (held[w] = n => dlq'[n] > 0) /\ dlq[n] \in Nat /\ dlq'[n] \in Nat
      BY <3>1 DEF TypeOK
    <3>3. Queued(n) => Queued(n)' BY <3>1 DEF Queued
    <3>4. Parked(n) \/ held[w] = n => Parked(n)' BY <3>1, <3>2 DEF Parked, recoveryVars
    <3>5. InProgress(n) => held[w] = n \/ InProgress(n)' BY <2>2 DEF InProgress, Working
    <3> QED BY <2>1, <3>3, <3>4, <3>5 DEF Live
  <2> QED
    BY <1>8, <2>3, <2>5, <2>6, <2>7, <2>8, <2>9, <2>10, <2>11, <2>12 DEF WorkerStep, WorkerFault
\* The recovery job: the message it takes is held, then back in the main
\* queue or in the DLQ.
<1>9. ASSUME main' = main, UNCHANGED workerVars, Live(n), Parked(n) => Parked(n)' PROVE Live(n)'
  BY <1>9 DEF Live, Queued, InProgress, Working, workerVars
<1>10. CASE RecoveryStart \/ RecoveryAck
  BY <1>10, <1>9, <1>4 DEF RecoveryStart, RecoveryAck, Accepted, Parked
<1>11. ASSUME NEW m \in Notifs, RecoveryGet(m) PROVE Live(n)'
  BY <1>11, <1>9, <1>4 DEF RecoveryGet, Accepted, Parked, TypeOK
<1>12. CASE RecoveryRepublish
  <2>1. taken \in Notifs /\ 0 \in Retries
    BY <1>12, ConstantsAssumption DEF RecoveryRepublish, TypeOK, Retries
  <2>2. Queued(n) \/ taken = n => Queued(n)'
    BY <1>12, <2>1, PublishQueues DEF RecoveryRepublish
  <2>3. (InProgress(n) => InProgress(n)') /\ (Parked(n) => taken = n \/ Parked(n)')
    BY <1>12 DEF RecoveryRepublish, workerVars, InProgress, Working, Parked
  <2> QED BY <1>4, <1>12, <2>2, <2>3 DEF Live, Accepted, RecoveryRepublish
<1>13. CASE RecoveryError
  <2>1. taken \in Notifs /\ stuck' = [stuck EXCEPT ![taken] = @ + 1]
    BY <1>13 DEF RecoveryError, TypeOK
  <2>2. stuck[n] \in Nat /\ (n = taken => stuck'[n] = stuck[n] + 1) /\ (n # taken => stuck'[n] = stuck[n])
    BY <2>1 DEF TypeOK
  <2>3. Parked(n) => Parked(n)' BY <1>13, <2>2 DEF Parked, RecoveryError
  <2> QED BY <1>4, <1>9, <1>13, <2>3 DEF RecoveryError, Accepted
<1>14. CASE RecoveryExit \/ RecoveryCrash
  <2>1. dlq'[n] = dlq[n] + stuck[n] + (IF n = taken THEN 1 ELSE 0)
    BY <1>14 DEF RecoveryExit, RecoveryCrash, RecoveryDisconnect
  <2>2. dlq[n] \in Nat /\ stuck[n] \in Nat BY DEF TypeOK
  <2>3. Parked(n) => dlq'[n] > 0 BY <2>1, <2>2 DEF Parked
  <2>4. Parked(n) => Parked(n)' BY <2>3 DEF Parked
  <2> QED BY <1>4, <1>9, <1>14, <2>4 DEF RecoveryExit, RecoveryCrash, RecoveryDisconnect, Accepted
<1>15. CASE UNCHANGED vars
  BY <1>15, <1>9, <1>4 DEF vars, recoveryVars, Accepted, Parked
<1> QED
  BY <1>5, <1>6, <1>7, <1>8, <1>10, <1>11, <1>12, <1>13, <1>14, <1>15
  DEF Next, RecoveryStep

\* The jobs of an entity are enqueued after its last commit, and rows are
\* never deleted.
LEMMA NextJobsAfterRows ==
  TypeOK /\ Progress /\ JobsAfterRows /\ [Next]_vars => JobsAfterRows'
<1> SUFFICES ASSUME TypeOK, Progress, JobsAfterRows, [Next]_vars PROVE JobsAfterRows' OBVIOUS
<1>1. Grows BY NextGrows
<1>2. CASE enqueued' = enqueued
  BY <1>1, <1>2 DEF Grows, JobsAfterRows
<1>3. ASSUME NEW w \in Workers, Observe(w) PROVE JobsAfterRows'
  <2>1. \A d \in DBs : Item(w) \in stored[d]
    BY <1>3 DEF Progress, ProgressOf, Observe
  <2>2. stored' = stored BY <1>3 DEF Observe
  <2>3. ASSUME NEW p \in enqueued' PROVE p \in enqueued \/ p[1] = Item(w)
    BY <1>3, <2>3 DEF Observe
  <2> QED BY <2>1, <2>2, <2>3 DEF JobsAfterRows
<1>4. ASSUME NEW w \in Workers, WorkerStep(w) \/ WorkerFault(w), ~ Observe(w)
      PROVE  enqueued' = enqueued
  BY <1>4 DEF WorkerStep, WorkerFault, Refresh, RefreshPoison, Transform, SaveTimeseries, Retry,
     MoveToDlq, Settle, RefreshFails, TransformFails, SaveFails, RetryFails, MoveToDlqFails,
     WorkerCrash, ChildKilled, outputVars
<1>5. CASE \/ \E n \in Notifs : Notify(n) \/ NotifyFails(n)
           \/ \E w \in Workers, n \in Notifs, r \in Retries : Receive(w, n, r)
           \/ RecoveryStart \/ RecoveryStep \/ RecoveryError \/ RecoveryCrash
           \/ UNCHANGED vars
  <2>1. enqueued' = enqueued
    BY <1>5 DEF Notify, NotifyFails, Receive, RecoveryStart, RecoveryStep, RecoveryGet,
       RecoveryRepublish, RecoveryAck, RecoveryExit, RecoveryError, RecoveryCrash,
       RecoveryDisconnect, outputVars, vars
  <2> QED BY <1>2, <2>1
<1> QED BY <1>2, <1>3, <1>4, <1>5 DEF Next

\* A worker writes database d + 1 only for an entity it has written in d.
LEMMA NextDatabasesInOrder ==
  TypeOK /\ Progress /\ DatabasesInOrder /\ [Next]_vars => DatabasesInOrder'
<1> SUFFICES ASSUME TypeOK, Progress, DatabasesInOrder, [Next]_vars PROVE DatabasesInOrder'
  OBVIOUS
<1>1. CASE stored' = stored
  BY <1>1 DEF DatabasesInOrder
<1>2. ASSUME NEW w \in Workers, SaveTimeseries(w) PROVE DatabasesInOrder'
  <2> SUFFICES ASSUME NEW d \in DBs, d + 1 \in DBs PROVE stored'[d + 1] \subseteq stored'[d]
    BY DEF DatabasesInOrder
  <2>1. stored[d + 1] \subseteq stored[d] BY DEF DatabasesInOrder
  <2>2. stored' = [stored EXCEPT ![db[w]] = @ \cup {Item(w)}] BY <1>2 DEF SaveTimeseries
  <2>3. \A c \in 1 .. (db[w] - 1) : Item(w) \in stored[c]
    BY <1>2 DEF Progress, ProgressOf, SaveTimeseries
  <2>4. d \in Nat /\ d >= 1 BY ConstantsAssumption DEF DBs
  <2>5. CASE db[w] = d + 1
    <3>1. d \in 1 .. (db[w] - 1) BY <2>4, <2>5
    <3>2. Item(w) \in stored[d] BY <2>3, <3>1
    <3> QED BY <2>1, <2>2, <2>4, <2>5, <3>2 DEF TypeOK
  <2>6. CASE db[w] # d + 1
    BY <2>1, <2>2, <2>6 DEF TypeOK
  <2> QED BY <2>5, <2>6
<1>3. ASSUME NEW w \in Workers, WorkerStep(w) \/ WorkerFault(w), ~ SaveTimeseries(w)
      PROVE  stored' = stored
  BY <1>3 DEF WorkerStep, WorkerFault, Refresh, RefreshPoison, Transform, Observe, Retry,
     MoveToDlq, Settle, RefreshFails, TransformFails, SaveFails, RetryFails, MoveToDlqFails,
     WorkerCrash, ChildKilled, outputVars
<1>4. CASE \/ \E n \in Notifs : Notify(n) \/ NotifyFails(n)
           \/ \E w \in Workers, n \in Notifs, r \in Retries : Receive(w, n, r)
           \/ RecoveryStart \/ RecoveryStep \/ RecoveryError \/ RecoveryCrash
           \/ UNCHANGED vars
  <2>1. stored' = stored
    BY <1>4 DEF Notify, NotifyFails, Receive, RecoveryStart, RecoveryStep, RecoveryGet,
       RecoveryRepublish, RecoveryAck, RecoveryExit, RecoveryError, RecoveryCrash,
       RecoveryDisconnect, outputVars, vars
  <2> QED BY <1>1, <2>1
<1> QED BY <1>1, <1>2, <1>3, <1>4 DEF Next

-----------------------------------------------------------------------------
(***************************************************************************)
(* The theorems.  TypeOK and Progress are only inductive together: the     *)
(* type of ent and of stored needs the position of a worker to be inside   *)
(* its notification, which Progress says.                                  *)
(***************************************************************************)
IInv == TypeOK /\ Progress /\ NoLoss /\ JobsAfterRows /\ DatabasesInOrder

\* Nothing has been sent, no worker has started, nothing is stored.
LEMMA InitIInv == Init => IInv
<1> SUFFICES ASSUME Init PROVE IInv OBVIOUS
<1>1. TypeOK BY InitType
<1>2. Progress
  BY ConstantsAssumption DEF Init, Progress, ProgressOf, Working
<1>3. NoLoss BY DEF Init, NoLoss, Accepted
<1>4. JobsAfterRows BY DEF Init, JobsAfterRows
<1>5. DatabasesInOrder BY DEF Init, DatabasesInOrder
<1> QED BY <1>1, <1>2, <1>3, <1>4, <1>5 DEF IInv

\* The conjunction of the invariants holds at every moment.
THEOREM Invariance == Spec => []IInv
<1>1. IInv /\ [Next]_vars => IInv'
  BY NextType, NextProgress, NextNoLoss, NextJobsAfterRows, NextDatabasesInOrder DEF IInv
<1> QED BY <1>1, InitIInv, PTL DEF Spec

\* Type correctness, for any number of workers, notifications and faults.
THEOREM TypeCorrect == Spec => []TypeOK
<1>1. IInv => TypeOK BY DEF IInv
<1> QED BY <1>1, Invariance, PTL

\* No crash of a worker, no failure of a database, no restart of the recovery
\* job loses a notification: only the faults that blame records do.
THEOREM NothingLost == Spec => []NoLoss
<1>1. IInv => NoLoss BY DEF IInv
<1> QED BY <1>1, Invariance, PTL

\* What a worker has gone past is stored or blamed.
THEOREM WorkIsKept == Spec => []Progress
<1>1. IInv => Progress BY DEF IInv
<1> QED BY <1>1, Invariance, PTL

\* Realtime, alarm and connector jobs find their rows in every database.
THEOREM JobsFollowRows == Spec => []JobsAfterRows
<1>1. IInv => JobsAfterRows BY DEF IInv
<1> QED BY <1>1, Invariance, PTL

\* A timescale database is never ahead of one before it.
THEOREM DatabasesOrdered == Spec => []DatabasesInOrder
<1>1. IInv => DatabasesInOrder BY DEF IInv
<1> QED BY <1>1, Invariance, PTL

\* With no lossy fault, the policy of the documentation holds: the violations
\* TLC finds need one of them.
THEOREM ZeroLossWithoutLossyFaults ==
  ASSUME LossyFaults = {} PROVE Spec => []ZeroDataLoss
<1>1. IInv => ZeroDataLoss
  <2> SUFFICES ASSUME IInv, NEW n \in Notifs, Accepted(n) PROVE Kept(n)
    BY DEF ZeroDataLoss
  <2>1. blame[n] = {} BY DEF IInv, TypeOK
  <2> QED BY <2>1 DEF IInv, NoLoss
<1> QED BY <1>1, Invariance, PTL

-----------------------------------------------------------------------------
(***************************************************************************)
(* The refinement of NotificationDelivery.  A step of the pipeline touches *)
(* the copies and the rows of one notification at most, and only of one    *)
(* that has a copy in play or on a shelf, or that is being sent; so the    *)
(* status of the others stays, and that one's leaves "pending" or "parked" *)
(* only, or is final.  That notifications which were never queued have no  *)
(* copy and no row, that an idle worker holds nothing and that an idle     *)
(* recovery job has taken nothing is what has to be added to IInv.         *)
(***************************************************************************)
InPlay(n)  == Queued(n) \/ \E w \in Workers : held[w] = n
Shelved(n) == Parked(n) \/ taken = n
HasRow(n, e, d) == <<n, e>> \in stored[d]

Untouched(n) ==
  /\ ~ InPlay(n) /\ ~ Shelved(n)
  /\ \A e \in 1 .. Size[n], d \in DBs : ~ HasRow(n, e, d)

Provenance ==
  /\ \A n \in unsent : n \notin missed
  /\ \A w \in Workers : pc[w] = "idle" => held[w] = None
  /\ recovery \in {"off", "poll"} => taken = None
  /\ \A n \in Notifs : n \in unsent \/ n \in missed => Untouched(n)

\* The step leaves notification n alone.
SameAccess(n) == (n \in unsent' <=> n \in unsent) /\ (n \in missed' <=> n \in missed)
SameCopies(n) == (InPlay(n)' <=> InPlay(n)) /\ (Shelved(n)' <=> Shelved(n))
SameRows(n)   == \A e \in 1 .. Size[n], d \in DBs : HasRow(n, e, d)' <=> HasRow(n, e, d)
Spared(n)     == SameAccess(n) /\ SameCopies(n) /\ SameRows(n)

\* The step works on the accepted notification m.
WorksOn(m) ==
  /\ \A n \in Notifs \ {m} : Spared(n)
  /\ SameAccess(m)
  /\ InPlay(m) \/ Shelved(m)

\* The step takes notification m from the context broker.
Takes(m) ==
  /\ \A n \in Notifs \ {m} : Spared(n)
  /\ m \in unsent /\ m \notin unsent'
  /\ SameRows(m)
  /\ \/ m \notin missed' /\ InPlay(m)'
     \/ m \in missed' /\ SameCopies(m)

Effect ==
  \/ \A n \in Notifs : Spared(n)
  \/ \E m \in Notifs : WorksOn(m) \/ Takes(m)

\* A step of worker w on the message it holds spares every other notification.
LEMMA WorkerSpares ==
  ASSUME TypeOK, NEW w \in Workers, NEW n \in Notifs, held[w] # n, held'[w] # n,
         unsent' = unsent, missed' = missed, main'[n] = main[n], dlq'[n] = dlq[n],
         UNCHANGED recoveryVars,
         \A v \in Workers \ {w} : held'[v] = held[v],
         \A d \in DBs : stored'[d] = stored[d] \/ stored'[d] = stored[d] \cup {Item(w)}
  PROVE  Spared(n)
<1>1. Queued(n)' <=> Queued(n) BY DEF Queued
<1>2. (\E v \in Workers : held[v] = n)' <=> \E v \in Workers : held[v] = n OBVIOUS
<1>3. Parked(n)' <=> Parked(n) BY DEF Parked, recoveryVars
<1>4. taken' = taken BY DEF recoveryVars
<1>5. SameCopies(n) BY <1>1, <1>2, <1>3, <1>4 DEF SameCopies, InPlay, Shelved
<1>6. SameRows(n) BY DEF SameRows, HasRow, Item
<1> QED BY <1>5, <1>6 DEF Spared, SameAccess

\* A step that changes no copy and no row spares everybody.
LEMMA NothingMoves ==
  ASSUME UNCHANGED <<unsent, missed, main, dlq, held, stored>>, UNCHANGED recoveryVars,
         NEW n \in Notifs
  PROVE  Spared(n)
<1>1. InPlay(n)' <=> InPlay(n) BY DEF InPlay, Queued
<1>2. Shelved(n)' <=> Shelved(n) BY DEF Shelved, Parked, recoveryVars
<1>3. SameRows(n) BY DEF SameRows, HasRow
<1> QED BY <1>1, <1>2, <1>3 DEF Spared, SameAccess, SameCopies

\* A step of a worker works on the notification it holds, or on none.
LEMMA WorkerEffect ==
  ASSUME TypeOK, NEW w \in Workers, WorkerStep(w) \/ WorkerFault(w)
  PROVE  Effect
<1> DEFINE m == held[w]
<1>1. pc[w] # "idle"
  BY DEF WorkerStep, WorkerFault, Refresh, RefreshPoison, Transform, SaveTimeseries, Observe,
     Retry, MoveToDlq, Settle, RefreshFails, TransformFails, SaveFails, RetryFails,
     MoveToDlqFails, WorkerCrash, ChildKilled
<1>2. m \in Notifs /\ tries[w] \in Retries /\ m # None
  BY <1>1, ConstantsAssumption DEF TypeOK
<1>3. unsent' = unsent /\ missed' = missed /\ UNCHANGED recoveryVars
  BY DEF WorkerStep, WorkerFault, Refresh, RefreshPoison, Transform, SaveTimeseries, Observe,
     Retry, MoveToDlq, Settle, RefreshFails, TransformFails, SaveFails, RetryFails,
     MoveToDlqFails, WorkerCrash, ChildKilled
<1>4. /\ \A v \in Workers \ {w} : held'[v] = held[v]
      /\ held'[w] = m \/ held'[w] = None
  BY DEF WorkerStep, WorkerFault, Refresh, RefreshPoison, Transform, SaveTimeseries, Observe,
     Retry, MoveToDlq, Settle, RefreshFails, TransformFails, SaveFails, RetryFails,
     MoveToDlqFails, WorkerCrash, ChildKilled, Release, TypeOK
<1>5. \A d \in DBs : stored'[d] = stored[d] \/ stored'[d] = stored[d] \cup {Item(w)}
  BY DEF WorkerStep, WorkerFault, Refresh, RefreshPoison, Transform, SaveTimeseries, Observe,
     Retry, MoveToDlq, Settle, RefreshFails, TransformFails, SaveFails, RetryFails,
     MoveToDlqFails, WorkerCrash, ChildKilled, outputVars, TypeOK
<1>6. \A n \in Notifs \ {m} : dlq'[n] = dlq[n]
  BY <1>2 DEF WorkerStep, WorkerFault, Refresh, RefreshPoison, Transform, SaveTimeseries, Observe,
     Retry, MoveToDlq, Settle, RefreshFails, TransformFails, SaveFails, RetryFails,
     MoveToDlqFails, WorkerCrash, ChildKilled, TypeOK
<1>7. \A n \in Notifs \ {m} : main'[n] = main[n]
  <2>1. CASE Retry(w) \/ WorkerCrash(w)
    BY <2>1, <1>2 DEF Retry, WorkerCrash, TypeOK
  <2>2. CASE ~ (Retry(w) \/ WorkerCrash(w))
    <3>1. main' = main
      BY <2>2 DEF WorkerStep, WorkerFault, Refresh, RefreshPoison, Transform, SaveTimeseries,
         Observe, MoveToDlq, Settle, RefreshFails, TransformFails, SaveFails, RetryFails,
         MoveToDlqFails, ChildKilled
    <3> QED BY <3>1
  <2> QED BY <2>1, <2>2
<1>8. \A n \in Notifs \ {m} : Spared(n)
  BY <1>2, <1>3, <1>4, <1>5, <1>6, <1>7, ConstantsAssumption, WorkerSpares
<1>9. InPlay(m) BY DEF InPlay
<1>10. SameAccess(m) BY <1>3 DEF SameAccess
<1> QED BY <1>2, <1>8, <1>9, <1>10 DEF Effect, WorksOn

\* So does every other step.
LEMMA NextEffect == TypeOK /\ Provenance /\ [Next]_vars => Effect
<1> SUFFICES ASSUME TypeOK, Provenance, [Next]_vars PROVE Effect OBVIOUS
<1>1. ASSUME NEW m \in Notifs, Notify(m) PROVE Effect
  <2>1. 0 \in Retries BY ConstantsAssumption DEF Retries
  <2>2. InPlay(m)' BY <1>1, <2>1, PublishQueues DEF Notify, InPlay
  <2>3. m \in unsent /\ m \notin unsent' /\ m \notin missed'
    BY <1>1 DEF Notify, Provenance
  <2>4. ASSUME NEW n \in Notifs \ {m} PROVE Spared(n)
    <3>1. main'[n] = main[n] BY <1>1 DEF Notify, TypeOK
    <3>2. InPlay(n)' <=> InPlay(n) BY <1>1, <3>1 DEF Notify, InPlay, Queued, workerVars
    <3>3. Shelved(n)' <=> Shelved(n) BY <1>1 DEF Notify, Shelved, Parked, recoveryVars
    <3>4. SameRows(n) BY <1>1 DEF Notify, SameRows, HasRow, outputVars
    <3>5. SameAccess(n) BY <1>1 DEF Notify, SameAccess
    <3> QED BY <3>2, <3>3, <3>4, <3>5 DEF Spared, SameCopies
  <2>5. SameRows(m) BY <1>1 DEF Notify, SameRows, HasRow, outputVars
  <2> QED BY <2>2, <2>3, <2>4, <2>5 DEF Effect, Takes
<1>2. ASSUME NEW m \in Notifs, NotifyFails(m) PROVE Effect
  <2>1. /\ UNCHANGED <<main, dlq, held, stored>> /\ UNCHANGED recoveryVars
        /\ m \in unsent /\ m \notin unsent' /\ m \in missed'
    BY <1>2 DEF NotifyFails, workerVars, outputVars
  <2>2. ASSUME NEW n \in Notifs PROVE SameCopies(n) /\ SameRows(n)
    BY <2>1 DEF SameCopies, SameRows, InPlay, Queued, Shelved, Parked, HasRow, recoveryVars
  <2>3. \A n \in Notifs \ {m} : SameAccess(n) BY <1>2 DEF NotifyFails, SameAccess
  <2> QED BY <2>1, <2>2, <2>3 DEF Effect, Takes, Spared
<1>3. ASSUME NEW w \in Workers, NEW m \in Notifs, NEW r \in Retries, Receive(w, m, r)
      PROVE  Effect
  <2>1. held[w] = None BY <1>3 DEF Receive, Provenance
  <2>2. InPlay(m) BY <1>3 DEF Receive, InPlay, Queued
  <2>3. SameAccess(m) BY <1>3 DEF Receive, SameAccess
  <2>4. ASSUME NEW n \in Notifs \ {m} PROVE Spared(n)
    <3>1. main'[n] = main[n] BY <1>3 DEF Receive, TypeOK
    <3>2. \A v \in Workers \ {w} : held'[v] = held[v] BY <1>3 DEF Receive, TypeOK
    <3>3. held'[w] = m BY <1>3 DEF Receive, TypeOK
    <3>4. stored' = stored BY <1>3 DEF Receive, outputVars
    <3> QED BY <1>3, <2>1, <2>4, <3>1, <3>2, <3>3, <3>4, WorkerSpares, ConstantsAssumption DEF Receive
  <2> QED BY <2>2, <2>3, <2>4 DEF Effect, WorksOn
<1>4. ASSUME NEW w \in Workers, WorkerStep(w) \/ WorkerFault(w) PROVE Effect
  BY <1>4, WorkerEffect
<1>5. CASE RecoveryStart
  <2>1. ASSUME NEW n \in Notifs PROVE Spared(n)
    <3>1. SameCopies(n)
      BY <1>5 DEF RecoveryStart, SameCopies, InPlay, Queued, Shelved, Parked, workerVars
    <3> QED BY <1>5, <3>1 DEF RecoveryStart, Spared, SameRows, SameAccess, HasRow, outputVars
  <2> QED BY <2>1 DEF Effect
<1>6. ASSUME NEW m \in Notifs, RecoveryGet(m) PROVE Effect
  <2>1. Shelved(m) BY <1>6 DEF RecoveryGet, Shelved, Parked
  <2>2. taken = None BY <1>6 DEF RecoveryGet, Provenance
  <2>3. ASSUME NEW n \in Notifs \ {m} PROVE Spared(n)
    <3>1. dlq'[n] = dlq[n] BY <1>6 DEF RecoveryGet, TypeOK
    <3>2. taken # n /\ taken' # n
      BY <1>6, <2>2, ConstantsAssumption DEF RecoveryGet
    <3>3. InPlay(n)' <=> InPlay(n) BY <1>6 DEF RecoveryGet, InPlay, Queued, workerVars
    <3>4. Shelved(n)' <=> Shelved(n)
      BY <1>6, <3>1, <3>2 DEF RecoveryGet, Shelved, Parked
    <3> QED BY <1>6, <3>3, <3>4
            DEF RecoveryGet, Spared, SameCopies, SameRows, SameAccess, HasRow, outputVars
  <2> QED BY <1>6, <2>1, <2>3 DEF RecoveryGet, Effect, WorksOn, SameAccess
\* The other steps of the recovery job work on the notification it has taken.
<1>7. CASE RecoveryRepublish \/ RecoveryAck \/ RecoveryError
  <2> DEFINE m == taken
  <2>1. m \in Notifs BY <1>7 DEF RecoveryRepublish, RecoveryAck, RecoveryError, TypeOK
  <2>2. Shelved(m) BY DEF Shelved
  <2>3. UNCHANGED <<unsent, missed, dlq, held, stored>>
    BY <1>7 DEF RecoveryRepublish, RecoveryAck, RecoveryError, workerVars, outputVars
  <2>4. ASSUME NEW n \in Notifs \ {m} PROVE Spared(n)
    <3>1. main'[n] = main[n]
      BY <1>7, <2>1 DEF RecoveryRepublish, RecoveryAck, RecoveryError, TypeOK
    <3>2. stuck'[n] = stuck[n]
      BY <1>7, <2>1 DEF RecoveryRepublish, RecoveryAck, RecoveryError, TypeOK
    <3>3. taken # n /\ taken' # n
      BY <1>7, ConstantsAssumption DEF RecoveryRepublish, RecoveryAck, RecoveryError
    <3>4. InPlay(n)' <=> InPlay(n) BY <2>3, <3>1 DEF InPlay, Queued
    <3>5. Shelved(n)' <=> Shelved(n) BY <2>3, <3>2, <3>3 DEF Shelved, Parked
    <3> QED BY <2>3, <3>4, <3>5 DEF Spared, SameCopies, SameRows, SameAccess, HasRow
  <2>5. SameAccess(m) BY <2>3 DEF SameAccess
  <2> QED BY <2>1, <2>2, <2>4, <2>5 DEF Effect, WorksOn
\* When the connection closes, what was unacked is ready in the DLQ again.
<1>8. CASE RecoveryExit \/ RecoveryCrash
  <2>1. RecoveryDisconnect BY <1>8 DEF RecoveryExit, RecoveryCrash
  <2>2. ASSUME NEW n \in Notifs PROVE Spared(n)
    <3>1. dlq'[n] = dlq[n] + stuck[n] + (IF n = taken THEN 1 ELSE 0)
      BY <2>1 DEF RecoveryDisconnect
    <3>2. dlq[n] \in Nat /\ stuck[n] \in Nat BY DEF TypeOK
    <3>3. stuck'[n] = 0 /\ taken' # n
      BY <2>1, ConstantsAssumption DEF RecoveryDisconnect
    <3>4. Shelved(n) <=> dlq[n] > 0 \/ stuck[n] > 0 \/ taken = n
      BY DEF Shelved, Parked
    <3>5. recovery' = "off" BY <2>1 DEF RecoveryDisconnect
    <3>6. Shelved(n)' <=> dlq'[n] > 0 BY <3>3, <3>5 DEF Shelved, Parked
    <3>7. Shelved(n)' <=> Shelved(n) BY <3>1, <3>2, <3>4, <3>6
    <3>8. InPlay(n)' <=> InPlay(n) BY <2>1 DEF RecoveryDisconnect, InPlay, Queued, workerVars
    <3> QED BY <2>1, <3>7, <3>8
            DEF RecoveryDisconnect, Spared, SameCopies, SameRows, SameAccess, HasRow, outputVars
  <2> QED BY <2>2 DEF Effect
<1>9. CASE UNCHANGED vars
  BY <1>9, NothingMoves DEF vars, workerVars, outputVars, recoveryVars, Effect
<1> QED
  BY <1>1, <1>2, <1>3, <1>4, <1>5, <1>6, <1>7, <1>8, <1>9 DEF Next, RecoveryStep

\* An idle worker holds nothing, an idle recovery job has taken nothing, and
\* what was never queued left no trace.
LEMMA NextProvenance == TypeOK /\ Provenance /\ [Next]_vars => Provenance'
<1> SUFFICES ASSUME TypeOK, Provenance, [Next]_vars PROVE Provenance' OBVIOUS
<1>1. (\A n \in unsent : n \notin missed)'
  <2>1. CASE \E m \in Notifs : Notify(m) \/ NotifyFails(m)
    BY <2>1 DEF Provenance, Notify, NotifyFails
  <2>2. CASE ~ \E m \in Notifs : Notify(m) \/ NotifyFails(m)
    <3>1. unsent' = unsent /\ missed' = missed
      BY <2>2 DEF Next, Receive, WorkerStep, WorkerFault, Refresh, RefreshPoison, Transform,
         SaveTimeseries, Observe, Retry, MoveToDlq, Settle, RefreshFails, TransformFails, SaveFails,
         RetryFails, MoveToDlqFails, WorkerCrash, ChildKilled, RecoveryStart, RecoveryStep,
         RecoveryGet, RecoveryRepublish, RecoveryAck, RecoveryExit, RecoveryError, RecoveryCrash,
         RecoveryDisconnect, vars
    <3> QED BY <3>1 DEF Provenance
  <2> QED BY <2>1, <2>2
<1>2. (\A w \in Workers : pc[w] = "idle" => held[w] = None)'
  <2> SUFFICES ASSUME NEW v \in Workers, pc'[v] = "idle" PROVE held'[v] = None OBVIOUS
  <2>1. CASE UNCHANGED <<pc, held>>
    BY <2>1 DEF Provenance
  <2>2. ASSUME NEW w \in Workers, NEW n \in Notifs, NEW r \in Retries, Receive(w, n, r)
        PROVE  held'[v] = None
    BY <2>2 DEF Receive, Goto, TypeOK, Provenance
  <2>3. ASSUME NEW w \in Workers, WorkerStep(w) \/ WorkerFault(w), v # w PROVE held'[v] = None
    <3>1. pc'[v] = pc[v] /\ held'[v] = held[v]
      BY <2>3 DEF WorkerStep, WorkerFault, Refresh, RefreshPoison, Transform, SaveTimeseries,
         Observe, Retry, MoveToDlq, Settle, RefreshFails, TransformFails, SaveFails, RetryFails,
         MoveToDlqFails, WorkerCrash, ChildKilled, NextEntity, Release, Goto, TypeOK
    <3> QED BY <3>1 DEF Provenance
  <2>4. CASE Settle(v) \/ WorkerCrash(v) \/ ChildKilled(v)
    BY <2>4 DEF Settle, WorkerCrash, ChildKilled, Release, TypeOK
  <2>5. CASE WorkerStep(v) \/ WorkerFault(v)
    <3>1. ~ (Settle(v) \/ WorkerCrash(v) \/ ChildKilled(v)) => pc'[v] # "idle"
      BY <2>5 DEF WorkerStep, WorkerFault, Refresh, RefreshPoison, Transform, SaveTimeseries,
         Observe, Retry, MoveToDlq, RefreshFails, TransformFails, SaveFails, RetryFails,
         MoveToDlqFails, NextEntity, Goto, TypeOK
    <3> QED BY <2>4, <3>1
  <2>6. CASE \/ \E n \in Notifs : Notify(n) \/ NotifyFails(n)
             \/ RecoveryStart \/ RecoveryStep \/ RecoveryError \/ RecoveryCrash
             \/ UNCHANGED vars
    <3>1. UNCHANGED <<pc, held>>
      BY <2>6 DEF Notify, NotifyFails, RecoveryStart, RecoveryStep, RecoveryGet,
         RecoveryRepublish, RecoveryAck, RecoveryExit, RecoveryError, RecoveryCrash,
         RecoveryDisconnect, workerVars, vars
    <3> QED BY <2>1, <3>1
  <2> QED BY <2>2, <2>3, <2>5, <2>6 DEF Next
<1>3. (recovery \in {"off", "poll"} => taken = None)'
  <2>1. CASE UNCHANGED <<recovery, taken>>
    BY <2>1 DEF Provenance
  <2>2. CASE RecoveryStart \/ RecoveryStep \/ RecoveryError \/ RecoveryCrash
    BY <2>2 DEF Provenance, RecoveryStart, RecoveryStep, RecoveryGet, RecoveryRepublish, RecoveryAck,
       RecoveryExit, RecoveryError, RecoveryCrash, RecoveryDisconnect
  <2>3. CASE ~ (RecoveryStart \/ RecoveryStep \/ RecoveryError \/ RecoveryCrash)
    <3>1. UNCHANGED <<recovery, taken>>
      BY <2>3 DEF Next, Notify, NotifyFails, Receive, WorkerStep, WorkerFault, Refresh,
         RefreshPoison, Transform, SaveTimeseries, Observe, Retry, MoveToDlq, Settle, RefreshFails,
         TransformFails, SaveFails, RetryFails, MoveToDlqFails, WorkerCrash, ChildKilled,
         recoveryVars, vars
    <3> QED BY <2>1, <3>1
  <2> QED BY <2>2, <2>3
<1>4. ASSUME NEW n \in Notifs, n \in unsent' \/ n \in missed' PROVE Untouched(n)'
  <2>1. (\A m \in Notifs : Spared(m)) \/ \E m \in Notifs : WorksOn(m) \/ Takes(m)
    BY NextEffect DEF Effect
  <2>2. CASE Spared(n)
    <3>1. Untouched(n) BY <1>4, <2>2 DEF Spared, SameAccess, Provenance
    <3> QED BY <2>2, <3>1 DEF Spared, SameCopies, SameRows, Untouched
  <2>3. CASE WorksOn(n)
    <3>1. Untouched(n) BY <1>4, <2>3 DEF WorksOn, SameAccess, Provenance
    <3> QED BY <2>3, <3>1 DEF WorksOn, Untouched
  <2>4. CASE Takes(n)
    <3>1. Untouched(n) BY <2>4 DEF Takes, Provenance
    <3>2. SameCopies(n) /\ SameRows(n) BY <1>4, <2>4 DEF Takes
    <3> QED BY <3>1, <3>2 DEF SameCopies, SameRows, Untouched
  <2> QED BY <2>1, <2>2, <2>3, <2>4 DEF WorksOn, Takes
<1> QED BY <1>1, <1>2, <1>3, <1>4 DEF Provenance

\* Nothing is queued, held, taken or stored at the beginning.
LEMMA InitProvenance == Init => Provenance
<1> SUFFICES ASSUME Init PROVE Provenance OBVIOUS
<1>1. ASSUME NEW n \in Notifs PROVE Untouched(n)
  BY ConstantsAssumption
  DEF Init, Untouched, InPlay, Queued, Shelved, Parked, HasRow
<1> QED BY <1>1 DEF Init, Provenance

\* A spared notification keeps its status.
LEMMA SparedStatus ==
  ASSUME NEW n \in Notifs, Spared(n) PROVE StatusOf(n)' = StatusOf(n)
<1>1. Complete(n)' <=> Complete(n)
  BY DEF Spared, SameRows, HasRow, Complete, Done
<1>2. InPlay(n)' <=> InPlay(n) BY DEF Spared, SameCopies
<1>3. Shelved(n)' <=> Shelved(n) BY DEF Spared, SameCopies
<1>4. (n \in unsent' <=> n \in unsent) /\ (n \in missed' <=> n \in missed)
  BY DEF Spared, SameAccess
<1>5. NothingToStore(n)' <=> NothingToStore(n) BY DEF NothingToStore
<1> HIDE DEF NothingToStore
<1> QED BY <1>1, <1>2, <1>3, <1>4, <1>5 DEF StatusOf, InPlay, Shelved

\* The status of the notification a step works on was "pending" or "parked",
\* or is final.
LEMMA WorksOnStatus ==
  ASSUME Provenance, Grows, NEW m \in Notifs, WorksOn(m), StatusOf(m)' # StatusOf(m)
  PROVE  /\ StatusOf(m) \in {"pending", "parked"}
         /\ StatusOf(m)' \in {"pending", "parked", "stored", "discarded", "lost"}
<1>1. m \notin unsent /\ m \notin missed /\ m \notin unsent' /\ m \notin missed'
  BY DEF WorksOn, SameAccess, Provenance, Untouched
<1>2. Complete(m) => Complete(m)' BY CompleteStable
<1>3. NothingToStore(m)' <=> NothingToStore(m) BY DEF NothingToStore
<1>4. ~ (Complete(m) /\ ~ NothingToStore(m)) BY <1>1, <1>2, <1>3 DEF StatusOf
<1>5. StatusOf(m) \in {"pending", "parked"}
  BY <1>1, <1>4 DEF WorksOn, StatusOf, InPlay, Shelved
<1>6. StatusOf(m)' \in {"pending", "parked", "stored", "discarded", "lost"}
  BY <1>1 DEF StatusOf
<1> QED BY <1>5, <1>6

\* A notification the context broker sends becomes pending, or is lost at once.
LEMMA TakesStatus ==
  ASSUME Provenance, NEW m \in Notifs, Takes(m)
  PROVE  StatusOf(m) = "unsent" /\ StatusOf(m)' \in {"pending", "lost"}
<1>1. StatusOf(m) = "unsent" BY DEF Takes, StatusOf
<1>2. CASE m \in missed' BY <1>2 DEF Takes, StatusOf
<1>3. CASE m \notin missed'
  <2>1. InPlay(m)' BY <1>3 DEF Takes, SameCopies, SameAccess
  <2>2. \A e \in 1 .. Size[m], d \in DBs : ~ HasRow(m, e, d)'
    BY DEF Takes, SameRows, Provenance, Untouched
  <2>3. 1 \in DBs BY ConstantsAssumption DEF DBs
  <2>4. Complete(m)' => \A e \in 1 .. Size[m] : <<m, e>> \in Expired
    BY <2>2, <2>3 DEF Complete, Done, HasRow
  <2>5. Complete(m)' => NothingToStore(m)' BY <2>4 DEF NothingToStore
  <2> QED BY <1>3, <2>1, <2>5 DEF Takes, StatusOf, InPlay
<1> QED BY <1>1, <1>2, <1>3

\* Every step of the pipeline is a step of the abstract delivery, or changes
\* no status.
LEMMA StepRefines ==
  TypeOK /\ Provenance /\ [Next]_vars
    => [Delivery!Next]_([n \in Notifs |-> StatusOf(n)])
<1> SUFFICES ASSUME TypeOK, Provenance, [Next]_vars
             PROVE  \/ Delivery!Next
                    \/ [n \in Notifs |-> StatusOf(n)]' = [n \in Notifs |-> StatusOf(n)]
  OBVIOUS
<1> DEFINE st == [n \in Notifs |-> StatusOf(n)]
<1>1. Grows BY NextGrows
<1>2. Effect BY NextEffect
<1>3. CASE \A n \in Notifs : StatusOf(n)' = StatusOf(n)
  BY <1>3
<1>4. ASSUME NEW m \in Notifs, WorksOn(m) \/ Takes(m), StatusOf(m)' # StatusOf(m)
      PROVE  Delivery!Next
  <2>1. \A n \in Notifs \ {m} : StatusOf(n)' = StatusOf(n)
    BY <1>4, SparedStatus DEF WorksOn, Takes
  <2> DEFINE to == StatusOf(m)'
  <2>2. st' = [st EXCEPT ![m] = to] BY <2>1
  <2>3. st[m] = StatusOf(m) OBVIOUS
  <2>4. \/ /\ st[m] \in {"pending", "parked"}
           /\ to \in {"pending", "parked", "stored", "discarded", "lost"}
           /\ st[m] # to
        \/ st[m] = "unsent" /\ to \in {"pending", "lost"}
    BY <1>1, <1>4, <2>3, WorksOnStatus, TakesStatus
  <2> HIDE DEF st, to
  <2>5. <<st[m], to>> \in Delivery!Moves BY <2>4 DEF Delivery!Moves
  <2>6. /\ <<st[m], to>> \in Delivery!Moves /\ st' = [st EXCEPT ![m] = to]
        /\ st'[m] = to
    BY <2>2, <2>5 DEF st
  <2> QED BY <2>6 DEF Delivery!Next, st
<1>5. CASE \A n \in Notifs : Spared(n)
  BY <1>3, <1>5, SparedStatus
<1>6. CASE \E m \in Notifs : WorksOn(m) \/ Takes(m)
  <2> PICK m \in Notifs : WorksOn(m) \/ Takes(m) BY <1>6
  <2>1. \A n \in Notifs \ {m} : StatusOf(n)' = StatusOf(n)
    BY SparedStatus DEF WorksOn, Takes
  <2>2. CASE StatusOf(m)' = StatusOf(m) BY <2>1, <2>2, <1>3
  <2>3. CASE StatusOf(m)' # StatusOf(m) BY <2>3, <1>4
  <2> QED BY <2>2, <2>3
<1> QED BY <1>2, <1>5, <1>6 DEF Effect

\* The pipeline implements the abstract delivery: a notification is accepted
\* once, and stored, discarded and lost are final, whatever copies of it
\* retries, redeliveries and the recovery job leave behind.
THEOREM DeliveryRefined == Spec => RefinesDelivery
<1>1. Init => Delivery!Init
  BY DEF Init, Delivery!Init, StatusOf
<1>2. Init => TypeOK /\ Provenance BY InitType, InitProvenance
<1>3. IInv => TypeOK BY DEF IInv
<1>4. Init /\ []IInv /\ [][Next]_vars => [](TypeOK /\ Provenance)
  BY <1>2, <1>3, NextProvenance, PTL
<1>5. TypeOK /\ Provenance /\ [Next]_vars => [Delivery!Next]_([n \in Notifs |-> StatusOf(n)])
  BY StepRefines
<1> QED BY <1>1, <1>4, <1>5, Invariance, PTL DEF Spec, RefinesDelivery, Delivery!Spec

=============================================================================
