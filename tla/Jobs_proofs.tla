----------------------------- MODULE Jobs_proofs -----------------------------
(***************************************************************************)
(* Proofs about the jobs that schedulers repeat and several processes run: *)
(* the cache of the crowd detections, the schedule of the ETLs, the passes *)
(* of the inactivity check, the classification of the visitors, the        *)
(* learning of the anomaly models, the location of a device, the alarms,   *)
(* the importation of files and the rows of an entity.  Each component is  *)
(* an instance: its theorems are about the behaviours of its own           *)
(* specification, and that two of them use the same name for a constant or *)
(* a variable relates nothing.  Each section declares the names it adds.   *)
(***************************************************************************)
EXTENDS Integers, Sequences, FiniteSets, FiniteSetTheorems, SequenceTheorems,
        WellFoundedInduction, TLAPS

-----------------------------------------------------------------------------
(* The schedule of the ETLs.                                               *)
CONSTANTS Workers, Users, Kinds, MonthLengths, FirstWeekday, Ranges, MaxAsked
VARIABLES asked, all, version, queue, executions, task, runs, unsafe
Etls == INSTANCE EtlSchedule

Busy(w) == task[w].pc \in {"looked", "recorded"}
NotForced(j) == ~j.force

\* What is not forced is recorded and executed by one worker: no other one has looked
\* for it, it was not recorded before, and it was not executed before.
Single ==
  /\ \A v, w \in Workers :
       Busy(v) /\ Busy(w) /\ v # w /\ NotForced(task[v].job) =>
         Etls!Params(task[v].job) # Etls!Params(task[w].job)
  /\ \A w \in Workers :
       task[w].pc = "looked" /\ NotForced(task[w].job) =>
         Etls!Params(task[w].job) \notin executions
  /\ \A w \in Workers, r \in runs :
       task[w].pc = "recorded" /\ NotForced(task[w].job) =>
         Etls!Params(task[w].job) # Etls!Params(r)
  /\ \A a, b \in runs : NotForced(a) /\ Etls!Params(a) = Etls!Params(b) => a = b

\* The records are those of what was executed and of what is about to be.
Recorded ==
  /\ \A r \in runs : Etls!Params(r) \in executions
  /\ \A w \in Workers : task[w].pc = "recorded" => Etls!Params(task[w].job) \in executions
  /\ \A e \in executions :
       \/ \E r \in runs : Etls!Params(r) = e
       \/ \E w \in Workers : task[w].pc = "recorded" /\ Etls!Params(task[w].job) = e

\* Jobs are forced or not.
Forcing ==
  /\ all.pc = "running" => all.force \in BOOLEAN
  /\ \A j \in queue : j.force \in BOOLEAN
  /\ \A r \in runs : r.force \in BOOLEAN
  /\ task = [w \in Workers |-> task[w]]
  /\ \A w \in Workers : /\ task[w] = Etls!Idle \/ (Busy(w) /\ task[w].job.force \in BOOLEAN)
  /\ unsafe \in BOOLEAN

ScheduleInv == Forcing /\ (~unsafe => Single /\ Recorded)

\* Whether a job is forced is part of its parameters.
LEMMA SameForce ==
  ASSUME NEW a, NEW b, Etls!Params(a) = Etls!Params(b) PROVE a.force = b.force
BY DEF Etls!Params

\* Nothing has been asked for at the start.
LEMMA ScheduleStarts == Etls!Init => ScheduleInv
<1> SUFFICES ASSUME Etls!Init PROVE ScheduleInv OBVIOUS
<1>1. \A w \in Workers : task[w] = Etls!Idle /\ task[w].pc = "idle"
  BY DEF Etls!Init, Etls!Idle
<1>2. Forcing BY <1>1 DEF Etls!Init, Forcing, Etls!Idle
<1>3. Single /\ Recorded BY <1>1 DEF Etls!Init, Single, Recorded, Busy
<1> QED BY <1>2, <1>3 DEF ScheduleInv

\* A step of the task for all the users, or of a request, touches no job of a worker.
LEMMA AskKeeps ==
  ASSUME ScheduleInv,
         UNCHANGED <<queue, executions, task, runs>>, unsafe' = unsafe \/ unsafe' = TRUE,
         all'.pc = "running" => all'.force \in BOOLEAN
  PROVE  ScheduleInv'
<1>1. Forcing' BY DEF ScheduleInv, Forcing, Busy
<1>2. ASSUME ~unsafe' PROVE Single' /\ Recorded'
  <2>1. Single /\ Recorded BY <1>2 DEF ScheduleInv, Forcing
  <2> QED BY <2>1 DEF Single, Recorded, Busy, NotForced
<1> QED BY <1>1, <1>2 DEF ScheduleInv

\* The jobs published for a user are forced if their task is.
LEMMA StartJobsKeeps ==
  ASSUME ScheduleInv, NEW u \in Users, Etls!StartJobs(u) PROVE ScheduleInv'
<1>1. UNCHANGED <<executions, task, runs, unsafe>> BY DEF Etls!StartJobs
<1>2. all.force \in BOOLEAN BY DEF ScheduleInv, Forcing, Etls!StartJobs
<1>3. all' = [all EXCEPT !.users = @ \ {u}] BY DEF Etls!StartJobs
<1>4. all'.force = all.force BY <1>3
<1>5. \A j \in queue' : j.force \in BOOLEAN
  <2>1. \A j \in queue : j.force \in BOOLEAN BY DEF ScheduleInv, Forcing
  <2> QED BY <1>2, <2>1 DEF Etls!StartJobs
<1>6. Forcing' BY <1>1, <1>2, <1>4, <1>5 DEF ScheduleInv, Forcing, Busy
<1>7. ~unsafe' => Single' /\ Recorded'
  BY <1>1 DEF ScheduleInv, Single, Recorded, Busy, NotForced
<1> QED BY <1>6, <1>7 DEF ScheduleInv

\* A job that is looked up goes on if it is forced or is not in etl_executions, and
\* then, if no other worker looked for it at the same time, no other worker has it.
LEMMA LookUpEtlKeeps ==
  ASSUME ScheduleInv, NEW w \in Workers, NEW j \in queue, Etls!LookUp(w, j) PROVE ScheduleInv'
<1> DEFINE new == [pc |-> "looked", job |-> j, found |-> Etls!Params(j) \in executions]
           Skipped == Etls!Params(j) \in executions /\ ~j.force
<1>1. Forcing BY DEF ScheduleInv
<1>2. j.force \in BOOLEAN /\ task[w] = Etls!Idle BY <1>1 DEF Forcing, Etls!LookUp
<1>3. /\ queue' \subseteq queue
      /\ Skipped => task' = task
      /\ ~Skipped => task' = [task EXCEPT ![w] = new]
      /\ unsafe' = (unsafe \/ \E v \in Workers :
           task[v].pc = "looked" /\ Etls!Params(task[v].job) = Etls!Params(j))
      /\ UNCHANGED <<all, executions, runs>>
  BY DEF Etls!LookUp
<1>4. CASE Skipped
  BY <1>1, <1>3, <1>4 DEF ScheduleInv, Forcing, Single, Recorded, Busy, NotForced
<1>5. CASE ~Skipped
  <2>1. new.pc = "looked" /\ new.job = j OBVIOUS
  <2> HIDE DEF new
  <2>2. \A v \in Workers : task'[v] = IF v = w THEN new ELSE task[v]
    BY <1>1, <1>3, <1>5 DEF Forcing
  <2>3. Forcing'
    BY <1>1, <1>2, <1>3, <1>5, <2>1, <2>2 DEF Forcing, Busy
  <2>4. ASSUME ~unsafe' PROVE Single'
    <3>1. /\ Single /\ Recorded
          /\ \A v \in Workers : task[v].pc = "looked" =>
               Etls!Params(task[v].job) # Etls!Params(j)
      BY <1>1, <1>3, <2>4 DEF ScheduleInv, Forcing
    <3>2. \A v \in Workers \ {w} : Busy(v) /\ ~j.force =>
            Etls!Params(task[v].job) # Etls!Params(j)
      BY <3>1, <1>5 DEF Busy, Recorded
    <3>3. \A v \in Workers \ {w} : Busy(v) /\ NotForced(task[v].job) =>
            Etls!Params(task[v].job) # Etls!Params(j)
      BY <3>2, SameForce DEF NotForced
    <3>4. \A v, x \in Workers :
            Busy(v)' /\ Busy(x)' /\ v # x /\ NotForced(task'[v].job) =>
              Etls!Params(task'[v].job) # Etls!Params(task'[x].job)
      BY <3>1, <3>2, <3>3, <2>1, <2>2 DEF Single, Busy, NotForced
    <3>5. \A v \in Workers :
            task'[v].pc = "looked" /\ NotForced(task'[v].job) =>
              Etls!Params(task'[v].job) \notin executions'
      BY <3>1, <2>1, <2>2, <1>3, <1>5 DEF Single, NotForced
    <3> QED BY <3>1, <3>4, <3>5, <2>1, <2>2, <1>3 DEF Single, NotForced
  <2>5. ASSUME ~unsafe' PROVE Recorded'
    <3>1. Recorded BY <1>1, <1>3, <2>5 DEF ScheduleInv, Forcing
    <3>2. \A v \in Workers : task'[v].pc = "recorded" <=> task[v].pc = "recorded"
      BY <1>2, <2>1, <2>2 DEF Etls!Idle
    <3>3. \A v \in Workers : task'[v].pc = "recorded" => task'[v] = task[v]
      BY <2>1, <2>2
    <3> QED BY <3>1, <3>2, <3>3, <1>3 DEF Recorded
  <2> QED BY <2>3, <2>4, <2>5 DEF ScheduleInv
<1> QED BY <1>4, <1>5

\* A job is recorded before it is executed.
LEMMA RecordEtlKeeps ==
  ASSUME ScheduleInv, NEW w \in Workers, Etls!Record(w) PROVE ScheduleInv'
<1> DEFINE j == task[w].job
           new == [pc |-> "recorded", job |-> j]
<1>1. Forcing BY DEF ScheduleInv
<1>2. task[w].pc = "looked" /\ j.force \in BOOLEAN BY <1>1 DEF Forcing, Etls!Record, Etls!Idle
<1>3. /\ executions' = executions \cup {Etls!Params(j)}
      /\ task' = [task EXCEPT ![w] = new]
      /\ UNCHANGED <<all, queue, runs, unsafe>>
  BY DEF Etls!Record
<1>4. new.pc = "recorded" /\ new.job = j OBVIOUS
<1> HIDE DEF new
<1>5. \A v \in Workers : task'[v] = IF v = w THEN new ELSE task[v] BY <1>1, <1>3 DEF Forcing
<1>6. Forcing' BY <1>1, <1>2, <1>3, <1>4, <1>5 DEF Forcing, Busy
<1>7. ASSUME ~unsafe' PROVE Single' /\ Recorded'
  <2>1. Single /\ Recorded BY <1>1, <1>3, <1>7 DEF ScheduleInv, Forcing
  <2>2. \A v \in Workers \ {w} : Busy(v) /\ NotForced(task[v].job) =>
          Etls!Params(task[v].job) # Etls!Params(j)
    BY <2>1, <1>2 DEF Single, Busy
  <2>3. \A v \in Workers : Busy(v)' => Busy(v) /\ task'[v].job = task[v].job
    BY <1>2, <1>4, <1>5 DEF Busy
  <2>4. \A v, x \in Workers :
          Busy(v)' /\ Busy(x)' /\ v # x /\ NotForced(task'[v].job) =>
            Etls!Params(task'[v].job) # Etls!Params(task'[x].job)
    BY <2>1, <2>3 DEF Single
  <2>5. \A v \in Workers :
          task'[v].pc = "looked" /\ NotForced(task'[v].job) =>
            Etls!Params(task'[v].job) \notin executions'
    BY <2>1, <2>2, <1>3, <1>4, <1>5 DEF Single, Busy
  <2>6. NotForced(j) => \A r \in runs : Etls!Params(j) # Etls!Params(r)
    BY <2>1, <1>2 DEF Single, Recorded
  <2>7. \A v \in Workers, r \in runs' :
          task'[v].pc = "recorded" /\ NotForced(task'[v].job) =>
            Etls!Params(task'[v].job) # Etls!Params(r)
    BY <2>1, <2>6, <1>3, <1>4, <1>5 DEF Single
  <2>8. Single' BY <2>1, <2>4, <2>5, <2>7, <1>3 DEF Single
  <2>9. Recorded'
    <3>1. \A v \in Workers : task[v].pc = "recorded" => v # w /\ task'[v] = task[v]
      BY <1>2, <1>5
    <3>2. task'[w].pc = "recorded" /\ task'[w].job = j BY <1>4, <1>5
    <3>3. \A v \in Workers : task'[v].pc = "recorded" =>
            Etls!Params(task'[v].job) \in executions'
      BY <2>1, <1>3, <1>4, <1>5 DEF Recorded
    <3>4. \A e \in executions' :
            \/ \E r \in runs : Etls!Params(r) = e
            \/ \E v \in Workers : task'[v].pc = "recorded" /\ Etls!Params(task'[v].job) = e
      BY <2>1, <3>1, <3>2, <1>3 DEF Recorded
    <3> QED BY <2>1, <3>3, <3>4, <1>3 DEF Recorded
  <2> QED BY <2>8, <2>9
<1> QED BY <1>6, <1>7 DEF ScheduleInv

\* What is executed was recorded by the worker that executes it, and by no other.
LEMMA ExecuteKeeps ==
  ASSUME ScheduleInv, NEW w \in Workers, Etls!Execute(w) PROVE ScheduleInv'
<1> DEFINE j == task[w].job
<1>1. Forcing BY DEF ScheduleInv
<1>2. task[w].pc = "recorded" /\ j.force \in BOOLEAN
  BY <1>1 DEF Forcing, Etls!Execute, Etls!Idle
<1>3. /\ runs' = runs \cup {j}
      /\ task' = [task EXCEPT ![w] = Etls!Idle]
      /\ UNCHANGED <<all, queue, executions, unsafe>>
  BY DEF Etls!Execute
<1>4. Etls!Idle.pc = "idle" BY DEF Etls!Idle
<1>5. \A v \in Workers : task'[v] = IF v = w THEN Etls!Idle ELSE task[v]
  BY <1>1, <1>3 DEF Forcing
<1>6. Forcing' BY <1>1, <1>2, <1>3, <1>5 DEF Forcing, Busy
<1>7. ASSUME ~unsafe' PROVE Single' /\ Recorded'
  <2>1. Single /\ Recorded BY <1>1, <1>3, <1>7 DEF ScheduleInv, Forcing
  <2>2. \A v \in Workers : Busy(v)' => Busy(v) /\ v # w /\ task'[v] = task[v]
    BY <1>4, <1>5 DEF Busy
  <2>3. \A r \in runs : NotForced(r) \/ NotForced(j) => Etls!Params(r) # Etls!Params(j)
    BY <2>1, <1>2, SameForce DEF Single, NotForced
  <2>4. \A v \in Workers, r \in runs' :
          task'[v].pc = "recorded" /\ NotForced(task'[v].job) =>
            Etls!Params(task'[v].job) # Etls!Params(r)
    BY <2>1, <2>2, <1>2, <1>3 DEF Single, Busy
  <2>5. \A a, b \in runs' : NotForced(a) /\ Etls!Params(a) = Etls!Params(b) => a = b
    BY <2>1, <2>3, <1>3 DEF Single
  <2>6. Single' BY <2>1, <2>2, <2>4, <2>5, <1>3 DEF Single, Busy
  <2>7. Recorded'
    <3>1. \A r \in runs' : Etls!Params(r) \in executions' BY <2>1, <1>2, <1>3 DEF Recorded
    <3>2. \A e \in executions' :
            \/ \E r \in runs' : Etls!Params(r) = e
            \/ \E v \in Workers : task'[v].pc = "recorded" /\ Etls!Params(task'[v].job) = e
      BY <2>1, <1>2, <1>3, <1>5 DEF Recorded
    <3> QED BY <2>1, <2>2, <3>1, <3>2, <1>3 DEF Recorded, Busy
  <2> QED BY <2>6, <2>7
<1> QED BY <1>6, <1>7 DEF ScheduleInv

\* Every step leaves each record of etl_executions to one worker or one execution.
LEMMA ScheduleSteps == ScheduleInv /\ [Etls!Next]_Etls!vars => ScheduleInv'
<1> SUFFICES ASSUME ScheduleInv, [Etls!Next]_Etls!vars PROVE ScheduleInv' OBVIOUS
<1>1. CASE UNCHANGED Etls!vars
  <2>1. all' = all /\ (all.pc = "running" => all.force \in BOOLEAN)
    BY <1>1 DEF Etls!vars, ScheduleInv, Forcing
  <2> QED BY <1>1, <2>1, AskKeeps DEF Etls!vars
<1>2. ASSUME NEW k \in Kinds, NEW r \in Ranges, NEW f \in BOOLEAN,
             NEW us \in {Users} \cup {{u} : u \in Users}, Etls!Ask(k, r, f, us)
      PROVE  ScheduleInv'
  <2>1. all'.force = f BY <1>2 DEF Etls!Ask
  <2> QED BY <1>2, <2>1, AskKeeps DEF Etls!Ask
<1>3. ASSUME NEW u \in Users, Etls!StartJobs(u) PROVE ScheduleInv' BY <1>3, StartJobsKeeps
<1>4. ASSUME NEW u \in Users, Etls!Grant(u) PROVE ScheduleInv'
  <2>1. all' = all /\ (all.pc = "running" => all.force \in BOOLEAN)
    BY <1>4 DEF Etls!Grant, ScheduleInv, Forcing
  <2> QED BY <1>4, <2>1, AskKeeps DEF Etls!Grant
<1>5. CASE Etls!EndAll \/ Etls!AllFails
  <2>1. all'.pc = "idle" BY <1>5 DEF Etls!EndAll, Etls!AllFails, Etls!Idle
  <2> QED BY <1>5, <2>1, AskKeeps DEF Etls!EndAll, Etls!AllFails
<1>6. ASSUME NEW w \in Workers, NEW j \in queue, Etls!LookUp(w, j) PROVE ScheduleInv'
  BY <1>6, LookUpEtlKeeps
<1>7. ASSUME NEW w \in Workers, Etls!Record(w) PROVE ScheduleInv' BY <1>7, RecordEtlKeeps
<1>8. ASSUME NEW w \in Workers, Etls!Execute(w) PROVE ScheduleInv' BY <1>8, ExecuteKeeps
<1>9. ASSUME NEW w \in Workers, Etls!Killed(w) PROVE ScheduleInv'
  BY <1>9 DEF Etls!Killed, ScheduleInv, Forcing, Etls!Idle, Busy
<1> QED BY <1>1, <1>2, <1>3, <1>4, <1>5, <1>6, <1>7, <1>8, <1>9 DEF Etls!Next

\* etl_executions: with no two lookups of the same job at once and no worker killed,
\* an ETL that is not forced is executed once for its window and user, and what is
\* recorded has been executed or is about to be; for any users, kinds, ranges and
\* workers, any calendar and any requests.
THEOREM WindowsRunOnce == Etls!Spec => []Etls!ExecutedOnce
<1>1. ScheduleInv => Etls!ExecutedOnce
  BY DEF ScheduleInv, Single, Recorded, NotForced, Etls!ExecutedOnce, Etls!Params
<1> QED BY <1>1, ScheduleStarts, ScheduleSteps, PTL DEF Etls!Spec

-----------------------------------------------------------------------------
(* The passes of the inactivity check.                                     *)
CONSTANTS Schedulers, Entities, Hour, Timeout, MaxLag, MaxQueued, MaxForced, MaxKills
VARIABLES function, minute, due, rows, age, up, passes, racers, spent
Silence == INSTANCE InactivityCheck

\* What a worker knows of the executions of the hour.
PassTyped ==
  /\ minute \in 0 .. Hour - 1
  /\ rows \in Nat /\ passes \in [Workers -> Nat]
  /\ task = [w \in Workers |-> task[w]]
  /\ \A w \in Workers : task[w].pc \in {"idle", "built"}
        \/ task[w] \in Silence!Pass \cup Silence!Running
\* A regular pass goes on only if its worker found no execution; until the hour has one
\* nothing was passed, and from then on who has still to record its pass is a racer.
PassLooked ==
  /\ rows = 0 => \A w \in Workers : passes[w] = 0
  /\ Silence!OnlyRacersRepeat
  /\ \A w \in Workers : task[w].pc = "looked" /\ ~task[w].force => ~task[w].found
  /\ \A w \in Workers :
       Silence!InRace(w) => passes[w] = 0 /\ (rows > 0 => w \in racers)
PassInv == PassTyped /\ PassLooked

\* No pass has been made and no execution recorded at the start.
LEMMA PassStarts == ASSUME Silence!InactivityAssumption PROVE Silence!Init => PassInv
<1> SUFFICES ASSUME Silence!Init PROVE PassInv OBVIOUS
<1>1. \A w \in Workers : task[w].pc = "idle" BY DEF Silence!Init, Silence!Idle
<1>2. \A w \in Workers : passes[w] = 0 BY DEF Silence!Init
<1> QED
  BY <1>1, <1>2 DEF Silence!Init, PassInv, PassTyped, PassLooked, Silence!InactivityAssumption,
     Silence!OnlyRacersRepeat, Silence!InRace

\* What a worker knows while it makes a pass.
LEMMA TaskKinds ==
  ASSUME PassTyped, NEW w \in Workers
  PROVE  /\ task[w].pc = "looked" => task[w] \in Silence!Pass
         /\ task[w].pc = "recorded" => task[w] \in Silence!Running
BY DEF PassTyped, Silence!Pass, Silence!Running

\* The executions are as they were and no pass has been looked up.
LEMMA NoLook ==
  ASSUME PassInv, UNCHANGED <<minute, rows, passes, racers>>,
         task' = [w \in Workers |-> task'[w]],
         \A w \in Workers : task'[w] = task[w] \/ task'[w].pc \in {"idle", "built"}
  PROVE  PassInv'
<1>1. PassTyped' BY DEF PassInv, PassTyped
<1> QED BY <1>1 DEF PassInv, PassLooked, Silence!OnlyRacersRepeat, Silence!InRace

\* A new hour has no executions, and a pass of the hour before is not current.
LEMMA TickKeeps ==
  ASSUME Silence!InactivityAssumption, PassInv, Silence!Tick PROVE PassInv'
<1> DEFINE ends == minute = Hour - 1
           Next1(w) == [task[w] EXCEPT !.current = @ /\ ~ends, !.lag = @ + 1]
           Next2(w) == [task[w] EXCEPT !.lag = @ + 1]
<1>1. PassTyped BY DEF PassInv
<1>2. /\ minute' = (minute + 1) % Hour
      /\ rows' = (IF ends THEN 0 ELSE rows)
      /\ passes' = (IF ends THEN [w \in Workers |-> 0] ELSE passes)
      /\ racers' = (IF ends THEN {} ELSE racers)
      /\ \A w \in Workers : task[w].pc \in {"looked", "recorded"} => task[w].lag < MaxLag
  BY DEF Silence!Tick
<1>3. minute' \in 0 .. Hour - 1 BY <1>1, <1>2 DEF PassTyped, Silence!InactivityAssumption
<1>4. rows' \in Nat /\ passes' \in [Workers -> Nat] BY <1>1, <1>2 DEF PassTyped
<1>5. task' = [w \in Workers |->
                 CASE task[w].pc = "looked" -> Next1(w)
                   [] task[w].pc = "recorded" -> Next2(w)
                   [] OTHER -> task[w]]
  BY DEF Silence!Tick
<1>6. ASSUME NEW w \in Workers
      PROVE  /\ task'[w].pc \in {"idle", "built"} \/ task'[w] \in Silence!Pass \cup Silence!Running
             /\ task'[w].pc = "looked" =>
                  /\ task[w].pc = "looked"
                  /\ task'[w].force = task[w].force /\ task'[w].found = task[w].found
                  /\ task'[w].current = (task[w].current /\ ~ends)
  <2>1. CASE task[w].pc = "looked"
    <3>1. task[w] \in Silence!Pass /\ task[w].lag < MaxLag BY <1>1, <1>2, <2>1, TaskKinds
    <3>2. ASSUME NEW c \in BOOLEAN, NEW l \in 0 .. MaxLag
          PROVE  [task[w] EXCEPT !.current = c, !.lag = l] \in Silence!Pass
      BY <3>1 DEF Silence!Pass
    <3>3. task[w].lag + 1 \in 0 .. MaxLag
      BY <3>1 DEF Silence!Pass, Silence!InactivityAssumption
    <3>4. (task[w].current /\ ~ends) \in BOOLEAN OBVIOUS
    <3>5. Next1(w) \in Silence!Pass BY <3>2, <3>3, <3>4, Zenon
    <3>6. task'[w] = Next1(w) BY <1>5, <2>1
    <3>7. /\ Next1(w).force = task[w].force /\ Next1(w).found = task[w].found
          /\ Next1(w).current = (task[w].current /\ ~ends)
      BY <3>1, Zenon DEF Silence!Pass
    <3> QED BY <2>1, <3>5, <3>6, <3>7
  <2>2. CASE task[w].pc = "recorded"
    <3>1. task[w] \in Silence!Running /\ task[w].lag < MaxLag BY <1>1, <1>2, <2>2, TaskKinds
    <3>2. Next2(w) \in Silence!Running
      BY <3>1 DEF Silence!Running, Silence!InactivityAssumption
    <3>3. task'[w] = Next2(w) BY <1>5, <2>2
    <3>4. Next2(w).pc = "recorded" BY <3>2 DEF Silence!Running
    <3> QED BY <3>2, <3>3, <3>4
  <2>3. CASE task[w].pc \notin {"looked", "recorded"}
    <3>1. task'[w] = task[w] BY <1>5, <2>3
    <3> QED BY <1>1, <2>3, <3>1 DEF PassTyped
  <2> QED BY <2>1, <2>2, <2>3
<1>7. PassTyped' BY <1>3, <1>4, <1>5, <1>6 DEF PassTyped
<1>8. PassLooked'
  <2>1. ASSUME NEW w \in Workers, task'[w].pc = "looked", ~task'[w].force PROVE ~task'[w].found
    BY <1>6, <2>1 DEF PassInv, PassLooked
  <2>2. CASE ends
    <3>1. \A w \in Workers : passes'[w] = 0 BY <1>2, <2>2
    <3>2. \A w \in Workers : ~Silence!InRace(w)' BY <1>6, <2>2 DEF Silence!InRace
    <3> QED BY <2>1, <2>2, <3>1, <3>2 DEF PassLooked, Silence!OnlyRacersRepeat
  <2>3. CASE ~ends
    <3>1. UNCHANGED <<rows, passes, racers>> BY <1>2, <2>3
    <3>2. \A w \in Workers : Silence!InRace(w)' => Silence!InRace(w)
      BY <1>6 DEF Silence!InRace
    <3> QED BY <2>1, <3>1, <3>2 DEF PassInv, PassLooked, Silence!OnlyRacersRepeat
  <2> QED BY <2>2, <2>3
<1> QED BY <1>7, <1>8 DEF PassInv

\* A regular pass goes on only if the hour has no execution yet.
LEMMA LookUpPassKeeps ==
  ASSUME Silence!InactivityAssumption, PassInv, NEW w \in Workers, NEW kind \in {"regular",
         "force"},
         Silence!LookUp(w, kind)
  PROVE  PassInv'
<1> DEFINE new == [pc |-> "looked", lag |-> 0, force |-> kind = "force",
                   found |-> Silence!Found, current |-> TRUE]
           Skipped == Silence!Found /\ kind = "regular"
<1>1. PassTyped BY DEF PassInv
<1>2. /\ Skipped => task' = task
      /\ ~Skipped => task' = [task EXCEPT ![w] = new]
      /\ UNCHANGED <<minute, rows, passes, racers>>
  BY DEF Silence!LookUp
<1>3. new \in Silence!Pass
  <2>1. Silence!Found \in BOOLEAN /\ (kind = "force") \in BOOLEAN BY DEF Silence!Found
  <2>2. 0 \in 0 .. MaxLag BY DEF Silence!InactivityAssumption
  <2> QED BY <2>1, <2>2 DEF Silence!Pass
<1>4. CASE Skipped
  BY <1>2, <1>4 DEF PassInv, PassTyped, PassLooked, Silence!OnlyRacersRepeat, Silence!InRace
<1>5. CASE ~Skipped
  <2>1. new.pc = "looked" /\ new.found = Silence!Found /\ new.force = (kind = "force") OBVIOUS
  <2>2. ~new.force => ~new.found /\ rows = 0
    <3>1. ~new.force => ~Silence!Found BY <2>1, <1>5
    <3>2. ~new.force => ~new.found BY <2>1, <3>1, Zenon
    <3>3. ~Silence!Found => rows = 0 BY <1>1 DEF Silence!Found, PassTyped
    <3> HIDE DEF new
    <3> QED BY <3>1, <3>2, <3>3
  <2> HIDE DEF new
  <2>3. PassTyped' BY <1>1, <1>2, <1>3, <1>5 DEF PassTyped
  <2>4. \A v \in Workers : task'[v] = task[v] \/ task'[v] = new
    BY <1>1, <1>2, <1>5 DEF PassTyped
  <2>5. UNCHANGED <<rows, passes, racers>> BY <1>2
  <2>6. ASSUME NEW v \in Workers
        PROVE  /\ task'[v].pc = "looked" /\ ~task'[v].force => ~task'[v].found
               /\ Silence!InRace(v)' => passes'[v] = 0 /\ (rows' > 0 => v \in racers')
    <3>1. CASE task'[v] = task[v]
      BY <2>5, <3>1 DEF PassInv, PassLooked, Silence!InRace
    <3>2. CASE task'[v] = new
      BY <1>1, <2>2, <2>5, <3>2 DEF PassInv, PassTyped, PassLooked, Silence!InRace
    <3> QED BY <2>4, <3>1, <3>2
  <2> QED BY <2>3, <2>5, <2>6 DEF PassInv, PassLooked, Silence!OnlyRacersRepeat
<1> QED BY <1>4, <1>5

\* A worker records its pass: the first of the hour makes racers of those under way, and a
\* later one was of a racer.
LEMMA RecordPassKeeps ==
  ASSUME Silence!InactivityAssumption, PassInv, NEW w \in Workers,
         Silence!Record(w)
  PROVE  PassInv'
<1> DEFINE t == task[w]
           new == [pc |-> "recorded", lag |-> t.lag]
<1>1. PassTyped BY DEF PassInv
<1>2. t \in Silence!Pass /\ t.pc = "looked" BY <1>1, TaskKinds DEF Silence!Record
<1>3. /\ rows' = IF ~t.found /\ t.current THEN rows + 1 ELSE rows
      /\ passes' = IF ~t.force /\ t.current THEN [passes EXCEPT ![w] = @ + 1] ELSE passes
      /\ racers' = IF rows = 0 /\ rows' > 0 THEN {v \in Workers : Silence!InRace(v)} ELSE racers
      /\ task' = [task EXCEPT ![w] = new]
      /\ UNCHANGED minute
  BY DEF Silence!Record
<1>4. new \in Silence!Running BY <1>2 DEF Silence!Pass, Silence!Running
<1>5. new.pc = "recorded" OBVIOUS
<1>6. rows' \in Nat /\ passes' \in [Workers -> Nat] BY <1>1, <1>3 DEF PassTyped
<1> HIDE DEF new
<1>7. PassTyped' BY <1>1, <1>3, <1>4, <1>6 DEF PassTyped
<1>8. /\ task'[w].pc = "recorded"
      /\ \A v \in Workers : v # w => task'[v] = task[v]
  BY <1>1, <1>3, <1>5 DEF PassTyped
<1>9. Silence!InRace(w) <=> t.current /\ ~t.force BY <1>2 DEF Silence!InRace
<1>10. Silence!InRace(w) => rows' > 0 /\ rows' = rows + 1
  BY <1>1, <1>2, <1>3, <1>9 DEF PassInv, PassTyped, PassLooked
<1>11. /\ passes'[w] = IF Silence!InRace(w) THEN passes[w] + 1 ELSE passes[w]
       /\ \A v \in Workers : v # w => passes'[v] = passes[v]
  BY <1>1, <1>2, <1>3, <1>9 DEF PassTyped, Silence!Pass
<1>12. rows = 0 /\ rows' > 0 => \A v \in Workers : v \in racers' <=> Silence!InRace(v)
  BY <1>3
<1>13. ~(rows = 0 /\ rows' > 0) => racers' = racers BY <1>3
<1>14. rows' = 0 => rows = 0 BY <1>1, <1>3 DEF PassTyped
<1>15. rows' = 0 => \A v \in Workers : passes'[v] = 0
  BY <1>6, <1>10, <1>11, <1>14 DEF PassInv, PassLooked
<1>16. ASSUME NEW v \in Workers PROVE passes'[v] <= IF v \in racers' THEN 1 ELSE 0
  <2>1. passes[v] <= (IF v \in racers THEN 1 ELSE 0) /\ passes[v] \in Nat
    BY <1>1 DEF PassInv, PassTyped, PassLooked, Silence!OnlyRacersRepeat
  <2>2. rows = 0 => passes[v] = 0 BY DEF PassInv, PassLooked
  <2>3. Silence!InRace(v) => passes[v] = 0 /\ (rows > 0 => v \in racers)
    BY DEF PassInv, PassLooked
  <2>4. passes'[v] = (IF v = w /\ Silence!InRace(w) THEN passes[v] + 1 ELSE passes[v])
    BY <1>11
  <2>5. rows \in Nat BY <1>1 DEF PassTyped
  <2>6. CASE v = w /\ Silence!InRace(w)
    BY <1>10, <1>12, <1>13, <2>3, <2>4, <2>5, <2>6
  <2>7. CASE ~(v = w /\ Silence!InRace(w))
    BY <1>13, <2>1, <2>2, <2>4, <2>7
  <2> QED BY <2>6, <2>7
<1>17. ASSUME NEW v \in Workers
       PROVE  /\ task'[v].pc = "looked" /\ ~task'[v].force => ~task'[v].found
              /\ Silence!InRace(v)' => passes'[v] = 0 /\ (rows' > 0 => v \in racers')
  <2>1. CASE v = w BY <1>8, <2>1 DEF Silence!InRace
  <2>2. CASE v # w
    <3>1. task'[v] = task[v] /\ passes'[v] = passes[v] BY <1>8, <1>11, <2>2
    <3>2. Silence!InRace(v)' <=> Silence!InRace(v) BY <3>1 DEF Silence!InRace
    <3>3. rows \in Nat BY <1>1 DEF PassTyped
    <3> QED BY <1>6, <1>12, <1>13, <3>1, <3>2, <3>3 DEF PassInv, PassLooked
  <2> QED BY <2>1, <2>2
<1> QED BY <1>7, <1>15, <1>16, <1>17 DEF PassInv, PassLooked, Silence!OnlyRacersRepeat

\* Every step keeps the regular passes of the hour to those that raced.
LEMMA PassSteps ==
  ASSUME Silence!InactivityAssumption
  PROVE  PassInv /\ [Silence!Next]_Silence!vars => PassInv'
<1> SUFFICES ASSUME PassInv, [Silence!Next]_Silence!vars PROVE PassInv' OBVIOUS
<1>1. CASE UNCHANGED Silence!vars
  BY <1>1 DEF Silence!vars, PassInv, PassTyped, PassLooked, Silence!OnlyRacersRepeat,
     Silence!InRace
<1>2. CASE Silence!Tick BY <1>2, TickKeeps
<1>3. CASE \/ \E s \in Schedulers : Silence!Beat(s)
           \/ Silence!Force
           \/ \E e \in Entities : Silence!Report(e)
  <2> USE DEF PassInv, PassTyped, PassLooked, Silence!OnlyRacersRepeat, Silence!InRace
  <2>1. ASSUME NEW s \in Schedulers, Silence!Beat(s) PROVE PassInv' BY <2>1 DEF Silence!Beat
  <2>2. CASE Silence!Force BY <2>2 DEF Silence!Force
  <2>3. ASSUME NEW e \in Entities, Silence!Report(e) PROVE PassInv'
    BY <2>3 DEF Silence!Report
  <2> QED BY <1>3, <2>1, <2>2, <2>3
<1>4. ASSUME NEW w \in Workers, Silence!LookUp(w, "regular") \/ Silence!LookUp(w, "force")
      PROVE  PassInv'
  BY <1>4, LookUpPassKeeps
<1>5. ASSUME NEW w \in Workers, Silence!Record(w) PROVE PassInv' BY <1>5, RecordPassKeeps
<1>6. ASSUME NEW w \in Workers, Silence!Build(w) PROVE PassInv'
  <2> DEFINE new == [pc |-> "built", up |-> up,
                     active |-> Silence!Combine({e \in Entities :
                       Silence!Expired(age[e], task[w].lag)})]
  <2>1. task' = [task EXCEPT ![w] = new] /\ UNCHANGED <<minute, rows, passes, racers>>
    BY <1>6 DEF Silence!Build
  <2>2. new.pc = "built" OBVIOUS
  <2> HIDE DEF new
  <2>3. /\ task' = [v \in Workers |-> task'[v]]
        /\ \A v \in Workers : task'[v] = task[v] \/ task'[v].pc = "built"
    BY <2>1, <2>2 DEF PassInv, PassTyped
  <2> QED BY <2>1, <2>3, NoLook
<1>7. ASSUME NEW w \in Workers, Silence!Update(w) \/ Silence!Killed(w) PROVE PassInv'
  <2>1. task' = [task EXCEPT ![w] = Silence!Idle] /\ UNCHANGED <<minute, rows, passes, racers>>
    BY <1>7 DEF Silence!Update, Silence!Killed
  <2>2. /\ task' = [v \in Workers |-> task'[v]]
        /\ \A v \in Workers : task'[v] = task[v] \/ task'[v].pc = "idle"
    BY <2>1 DEF PassInv, PassTyped, Silence!Idle
  <2> QED BY <2>1, <2>2, NoLook
<1> QED BY <1>2, <1>1, <1>3, <1>4, <1>5, <1>6, <1>7 DEF Silence!Next, Silence!Step

\* check_inactivity_alarms: however many schedulers and workers overlap, and whatever is
\* forced or killed, once the hour has an execution its regular passes are those that
\* were under way when it was recorded, one for each worker; for any hour, lag, entities
\* and timeout.
THEOREM RepeatsAreRaces ==
  ASSUME Silence!InactivityAssumption PROVE Silence!Spec => []Silence!OnlyRacersRepeat
<1>1. PassInv => Silence!OnlyRacersRepeat BY DEF PassInv, PassLooked
<1> QED BY <1>1, PassStarts, PassSteps, PTL DEF Silence!Spec

-----------------------------------------------------------------------------
(* The location that the entities of a device share.                       *)
CONSTANTS Places, None, MaxReports, MaxFaults
VARIABLES now, known, job, series, jobs, faults, newest, past
Locations == INSTANCE LocationSync

\* What the devices notify and a worker handles, and the row each entity has, while no
\* writers overlapped.
Notification == [entity : Entities, attrs : Locations!Attributes, sent : Locations!Time]
Handling == [pc : {"sync", "commit", "dispatch"}, n : Notification, loc : Locations!Location,
             seen : [Entities -> Locations!Location], id : [Entities -> {0, 1}]]
Handled(w) == job[w] # Locations!Idle
Std(n) == Locations!Standardized(n.attrs)
OneEach(e) == rows[e] = <<>> \/ \E l \in Locations!Location : rows[e] = <<l>>
Shaped ==
  /\ now \in Locations!Time /\ newest \in Locations!Location
  /\ known \in [Entities -> Locations!Attributes]
  /\ queue \subseteq Notification
  /\ jobs \subseteq [entity : Entities, location : Locations!Location]
  /\ \A w \in Workers : Handled(w) => job[w] \in Handling
  /\ rows = [e \in Entities |-> rows[e]] /\ \A e \in Entities : OneEach(e)

\* One location was told at each instant.
Real(at, l) == l.ts <= now /\ l.at = at[l.ts]
RealAttrs(at, a) == Real(at, a.location) /\ Real(at, a.latlon)
Told(at) ==
  /\ Real(at, newest)
  /\ \A e \in Entities : RealAttrs(at, known[e])
  /\ \A n \in queue : RealAttrs(at, n.attrs)
  /\ \A w \in Workers : Handled(w) => RealAttrs(at, job[w].n.attrs) /\ Real(at, job[w].loc)
  /\ \A e \in Entities : rows[e] # <<>> => Real(at, rows[e][1])
  /\ \A r \in jobs : Real(at, r.location)
OnePlace == \E at \in [Locations!Time -> Places \cup {None}] : at[0] = None /\ Told(at)

\* The newest location is as new as any, and it is not lost.
Under ==
  /\ \A n \in queue : Std(n).ts <= newest.ts
  /\ \A w \in Workers : Handled(w) =>
       Std(job[w].n).ts <= newest.ts /\ job[w].loc.ts <= newest.ts
  /\ \A e \in Entities : rows[e] # <<>> => rows[e][1].ts <= newest.ts
  /\ \A r \in jobs : r.location.ts <= newest.ts
Somewhere ==
  \/ newest = Locations!Unknown
  \/ \E n \in queue : newest = Std(n)
  \/ \E w \in Workers : Handled(w) /\ newest = Std(job[w].n)
  \/ \E e \in Entities : rows[e] = <<newest>>
  \/ \E r \in jobs : newest = r.location

\* One notification, or the realtime job it started, is at work.
AtWork ==
  /\ \A v, w \in Workers : Handled(v) /\ Handled(w) => v = w
  /\ jobs # {} => \A w \in Workers : ~Handled(w)
  /\ \A r, s \in jobs : r = s

\* Its location is as new as those of the rows, and what it has written so far.
Over(l) == \A e \in Entities : rows[e] # <<>> => rows[e][1].ts <= l.ts
Given(x, l) == \A e \in Entities \ {x} :
  \E m \in Locations!Location : rows[e] = <<m>> /\ m.at = l.at
Seen(j) == \A e \in Entities : /\ j.id[e] = 0 <=> rows[e] = <<>>
                               /\ rows[e] # <<>> => j.seen[e] = rows[e][1]
Chain ==
  /\ \A w \in Workers : Handled(w) =>
       /\ Over(job[w].loc) /\ Std(job[w].n).ts <= job[w].loc.ts
       /\ job[w].pc \in {"sync", "commit"} => Seen(job[w])
       /\ job[w].pc = "dispatch" /\ job[w].loc # Locations!Unknown =>
            Given(job[w].n.entity, job[w].loc)
  /\ \A r \in jobs : Over(r.location) /\ Given(r.entity, r.location)

Done == Locations!Quiet /\ newest # Locations!Unknown =>
  \A e \in Entities : \E m \in Locations!Location :
          rows[e] = <<m>> /\ m.at = newest.at

Calm == ~past.raced /\ ~past.older /\ ~past.missed
CalmInv == Shaped /\ OnePlace /\ Under /\ Somewhere /\ AtWork /\ Chain /\ Done
LocationInv ==
  /\ job = [w \in Workers |-> job[w]]
  /\ past \in [raced : BOOLEAN, older : BOOLEAN, missed : BOOLEAN, gap : BOOLEAN]
  /\ Calm => CalmInv

\* A location is a value and an instant; Unknown is of the instant before all.
LEMMA Records ==
  /\ \A l \in Locations!Location : l = [at |-> l.at, ts |-> l.ts] /\ l.ts \in Nat
  /\ Locations!Unknown.ts = 0 /\ Locations!Unknown.at = None
BY DEF Locations!Location, Locations!Unknown, Locations!Time

\* A location is what was told at its instant.
LEMMA SameLocation ==
  ASSUME NEW at, NEW l \in Locations!Location, NEW m \in Locations!Location, Real(at, l),
         Real(at, m), l.ts = m.ts
  PROVE  l = m
BY DEF Real, Locations!Location

\* Nothing was told before the first report.
LEMMA UnknownIsZero ==
  ASSUME NEW at, at[0] = None, NEW l \in Locations!Location, Real(at, l), l.ts = 0
  PROVE  l = Locations!Unknown
BY DEF Real, Locations!Location, Locations!Unknown

\* LocationStandarizer takes one of the two attributes of the notification.
LEMMA StandardizedIsOne ==
  ASSUME NEW n PROVE Std(n) = n.attrs.location \/ Std(n) = n.attrs.latlon
BY DEF Std, Locations!Standardized

\* So what it takes was told.
LEMMA StandardizedIsReal ==
  ASSUME NEW n \in Notification, NEW at, RealAttrs(at, n.attrs)
  PROVE  Std(n) \in Locations!Location /\ Real(at, Std(n))
BY StandardizedIsOne DEF Notification, Locations!Attributes, RealAttrs

\* The one row of an entity.
LEMMA OneRowEach ==
  ASSUME NEW e \in Entities, OneEach(e)
  PROVE  /\ rows[e] # <<>> => /\ rows[e][1] \in Locations!Location /\ rows[e] = <<rows[e][1]>>
                              /\ DOMAIN rows[e] = {1} /\ Len(rows[e]) = 1
         /\ rows[e] = <<>> => DOMAIN rows[e] = {}
<1>1. CASE rows[e] = <<>> BY <1>1
<1>2. CASE rows[e] # <<>>
  <2>1. PICK l \in Locations!Location : rows[e] = <<l>> BY <1>2 DEF OneEach
  <2>2. DOMAIN <<l>> = {1} OBVIOUS
  <2>3. <<l>>[1] = l /\ Len(<<l>>) = 1 OBVIOUS
  <2>4. rows[e] = <<rows[e][1]>> BY <2>1, <2>3
  <2> QED BY <1>2, <2>1, <2>2, <2>3, <2>4
<1> QED BY <1>1, <1>2

\* get_related_entities_attrs finds that row.
LEMMA RelatedRow ==
  ASSUME NEW e \in Entities, OneEach(e)
  PROVE  /\ rows[e] = <<>> => Locations!Related(e) = 0
         /\ rows[e] # <<>> => Locations!Related(e) = 1
<1>1. CASE rows[e] = <<>> BY <1>1, OneRowEach DEF Locations!Related
<1>2. CASE rows[e] # <<>>
  <2>1. DOMAIN rows[e] = {1} /\ rows[e][1].ts \in Int BY <1>2, OneRowEach, Records
  <2>2. {i \in DOMAIN rows[e] :
          \A j \in DOMAIN rows[e] : rows[e][i].ts >= rows[e][j].ts} = {1}
    BY <2>1
  <2>3. (CHOOSE i \in {1} : \A j \in {1} : i >= j) = 1 OBVIOUS
  <2> QED BY <1>2, <2>2, <2>3 DEF Locations!Related
<1> QED BY <1>1, <1>2

\* The instants that the invariant compares are numbers.
LEMMA TimesAreNumbers ==
  ASSUME Shaped
  PROVE  /\ newest.ts \in Nat
         /\ \A m \in queue : Std(m).ts \in Nat
         /\ \A w \in Workers : Handled(w) => Std(job[w].n).ts \in Nat /\ job[w].loc.ts \in Nat
         /\ \A x \in Entities : rows[x] # <<>> => rows[x][1].ts \in Nat
         /\ \A r \in jobs : r.location.ts \in Nat
<1>1. \A m \in Notification : Std(m) \in Locations!Location
  BY StandardizedIsOne DEF Notification, Locations!Attributes
<1>2. \A w \in Workers : Handled(w) =>
        job[w].n \in Notification /\ job[w].loc \in Locations!Location
  BY DEF Shaped, Handling
<1>3. \A x \in Entities : rows[x] # <<>> => rows[x][1] \in Locations!Location
  BY OneRowEach DEF Shaped
<1>4. \A l \in Locations!Location : l.ts \in Nat BY Records
<1>5. \A r \in jobs : r.location \in Locations!Location BY DEF Shaped
<1> QED BY <1>1, <1>2, <1>3, <1>4, <1>5 DEF Shaped

\* At first nothing is known of any entity.
LEMMA LocationStarts ==
  ASSUME Locations!LocationAssumption
  PROVE  Locations!Init => LocationInv
<1> SUFFICES ASSUME Locations!Init PROVE LocationInv OBVIOUS
<1> USE DEF Locations!Init
<1>1. 0 \in Locations!Time /\ Locations!Unknown \in Locations!Location
  BY DEF Locations!LocationAssumption, Locations!Time, Locations!Location, Locations!Unknown
<1>2. \A w \in Workers : ~Handled(w) BY DEF Handled
<1>3. [location |-> Locations!Unknown, latlon |-> Locations!Unknown] \in Locations!Attributes
  BY <1>1 DEF Locations!Attributes
<1>4. Shaped BY <1>1, <1>2, <1>3 DEF Shaped, OneEach
<1>5. OnePlace
  <2>1. [t \in Locations!Time |-> None] \in [Locations!Time -> Places \cup {None}] OBVIOUS
  <2>2. Real([t \in Locations!Time |-> None], Locations!Unknown)
    BY <1>1 DEF Real, Locations!Unknown
  <2>3. \A e \in Entities : RealAttrs([t \in Locations!Time |-> None], known[e])
    BY <2>2 DEF RealAttrs
  <2>4. Told([t \in Locations!Time |-> None]) BY <1>2, <2>2, <2>3 DEF Told
  <2> QED BY <1>1, <2>1, <2>4 DEF OnePlace
<1>6. Under /\ Somewhere /\ AtWork /\ Chain /\ Done
  BY <1>2 DEF Under, Somewhere, AtWork, Chain, Done
<1> QED BY <1>4, <1>5, <1>6 DEF LocationInv, CalmInv

\* A report tells one location at a new instant, or none.
LEMMA ReportKeeps ==
  ASSUME Locations!LocationAssumption, LocationInv, NEW e \in Entities, NEW attrs,
         NEW p \in Places \cup {None},
         Calm => /\ attrs \in Locations!Attributes
                 /\ \A l \in {attrs.location, attrs.latlon} :
                      \/ l \in {known[e].location, known[e].latlon}
                      \/ l = [at |-> p, ts |-> now + 1],
         Locations!Report(e, attrs)
  PROVE  LocationInv'
<1>0. PICK n : n = [entity |-> e, attrs |-> attrs, sent |-> now'] OBVIOUS
<1>1. /\ now < MaxReports /\ now' = now + 1
      /\ known' = [known EXCEPT ![e] = attrs]
      /\ queue' = queue \cup {n}
      /\ newest' = IF Std(n).ts > newest.ts THEN Std(n) ELSE newest
      /\ UNCHANGED <<job, rows, series, jobs, faults, past>>
  BY <1>0 DEF Locations!Report, Std
<1>2. SUFFICES ASSUME Calm' PROVE CalmInv' BY <1>1 DEF LocationInv
<1>3. CalmInv BY <1>1, <1>2 DEF LocationInv, Calm
<1>4. now \in Nat /\ now' \in Locations!Time /\ attrs \in Locations!Attributes
  BY <1>1, <1>2, <1>3 DEF Calm, CalmInv, Shaped, Locations!Time, Locations!LocationAssumption
<1>5. n \in Notification /\ n.attrs = attrs /\ n.entity = e BY <1>0, <1>4 DEF Notification
<1>6. Std(n) \in Locations!Location BY <1>4, <1>5, StandardizedIsOne DEF Locations!Attributes
<1>7. Shaped' BY <1>1, <1>3, <1>4, <1>5, <1>6 DEF CalmInv, Shaped, Handled, OneEach
<1>8. OnePlace'
  <2>1. PICK at \in [Locations!Time -> Places \cup {None}] : at[0] = None /\ Told(at)
    BY <1>3 DEF CalmInv, OnePlace
  <2>2. PICK more \in [Locations!Time -> Places \cup {None}] :
          /\ more[0] = None /\ more[now + 1] = p
          /\ \A t \in Locations!Time : t <= now => more[t] = at[t]
    <3> DEFINE extended == [at EXCEPT ![now + 1] = p]
    <3>1. /\ extended \in [Locations!Time -> Places \cup {None}]
          /\ extended[0] = None /\ extended[now + 1] = p
          /\ \A t \in Locations!Time : t <= now => extended[t] = at[t]
      BY <1>1, <1>4, <2>1 DEF Locations!Time
    <3> HIDE DEF extended
    <3> QED BY <3>1
  <2>5. \A l \in Locations!Location : Real(at, l) => Real(more, l)'
    BY <1>1, <1>4, <2>2 DEF Real, Locations!Location, Locations!Time
  <2>6. \A a \in Locations!Attributes : RealAttrs(at, a) => RealAttrs(more, a)'
    BY <2>5 DEF RealAttrs, Locations!Attributes
  <2>7. RealAttrs(more, attrs)'
    <3>1. ASSUME NEW l \in {attrs.location, attrs.latlon} PROVE Real(more, l)'
      <4>1. CASE l \in {known[e].location, known[e].latlon}
        <5>1. l \in Locations!Location /\ Real(at, l)
          BY <4>1, <1>3, <2>1 DEF CalmInv, Shaped, Locations!Attributes, Told, RealAttrs
        <5> QED BY <5>1, <2>5
      <4>2. CASE l = [at |-> p, ts |-> now + 1] BY <4>2, <1>1, <1>4, <2>2 DEF Real
      <4> QED BY <1>1, <1>2, <4>1, <4>2 DEF Calm
    <3> QED BY <3>1 DEF RealAttrs
  <2>8. Real(more, Std(n))' BY <1>5, <2>7, StandardizedIsOne DEF RealAttrs
  <2>9. Told(more)'
    <3>1. Real(more, newest)' BY <1>1, <1>3, <2>1, <2>5, <2>8 DEF CalmInv, Shaped, Told
    <3>2. \A x \in Entities : RealAttrs(more, known[x])'
      BY <1>1, <1>3, <2>1, <2>6, <2>7 DEF CalmInv, Shaped, Told
    <3>3. \A m \in queue' : RealAttrs(more, m.attrs)'
      BY <1>1, <1>3, <1>5, <2>1, <2>6, <2>7 DEF CalmInv, Shaped, Told, Notification
    <3>4. \A w \in Workers : Handled(w)' =>
             RealAttrs(more, job[w].n.attrs)' /\ Real(more, job[w].loc)'
      BY <1>1, <1>3, <2>1, <2>5, <2>6
      DEF CalmInv, Shaped, Told, Handled, Handling, Notification
    <3>5. \A x \in Entities : rows'[x] # <<>> => Real(more, rows[x][1])'
      BY <1>1, <1>3, <2>1, <2>5, OneRowEach DEF CalmInv, Shaped, Told
    <3>6. \A r \in jobs' : Real(more, r.location)'
      BY <1>1, <1>3, <2>1, <2>5 DEF CalmInv, Shaped, Told
    <3> QED BY <3>1, <3>2, <3>3, <3>4, <3>5, <3>6 DEF Told, Real, RealAttrs
  <2> QED BY <2>2, <2>9 DEF OnePlace, Locations!Time
<1>9. newest'.ts >= newest.ts /\ newest'.ts >= Std(n).ts /\ newest.ts \in Nat
  BY <1>1, <1>3, <1>6, Records DEF CalmInv, Shaped
<1>10. Under'
  <2>1. /\ \A m \in queue : Std(m).ts \in Nat
        /\ \A w \in Workers : Handled(w) => Std(job[w].n).ts \in Nat /\ job[w].loc.ts \in Nat
        /\ \A x \in Entities : rows[x] # <<>> => rows[x][1].ts \in Nat
        /\ \A r \in jobs : r.location.ts \in Nat
    BY <1>3, TimesAreNumbers DEF CalmInv
  <2> QED BY <1>1, <1>3, <1>6, <1>9, <2>1, Records DEF CalmInv, Under, Handled, Std
<1>11. Somewhere'
  <2>1. CASE newest' = newest BY <2>1, <1>1, <1>3 DEF CalmInv, Somewhere, Handled, Std
  <2>2. CASE newest' = Std(n) BY <2>2, <1>1 DEF Somewhere, Std
  <2> QED BY <1>1, <2>1, <2>2
<1>12. AtWork' BY <1>1, <1>3 DEF CalmInv, AtWork, Handled
<1>13. Chain' BY <1>1, <1>3 DEF CalmInv, Chain, Handled, Over, Seen, Given, Std
<1>14. Done' BY <1>1 DEF Done, Locations!Quiet
<1> QED BY <1>7, <1>8, <1>10, <1>11, <1>12, <1>13, <1>14 DEF CalmInv

\* What the processors choose is as new as the rows of the others, and was told.
LEMMA LatestOfOthers ==
  ASSUME Shaped, NEW e \in Entities, NEW l \in Locations!Latest(e)
  PROVE  /\ l = Locations!Unknown \/ \E x \in Entities : rows[x] # <<>> /\ l = rows[x][1]
         /\ \A x \in Entities \ {e} : rows[x] # <<>> => rows[x][1].ts <= l.ts
<1>1. \A x \in Entities : OneEach(x) BY DEF Shaped
<1>2. \A x \in Entities : rows[x] # <<>> =>
         rows[x][Locations!Related(x)] = rows[x][1] /\ rows[x][1] \in Locations!Location
  BY <1>1, RelatedRow, OneRowEach
<1> DEFINE found == {rows[x][Locations!Related(x)] :
      x \in {y \in Entities \ {e} : rows[y] # <<>>}}
<1>3. l \in IF found = {} THEN {Locations!Unknown} ELSE {m \in found :
        \A k \in found : m.ts >= k.ts}
  BY DEF Locations!Latest
<1>4. \A x \in Entities \ {e} : rows[x] # <<>> => rows[x][1] \in found BY <1>2
<1>5. \A m \in found : \E x \in Entities :
        rows[x] # <<>> /\ m = rows[x][1] /\ m \in Locations!Location
  BY <1>2
<1> HIDE DEF found
<1>6. CASE found = {} BY <1>3, <1>4, <1>6
<1>7. CASE found # {}
  <2>1. l \in found /\ \A k \in found : l.ts >= k.ts BY <1>3, <1>7
  <2>2. \A k \in found : k.ts \in Nat BY <1>5, Records
  <2> QED BY <1>4, <1>5, <2>1, <2>2
<1> QED BY <1>6, <1>7

\* The processors choose a location that is as new as all the rows, their own too.
LEMMA ProcessKeeps ==
  ASSUME Locations!LocationAssumption, LocationInv, NEW w \in Workers, NEW n \in queue,
         Locations!Process(w, n)
  PROVE  LocationInv'
<1> DEFINE e == n.entity
<1>1. PICK latest \in Locations!Latest(e) :
        LET chosen == Locations!Chosen(Std(n), latest) IN
        /\ job' = [job EXCEPT ![w] =
             [pc |-> IF chosen = Locations!Unknown THEN "dispatch"
                 ELSE "sync", n |-> n, loc |-> chosen,
              seen |-> [x \in Entities |-> IF rows[x] = <<>> THEN Locations!Unknown
                  ELSE rows[x][Locations!Related(x)]],
              id |-> [x \in Entities |-> Locations!Related(x)]]]
        /\ past' = [past EXCEPT !.raced = @ \/ jobs # {} \/ \E v \in Workers :
             job[v] # Locations!Idle,
                                !.older = @ \/ chosen.ts < Locations!Newest(e)]
  BY DEF Locations!Process, Std
<1>2. PICK chosen : chosen = Locations!Chosen(Std(n), latest) OBVIOUS
<1>3. PICK new : new = 
        [pc |-> IF chosen = Locations!Unknown THEN "dispatch" ELSE "sync", n |-> n, loc |-> chosen,
         seen |-> [x \in Entities |-> IF rows[x] = <<>> THEN Locations!Unknown
             ELSE rows[x][Locations!Related(x)]],
         id |-> [x \in Entities |-> Locations!Related(x)]]
  OBVIOUS
<1>4. /\ job' = [job EXCEPT ![w] = new]
      /\ past' = [past EXCEPT !.raced = @ \/ jobs # {} \/ \E v \in Workers :
           job[v] # Locations!Idle,
                              !.older = @ \/ chosen.ts < Locations!Newest(e)]
      /\ queue' = queue \ {n}
      /\ UNCHANGED <<now, known, rows, series, jobs, faults, newest>>
  BY <1>1, <1>2, <1>3 DEF Locations!Process
<1> DEFINE busy == \E v \in Workers : job[v] # Locations!Idle
<1>5. /\ job' = [v \in Workers |-> job'[v]] /\ job'[w] = new
      /\ \A v \in Workers : v # w => job'[v] = job[v]
      /\ past' \in [raced : BOOLEAN, older : BOOLEAN, missed : BOOLEAN, gap : BOOLEAN]
  <2>1. job = [v \in Workers |-> job[v]]
        /\ past \in [raced : BOOLEAN, older : BOOLEAN, missed : BOOLEAN, gap : BOOLEAN]
    BY DEF LocationInv
  <2>2. (jobs # {} \/ busy) \in BOOLEAN /\ (chosen.ts < Locations!Newest(e)) \in BOOLEAN OBVIOUS
  <2>3. past' \in [raced : BOOLEAN, older : BOOLEAN, missed : BOOLEAN, gap : BOOLEAN]
    BY <1>4, <2>1, Zenon
  <2> QED BY <1>4, <2>1, <2>3
<1>6. SUFFICES ASSUME Calm' PROVE CalmInv' BY <1>5 DEF LocationInv
<1>7. /\ Calm /\ jobs = {} /\ \A v \in Workers : ~Handled(v)
      /\ ~(chosen.ts < Locations!Newest(e))
  <2>1. past \in [raced : BOOLEAN, older : BOOLEAN, missed : BOOLEAN, gap : BOOLEAN]
    BY DEF LocationInv
  <2>2. /\ past'.raced = (past.raced \/ jobs # {} \/ busy)
        /\ past'.older = (past.older \/ chosen.ts < Locations!Newest(e))
        /\ past'.missed = past.missed
    BY <1>4, <2>1, Zenon
  <2> HIDE DEF busy
  <2>3. ~busy /\ jobs = {} /\ Calm /\ ~(chosen.ts < Locations!Newest(e))
    BY <1>6, <2>2 DEF Calm
  <2> QED BY <2>3 DEF busy, Handled
<1>8. CalmInv BY <1>7 DEF LocationInv
<1>9. /\ n \in Notification /\ e \in Entities /\ Std(n) \in Locations!Location
      /\ latest \in Locations!Location /\ chosen \in Locations!Location
      /\ chosen \in {Std(n), latest} /\ Std(n).ts <= chosen.ts /\ latest.ts <= chosen.ts
      /\ chosen.ts <= newest.ts
      /\ Over(chosen)
  <2>1. n \in Notification /\ e \in Entities BY <1>8 DEF CalmInv, Shaped, Notification
  <2>2. Std(n) \in Locations!Location
    BY <2>1, StandardizedIsOne DEF Notification, Locations!Attributes
  <2>3. Locations!Unknown \in Locations!Location
    BY DEF Locations!Location, Locations!Unknown, Locations!Time, Locations!LocationAssumption
  <2>4. /\ latest = Locations!Unknown \/ \E x \in Entities :
          rows[x] # <<>> /\ latest = rows[x][1]
        /\ \A x \in Entities \ {e} : rows[x] # <<>> => rows[x][1].ts <= latest.ts
    BY <2>1, <1>8, LatestOfOthers DEF CalmInv
  <2>5. \A x \in Entities : rows[x] # <<>> => rows[x][1] \in Locations!Location
    BY <1>8, OneRowEach DEF CalmInv, Shaped
  <2>6. latest \in Locations!Location BY <2>3, <2>4, <2>5
  <2>7. chosen \in {Std(n), latest} /\ chosen \in Locations!Location
    BY <1>2, <2>2, <2>6 DEF Locations!Chosen
  <2>8. Std(n).ts <= chosen.ts /\ latest.ts <= chosen.ts
    BY <1>2, <2>2, <2>6, Records DEF Locations!Chosen
  <2>9. latest.ts <= newest.ts /\ Std(n).ts <= newest.ts
    BY <2>4, <1>8, TimesAreNumbers, Records DEF CalmInv, Under
  <2>10. rows[e] # <<>> => rows[e][1].ts <= chosen.ts
    <3>1. rows[e] # <<>> => Locations!Newest(e) = rows[e][1].ts
      BY <2>1, <1>8, RelatedRow DEF CalmInv, Shaped, Locations!Newest
    <3> QED BY <3>1, <2>1, <2>5, <2>7, <1>7, Records
  <2>11. Over(chosen) BY <2>4, <2>5, <2>6, <2>7, <2>8, <2>10, Records DEF Over
  <2> QED BY <2>1, <2>2, <2>6, <2>7, <2>8, <2>9, <2>11
<1>10. /\ new \in Handling /\ new # Locations!Idle /\ new.n = n /\ new.loc = chosen
       /\ new.pc = IF chosen = Locations!Unknown THEN "dispatch" ELSE "sync"
       /\ Seen(new)
  <2>1. \A x \in Entities : OneEach(x) BY <1>8 DEF CalmInv, Shaped
  <2>2. \A x \in Entities : /\ Locations!Related(x) \in {0, 1}
                            /\ (Locations!Related(x) = 0 <=> rows[x] = <<>>)
                            /\ rows[x] # <<>> => /\ rows[x][Locations!Related(x)] = rows[x][1]
                                                 /\ rows[x][1] \in Locations!Location
    BY <2>1, RelatedRow, OneRowEach
  <2>3. Locations!Unknown \in Locations!Location
    BY DEF Locations!Location, Locations!Unknown, Locations!Time, Locations!LocationAssumption
  <2>4. [x \in Entities |-> Locations!Related(x)] \in [Entities -> {0, 1}] BY <2>2
  <2>5. [x \in Entities |-> IF rows[x] = <<>> THEN Locations!Unknown
        ELSE rows[x][Locations!Related(x)]]
          \in [Entities -> Locations!Location]
    BY <2>2, <2>3
  <2>6. new \in Handling BY <1>3, <1>9, <2>4, <2>5 DEF Handling
  <2>7. new.n = n /\ new.loc = chosen /\ new.pc = IF chosen = Locations!Unknown THEN "dispatch"
        ELSE "sync"
    BY <1>3
  <2>8. /\ \A x \in Entities : new.id[x] = Locations!Related(x)
        /\ \A x \in Entities : rows[x] # <<>> => new.seen[x] = rows[x][Locations!Related(x)]
    BY <1>3
  <2>9. Seen(new) BY <2>2, <2>8 DEF Seen
  <2> QED BY <2>6, <2>7, <2>9 DEF Locations!Idle
<1> HIDE DEF e
<1>11. /\ Handled(w)' /\ job'[w] = new
       /\ \A v \in Workers : Handled(v)' => v = w
  BY <1>5, <1>7, <1>10 DEF Handled
<1>12. Shaped' BY <1>4, <1>8, <1>10, <1>11 DEF CalmInv, Shaped, OneEach
<1>13. OnePlace'
  <2>1. PICK at \in [Locations!Time -> Places \cup {None}] : at[0] = None /\ Told(at)
    BY <1>8 DEF CalmInv, OnePlace
  <2>2. RealAttrs(at, n.attrs) BY <2>1 DEF Told
  <2>3. Real(at, Std(n)) BY <1>9, <2>2, StandardizedIsReal
  <2>4. Real(at, Locations!Unknown)
    BY <2>1, <1>8 DEF Real, Locations!Unknown, CalmInv, Shaped, Locations!Time
  <2>5. Real(at, latest)
    BY <1>8, <1>9, <2>1, <2>4, LatestOfOthers DEF CalmInv, Told
  <2>6. Real(at, chosen) BY <1>9, <2>3, <2>5
  <2>7. /\ \A l : Real(at, l) => Real(at, l)'
        /\ \A a : RealAttrs(at, a) => RealAttrs(at, a)'
    BY <1>4 DEF Real, RealAttrs
  <2>8. Told(at)'
    <3>1. /\ Real(at, newest)'
          /\ \A x \in Entities : RealAttrs(at, known[x])'
          /\ \A m \in queue' : RealAttrs(at, m.attrs)'
          /\ \A x \in Entities : rows'[x] # <<>> => Real(at, rows[x][1])'
          /\ \A r \in jobs' : Real(at, r.location)'
      BY <1>4, <2>1, <2>7 DEF Told, Real, RealAttrs
    <3>2. \A v \in Workers : Handled(v)' =>
            RealAttrs(at, job[v].n.attrs)' /\ Real(at, job[v].loc)'
      BY <1>10, <1>11, <2>2, <2>6, <2>7, <1>4 DEF Real, RealAttrs
    <3> QED BY <3>1, <3>2 DEF Told
  <2> QED BY <2>1, <2>8 DEF OnePlace
<1>14. Under'
  <2>1. \A v \in Workers : Handled(v)' => job'[v] = new BY <1>11
  <2> QED BY <1>4, <1>8, <1>9, <1>10, <2>1 DEF CalmInv, Under, Std
<1>15. Somewhere'
  BY <1>4, <1>7, <1>8, <1>10, <1>11 DEF CalmInv, Somewhere, Std
<1>16. AtWork' BY <1>4, <1>7, <1>11 DEF AtWork
<1>17. Chain'
  <2>1. \A v \in Workers : Handled(v)' => job'[v] = new BY <1>11
  <2>2. Seen(new)' BY <1>4, <1>10 DEF Seen
  <2>3. Over(chosen)' BY <1>4, <1>9 DEF Over
  <2>4. Std(new.n)' = Std(n) BY <1>10 DEF Std
  <2>5. \A v \in Workers : Handled(v)' =>
          /\ Over(job[v].loc)' /\ Std(job[v].n).ts' <= job[v].loc.ts'
          /\ Seen(job[v])'
          /\ ~(job'[v].pc = "dispatch" /\ job'[v].loc # Locations!Unknown)
    BY <1>9, <1>10, <2>1, <2>2, <2>3, <2>4 DEF Over, Seen, Std
  <2> QED BY <1>4, <1>7, <2>5 DEF Chain
<1>18. Done' BY <1>11 DEF Done, Locations!Quiet, Handled
<1> QED BY <1>12, <1>13, <1>14, <1>15, <1>16, <1>17, <1>18 DEF CalmInv

\* The series of the others change neither the rows nor the location chosen.
LEMMA SyncSeriesKeeps ==
  ASSUME Locations!LocationAssumption, LocationInv, NEW w \in Workers, NEW failed,
         Locations!SyncSeries(w, failed)
  PROVE  LocationInv'
<1>1. PICK new : new = [job[w] EXCEPT !.pc = "commit"] OBVIOUS
<1>2. /\ job[w].pc = "sync" /\ job' = [job EXCEPT ![w] = new]
      /\ past' = [past EXCEPT !.gap = @ \/ failed # {}]
      /\ UNCHANGED <<now, known, queue, rows, jobs, newest>>
  BY <1>1 DEF Locations!SyncSeries
<1>3. /\ job' = [v \in Workers |-> job'[v]] /\ job'[w] = new
      /\ \A v \in Workers : v # w => job'[v] = job[v]
      /\ Handled(w) /\ (Calm' <=> Calm)
      /\ past' \in [raced : BOOLEAN, older : BOOLEAN, missed : BOOLEAN, gap : BOOLEAN]
  <2>1. job = [v \in Workers |-> job[v]]
        /\ past \in [raced : BOOLEAN, older : BOOLEAN, missed : BOOLEAN, gap : BOOLEAN]
    BY DEF LocationInv
  <2>2. (failed # {}) \in BOOLEAN OBVIOUS
  <2>3. /\ past' \in [raced : BOOLEAN, older : BOOLEAN, missed : BOOLEAN, gap : BOOLEAN]
        /\ past'.raced = past.raced /\ past'.older = past.older /\ past'.missed = past.missed
    BY <1>2, <2>1, <2>2, Zenon
  <2> QED BY <1>2, <2>1, <2>3 DEF Calm, Handled, Locations!Idle
<1>4. SUFFICES ASSUME CalmInv PROVE CalmInv' BY <1>3 DEF LocationInv
<1>5. /\ new \in Handling /\ new.pc = "commit" /\ new # Locations!Idle /\ new.n = job[w].n
      /\ new.loc = job[w].loc /\ new.seen = job[w].seen /\ new.id = job[w].id
  <2>1. job[w] \in Handling BY <1>3, <1>4 DEF CalmInv, Shaped
  <2> QED BY <1>1, <2>1 DEF Handling, Locations!Idle
<1>6. \A v \in Workers :
        /\ Handled(v)' <=> Handled(v)
        /\ Handled(v) => /\ job'[v].n = job[v].n /\ job'[v].loc = job[v].loc
                         /\ job'[v].seen = job[v].seen /\ job'[v].id = job[v].id
                         /\ job'[v] \in Handling
                         /\ job'[v].pc \in {job[v].pc, "commit"}
                         /\ job'[v].pc = "commit" => job[v].pc \in {"sync", "commit"}
  <2> TAKE v \in Workers
  <2>1. CASE v = w BY <2>1, <1>2, <1>3, <1>5 DEF Handled
  <2>2. CASE v # w BY <2>2, <1>3, <1>4 DEF Handled, CalmInv, Shaped
  <2> QED BY <2>1, <2>2
<1>7. Shaped' BY <1>2, <1>4, <1>6 DEF CalmInv, Shaped, OneEach
<1>8. OnePlace'
  <2>1. PICK at \in [Locations!Time -> Places \cup {None}] : at[0] = None /\ Told(at)
    BY <1>4 DEF CalmInv, OnePlace
  <2>2. \A v \in Workers : Handled(v)' =>
          RealAttrs(at, job[v].n.attrs)' /\ Real(at, job[v].loc)'
    BY <1>2, <1>6, <2>1 DEF Told, Real, RealAttrs
  <2>3. Told(at)' BY <1>2, <2>1, <2>2 DEF Told, Real, RealAttrs
  <2> QED BY <2>1, <2>3 DEF OnePlace
<1>9. Under' BY <1>2, <1>4, <1>6 DEF CalmInv, Under, Std
<1>10. Somewhere' BY <1>2, <1>4, <1>6 DEF CalmInv, Somewhere, Std
<1>11. AtWork' BY <1>2, <1>4, <1>6 DEF CalmInv, AtWork
<1>12. Chain' BY <1>2, <1>4, <1>6 DEF CalmInv, Chain, Over, Given, Seen, Std
<1>13. Done' BY <1>3, <1>5 DEF Done, Locations!Quiet
<1> QED BY <1>7, <1>8, <1>9, <1>10, <1>11, <1>12, <1>13 DEF CalmInv

\* A location as new as all the rows that replaces some of them does not lose the newest.
LEMMA Replaced ==
  ASSUME CalmInv, NEW l \in Locations!Location, Over(l), l.ts <= newest.ts,
         NEW at, at[0] = None, Told(at), Real(at, l),
         \A x \in Entities : rows'[x] = rows[x] \/ rows'[x] = <<l>>,
         UNCHANGED newest, UNCHANGED now
  PROVE  /\ \A x \in Entities : OneEach(x)'
         /\ \A x \in Entities : rows'[x] # <<>> =>
              Real(at, rows'[x][1]) /\ rows'[x][1].ts <= newest.ts /\ rows'[x][1].ts <= l.ts
         /\ (\E x \in Entities : rows[x] = <<newest>>) =>
              \E x \in Entities : rows'[x] = <<newest>>
<1>1. \A x \in Entities : OneEach(x) BY DEF CalmInv, Shaped
<1>2. <<l>>[1] = l /\ l.ts \in Nat BY Records
<1>3. \A x \in Entities : OneEach(x)' BY <1>1 DEF OneEach
<1>4. \A x \in Entities : rows'[x] # <<>> =>
        Real(at, rows'[x][1]) /\ rows'[x][1].ts <= newest.ts /\ rows'[x][1].ts <= l.ts
  BY <1>2 DEF CalmInv, Told, Under, Over
<1>5. ASSUME NEW x \in Entities, rows[x] = <<newest>> PROVE rows'[x] = <<newest>>
  <2>1. rows[x] # <<>> /\ rows[x][1] = newest BY <1>5
  <2>2. newest \in Locations!Location /\ Real(at, newest) /\ newest.ts <= l.ts
    BY <2>1 DEF CalmInv, Shaped, Told, Over
  <2>3. newest.ts = l.ts BY <2>2, Records
  <2>4. newest = l BY <2>2, <2>3, SameLocation
  <2> QED BY <1>5, <2>4
<1> QED BY <1>3, <1>4, <1>5

\* The commit gives the location to the entities that were behind: then all the others
\* have it.
LEMMA CommitKeeps ==
  ASSUME Locations!LocationAssumption, LocationInv, NEW w \in Workers,
         Locations!CommitLocations(w)
  PROVE  LocationInv'
<1>1. PICK new : new = [job[w] EXCEPT !.pc = "dispatch"] OBVIOUS
<1>2. PICK j : j = job[w] OBVIOUS
<1>3. /\ j.pc = "commit" /\ job' = [job EXCEPT ![w] = new]
      /\ rows' = [x \in Entities |->
           IF x \notin Locations!Behind(j) THEN rows[x]
           ELSE IF j.id[x] = 0 THEN Append(rows[x], j.loc)
           ELSE [rows[x] EXCEPT ![j.id[x]] = j.loc]]
      /\ UNCHANGED <<now, known, queue, jobs, newest, past>>
  BY <1>1, <1>2 DEF Locations!CommitLocations
<1>4. /\ job' = [v \in Workers |-> job'[v]] /\ job'[w] = new
      /\ \A v \in Workers : v # w => job'[v] = job[v]
      /\ Handled(w) /\ (Calm' <=> Calm)
  <2>1. job = [v \in Workers |-> job[v]] BY DEF LocationInv
  <2>2. job[w] # Locations!Idle BY <1>2, <1>3 DEF Locations!Idle
  <2>3. Calm' <=> Calm BY <1>3 DEF Calm
  <2> QED BY <1>3, <2>1, <2>2, <2>3 DEF Handled
<1>5. SUFFICES ASSUME CalmInv PROVE CalmInv' BY <1>3, <1>4 DEF LocationInv
<1>6. /\ new \in Handling /\ new.pc = "dispatch" /\ new # Locations!Idle /\ new.n = j.n
      /\ new.loc = j.loc /\ j \in Handling
  <2>1. job[w] \in Handling BY <1>4, <1>5 DEF CalmInv, Shaped
  <2> QED BY <1>1, <1>2, <2>1 DEF Handling, Locations!Idle
<1>7. /\ Handled(w)' /\ \A v \in Workers : Handled(v)' => v = w
      /\ \A v \in Workers : Handled(v) => v = w
      /\ jobs = {} /\ jobs' = {}
  BY <1>3, <1>4, <1>5, <1>6 DEF CalmInv, AtWork, Handled
<1>8. /\ Over(j.loc) /\ Std(j.n).ts <= j.loc.ts /\ Seen(j) /\ j.loc \in Locations!Location
      /\ j.loc.ts <= newest.ts /\ Std(j.n).ts <= newest.ts
      /\ j.n \in Notification
  BY <1>2, <1>3, <1>4, <1>5, <1>6 DEF CalmInv, Chain, Under, Handling
<1>9. \A x \in Entities : OneEach(x) BY <1>5 DEF CalmInv, Shaped
<1>10. \A x \in Locations!Behind(j) : rows'[x] = <<j.loc>>
  <2> TAKE x \in Locations!Behind(j)
  <2>1. x \in Entities BY DEF Locations!Behind
  <2>2. CASE rows[x] = <<>>
    <3>1. j.id[x] = 0 BY <1>8, <2>1, <2>2 DEF Seen
    <3>2. Append(<<>>, j.loc) = <<j.loc>> OBVIOUS
    <3> QED BY <1>3, <2>1, <2>2, <3>1, <3>2
  <2>3. CASE rows[x] # <<>>
    <3>1. j.id[x] = 1 BY <1>6, <1>8, <2>1, <2>3 DEF Seen, Handling
    <3>2. PICK m \in Locations!Location : rows[x] = <<m>> BY <1>9, <2>1, <2>3 DEF OneEach
    <3>3. [<<m>> EXCEPT ![1] = j.loc] = <<j.loc>> OBVIOUS
    <3> QED BY <1>3, <2>1, <3>1, <3>2, <3>3
  <2> QED BY <2>2, <2>3
<1>11. \A x \in Entities : rows'[x] = rows[x] \/ rows'[x] = <<j.loc>>
  BY <1>3, <1>10
<1>12. Given(j.n.entity, j.loc)'
  <2>1. ASSUME NEW x \in Entities \ {j.n.entity}
        PROVE  \E m \in Locations!Location : rows'[x] = <<m>> /\ m.at = j.loc.at
    <3>1. CASE x \in Locations!Behind(j) BY <3>1, <1>8, <1>10
    <3>2. CASE x \notin Locations!Behind(j)
      <4>1. j.id[x] # 0 /\ j.seen[x].at = j.loc.at BY <3>2, <2>1 DEF Locations!Behind
      <4>2. rows[x] # <<>> /\ j.seen[x] = rows[x][1] BY <4>1, <1>8 DEF Seen
      <4>3. PICK m \in Locations!Location : rows[x] = <<m>> BY <1>9, <4>2 DEF OneEach
      <4> QED BY <1>3, <3>2, <4>1, <4>2, <4>3
    <3> QED BY <3>1, <3>2
  <2> QED BY <2>1 DEF Given
<1>13. PICK at \in [Locations!Time -> Places \cup {None}] : at[0] = None /\ Told(at)
  BY <1>5 DEF CalmInv, OnePlace
<1>14. Real(at, j.loc) /\ RealAttrs(at, j.n.attrs) BY <1>2, <1>4, <1>13 DEF Told
<1>15. /\ \A x \in Entities : OneEach(x)'
       /\ \A x \in Entities : rows'[x] # <<>> =>
            Real(at, rows'[x][1]) /\ rows'[x][1].ts <= newest.ts /\ rows'[x][1].ts <= j.loc.ts
       /\ (\E x \in Entities : rows[x] = <<newest>>) =>
            \E x \in Entities : rows'[x] = <<newest>>
  BY <1>3, <1>5, <1>8, <1>11, <1>13, <1>14, Replaced
<1>16. Shaped' BY <1>3, <1>5, <1>6, <1>4, <1>7, <1>15 DEF CalmInv, Shaped
<1>17. OnePlace'
  <2>1. \A v \in Workers : Handled(v)' => job'[v] = new BY <1>4, <1>7
  <2>2. \A v \in Workers : Handled(v)' =>
          RealAttrs(at, job[v].n.attrs)' /\ Real(at, job[v].loc)'
    BY <1>3, <1>6, <1>14, <2>1 DEF Real, RealAttrs
  <2>3. \A x \in Entities : rows'[x] # <<>> => Real(at, rows[x][1])'
    BY <1>3, <1>15 DEF Real
  <2>4. Told(at)' BY <1>3, <1>7, <1>13, <2>2, <2>3 DEF Told, Real, RealAttrs
  <2> QED BY <1>13, <2>4 DEF OnePlace
<1>18. Under'
  <2>1. \A v \in Workers : Handled(v)' => job'[v] = new BY <1>4, <1>7
  <2> QED BY <1>3, <1>5, <1>6, <1>7, <1>8, <1>15, <2>1 DEF CalmInv, Under, Std
<1>19. Somewhere'
  BY <1>2, <1>3, <1>4, <1>5, <1>6, <1>7, <1>15 DEF CalmInv, Somewhere, Std
<1>20. AtWork' BY <1>7 DEF AtWork
<1>21. Chain'
  <2>1. \A v \in Workers : Handled(v)' => job'[v] = new BY <1>4, <1>7
  <2>2. Over(j.loc)' BY <1>15 DEF Over
  <2> QED BY <1>6, <1>7, <1>8, <1>12, <2>1, <2>2 DEF Chain, Over, Given, Std
<1>22. Done' BY <1>7 DEF Done, Locations!Quiet, Handled
<1> QED BY <1>16, <1>17, <1>18, <1>19, <1>20, <1>21, <1>22 DEF CalmInv

\* The realtime job of the entity takes the location over; when there is none, nothing
\* was told yet, or the newest location still waits.
LEMMA DispatchKeeps ==
  ASSUME Locations!LocationAssumption, LocationInv, NEW w \in Workers,
         NEW enqueued \in BOOLEAN,
         Locations!Dispatch(w, enqueued)
  PROVE  LocationInv'
<1>1. PICK j : j = job[w] OBVIOUS
<1>2. PICK own : own = IF j.loc = Locations!Unknown THEN {}
      ELSE {[entity |-> j.n.entity, location |-> j.loc]}
  OBVIOUS
<1>3. /\ j.pc = "dispatch" /\ job' = [job EXCEPT ![w] = Locations!Idle]
      /\ enqueued \/ own # {}
      /\ jobs' = IF enqueued THEN jobs \cup own ELSE jobs
      /\ past' = [past EXCEPT !.missed = @ \/ ~enqueued]
      /\ UNCHANGED <<now, known, queue, rows, newest>>
  BY <1>1, <1>2 DEF Locations!Dispatch, Locations!Own
<1>4. /\ job' = [v \in Workers |-> job'[v]] /\ job'[w] = Locations!Idle
      /\ \A v \in Workers : v # w => job'[v] = job[v]
      /\ Handled(w)
      /\ past' \in [raced : BOOLEAN, older : BOOLEAN, missed : BOOLEAN, gap : BOOLEAN]
      /\ Calm' => Calm /\ enqueued
  <2>1. job = [v \in Workers |-> job[v]]
        /\ past \in [raced : BOOLEAN, older : BOOLEAN, missed : BOOLEAN, gap : BOOLEAN]
    BY DEF LocationInv
  <2>2. /\ past' \in [raced : BOOLEAN, older : BOOLEAN, missed : BOOLEAN, gap : BOOLEAN]
        /\ past'.raced = past.raced /\ past'.older = past.older
        /\ past'.missed = (past.missed \/ ~enqueued)
    BY <1>3, <2>1, Zenon
  <2> QED BY <1>1, <1>3, <2>1, <2>2 DEF Calm, Handled, Locations!Idle
<1>5. SUFFICES ASSUME Calm' PROVE CalmInv' BY <1>4 DEF LocationInv
<1>6. CalmInv /\ jobs' = jobs \cup own BY <1>3, <1>4, <1>5 DEF LocationInv
<1>7. /\ \A v \in Workers : ~Handled(v)'
      /\ \A v \in Workers : Handled(v) => v = w
      /\ jobs = {} /\ jobs' = own
  BY <1>3, <1>4, <1>6 DEF CalmInv, AtWork, Handled
<1>8. /\ j \in Handling /\ j.loc \in Locations!Location /\ j.n \in Notification
      /\ Over(j.loc) /\ Std(j.n).ts <= j.loc.ts /\ Std(j.n) \in Locations!Location
      /\ j.loc.ts <= newest.ts /\ newest \in Locations!Location
      /\ j.loc # Locations!Unknown => Given(j.n.entity, j.loc)
  <2>1. j \in Handling BY <1>1, <1>4, <1>6 DEF CalmInv, Shaped
  <2>2. j.n \in Notification /\ j.loc \in Locations!Location BY <2>1 DEF Handling
  <2>3. Std(j.n) \in Locations!Location
    BY <2>2, StandardizedIsOne DEF Notification, Locations!Attributes
  <2> QED BY <1>1, <1>3, <1>4, <1>6, <2>1, <2>2, <2>3 DEF CalmInv, Chain, Under, Shaped
<1>9. PICK at \in [Locations!Time -> Places \cup {None}] : at[0] = None /\ Told(at)
  BY <1>6 DEF CalmInv, OnePlace
<1>10. /\ Real(at, j.loc) /\ Real(at, newest) /\ Real(at, Std(j.n))
       /\ \A x \in Entities : rows[x] # <<>> => Real(at, rows[x][1])
  BY <1>1, <1>4, <1>8, <1>9, StandardizedIsReal DEF Told
<1>11. \A r \in own : r.location = j.loc /\ r.entity = j.n.entity /\ j.loc # Locations!Unknown
       /\ r \in [entity : Entities, location : Locations!Location]
  BY <1>2, <1>8 DEF Notification
<1>12. Shaped' BY <1>3, <1>6, <1>7, <1>11 DEF CalmInv, Shaped, OneEach
<1>13. OnePlace'
  <2>1. \A r \in jobs' : Real(at, r.location)' BY <1>3, <1>7, <1>10, <1>11 DEF Real
  <2>2. Told(at)' BY <1>3, <1>7, <1>9, <2>1 DEF Told, Real, RealAttrs
  <2> QED BY <1>9, <2>2 DEF OnePlace
<1>14. Under' BY <1>3, <1>6, <1>7, <1>8, <1>11 DEF CalmInv, Under, Std
<1>15. newest = Std(j.n) => newest = j.loc
  <2> SUFFICES ASSUME newest = Std(j.n) PROVE newest = j.loc OBVIOUS
  <2>1. newest.ts = j.loc.ts BY <1>8, Records
  <2> QED BY <2>1, <1>8, <1>10, SameLocation
<1>16. Somewhere'
  <2>1. \/ newest = Locations!Unknown
        \/ \E n \in queue : newest = Std(n)
        \/ newest = Std(j.n)
        \/ \E x \in Entities : rows[x] = <<newest>>
    BY <1>1, <1>6, <1>7 DEF CalmInv, Somewhere
  <2>2. CASE newest = Std(j.n)
    <3>1. newest = j.loc BY <2>2, <1>15
    <3> QED BY <3>1, <1>2, <1>3, <1>7, <1>11 DEF Somewhere
  <2>3. CASE newest = Locations!Unknown BY <2>3, <1>3 DEF Somewhere
  <2>4. CASE \E n \in queue : newest = Std(n) BY <2>4, <1>3 DEF Somewhere, Std
  <2>5. CASE \E x \in Entities : rows[x] = <<newest>> BY <2>5, <1>3 DEF Somewhere
  <2> QED BY <2>1, <2>2, <2>3, <2>4, <2>5
<1>17. AtWork' BY <1>2, <1>7 DEF AtWork
<1>18. Chain' BY <1>3, <1>7, <1>8, <1>11 DEF Chain, Over, Given
<1>19. Done'
  <2> SUFFICES ASSUME Locations!Quiet', newest # Locations!Unknown
               PROVE  FALSE BY <1>3 DEF Done
  <2>1. queue = {} /\ own = {} BY <1>3, <1>7 DEF Locations!Quiet
  <2>2. j.loc = Locations!Unknown BY <2>1, <1>2
  <2>3. j.loc.ts = 0 BY <2>2, Records
  <2>4. CASE newest = Std(j.n) BY <2>2, <2>4, <1>15
  <2>5. CASE \E x \in Entities : rows[x] = <<newest>>
    <3>1. PICK x \in Entities : rows[x] = <<newest>> BY <2>5
    <3>2. rows[x] # <<>> /\ rows[x][1] = newest BY <3>1
    <3>3. newest.ts <= 0 BY <3>2, <1>8, <2>3 DEF Over
    <3>4. newest.ts = 0 BY <3>3, <1>8, Records
    <3> QED BY <3>4, <1>8, <1>9, <1>10, UnknownIsZero
  <2> QED BY <2>1, <2>4, <2>5, <1>1, <1>6, <1>7 DEF CalmInv, Somewhere
<1> QED BY <1>12, <1>13, <1>14, <1>16, <1>17, <1>18, <1>19 DEF CalmInv

\* A notification that is delivered again is not lost.
LEMMA AgainKeeps ==
  ASSUME Locations!LocationAssumption, LocationInv, NEW w \in Workers, Locations!Again(w)
  PROVE  LocationInv'
<1>1. PICK n : n = job[w].n OBVIOUS
<1>2. /\ Handled(w) /\ job' = [job EXCEPT ![w] = Locations!Idle]
      /\ queue' = queue \cup {n}
      /\ UNCHANGED <<now, known, rows, jobs, newest, past>>
  BY <1>1 DEF Locations!Again, Handled
<1>3. /\ job' = [v \in Workers |-> job'[v]] /\ job'[w] = Locations!Idle
      /\ \A v \in Workers : v # w => job'[v] = job[v]
      /\ Calm' <=> Calm
  <2>1. job = [v \in Workers |-> job[v]] BY DEF LocationInv
  <2> QED BY <1>2, <2>1 DEF Calm
<1>4. SUFFICES ASSUME CalmInv PROVE CalmInv' BY <1>2, <1>3 DEF LocationInv
<1>5. /\ \A v \in Workers : ~Handled(v)'
      /\ \A v \in Workers : Handled(v) => v = w
      /\ jobs = {} /\ jobs' = {}
  BY <1>2, <1>3, <1>4 DEF CalmInv, AtWork, Handled
<1>6. n \in Notification /\ Std(n).ts <= newest.ts
  BY <1>1, <1>2, <1>4 DEF CalmInv, Shaped, Handling, Under
<1>7. Shaped' BY <1>2, <1>4, <1>5, <1>6 DEF CalmInv, Shaped, OneEach
<1>8. OnePlace'
  <2>1. PICK at \in [Locations!Time -> Places \cup {None}] : at[0] = None /\ Told(at)
    BY <1>4 DEF CalmInv, OnePlace
  <2>2. RealAttrs(at, n.attrs) BY <1>1, <1>2, <2>1 DEF Told
  <2>3. Told(at)' BY <1>2, <1>5, <2>1, <2>2 DEF Told, Real, RealAttrs
  <2> QED BY <2>1, <2>3 DEF OnePlace
<1>9. Under' BY <1>2, <1>4, <1>5, <1>6 DEF CalmInv, Under, Std
<1>10. Somewhere' BY <1>1, <1>2, <1>4, <1>5 DEF CalmInv, Somewhere, Std
<1>11. AtWork' BY <1>5 DEF AtWork
<1>12. Chain' BY <1>5 DEF Chain
<1>13. Done' BY <1>2 DEF Done, Locations!Quiet
<1> QED BY <1>7, <1>8, <1>9, <1>10, <1>11, <1>12, <1>13 DEF CalmInv

\* The realtime job writes the row of its entity, or finds it there.
LEMMA RealtimeKeeps ==
  ASSUME Locations!LocationAssumption, LocationInv, NEW r \in jobs, Locations!Realtime(r)
  PROVE  LocationInv'
<1>1. /\ jobs' = jobs \ {r} /\ rows' = [rows EXCEPT ![r.entity] = Locations!Update(r)]
      /\ UNCHANGED <<now, known, queue, job, newest, past>>
  BY DEF Locations!Realtime
<1>2. SUFFICES ASSUME CalmInv PROVE CalmInv' BY <1>1 DEF LocationInv, Calm
<1> DEFINE e == r.entity  l == r.location
<1>3. /\ e \in Entities /\ l \in Locations!Location /\ l.ts \in Nat
      /\ Over(l) /\ Given(e, l) /\ l.ts <= newest.ts
      /\ \A v \in Workers : ~Handled(v) /\ ~Handled(v)'
      /\ jobs = {r} /\ jobs' = {}
  BY <1>1, <1>2, Records DEF CalmInv, Shaped, Chain, Under, AtWork, Handled
<1>4. PICK at \in [Locations!Time -> Places \cup {None}] : at[0] = None /\ Told(at)
  BY <1>2 DEF CalmInv, OnePlace
<1>5. Real(at, l) BY <1>4 DEF Told
<1>6. \A x \in Entities : OneEach(x) BY <1>2 DEF CalmInv, Shaped
<1>7. Locations!Update(r) = <<l>>
  <2>1. CASE rows[e] = <<>> BY <2>1 DEF Locations!Update
  <2>2. CASE rows[e] # <<>>
    <3>1. PICK m \in Locations!Location : rows[e] = <<m>> BY <1>3, <1>6, <2>2 DEF OneEach
    <3>2. <<m>>[1] = m /\ [<<m>> EXCEPT ![1] = l] = <<l>> OBVIOUS
    <3>3. m.ts <= l.ts /\ Real(at, m) BY <1>3, <1>4, <2>2, <3>1, <3>2 DEF Over, Told
    <3>4. m.ts >= l.ts => m = l
      <4> SUFFICES ASSUME m.ts >= l.ts PROVE m = l OBVIOUS
      <4>1. m.ts = l.ts BY <1>3, <3>3, Records
      <4> QED BY <4>1, <1>3, <1>5, <3>3, SameLocation
    <3> QED BY <2>2, <3>1, <3>2, <3>4 DEF Locations!Update
  <2> QED BY <2>1, <2>2
<1>8. /\ rows' = [x \in Entities |-> rows'[x]] /\ rows'[e] = <<l>>
      /\ \A x \in Entities \ {e} : rows'[x] = rows[x]
  <2>1. rows = [x \in Entities |-> rows[x]] BY <1>2 DEF CalmInv, Shaped
  <2> QED BY <1>1, <1>3, <1>7, <2>1
<1>9. /\ \A x \in Entities : OneEach(x)'
      /\ \A x \in Entities : rows'[x] # <<>> =>
           Real(at, rows'[x][1]) /\ rows'[x][1].ts <= newest.ts /\ rows'[x][1].ts <= l.ts
      /\ (\E x \in Entities : rows[x] = <<newest>>) =>
           \E x \in Entities : rows'[x] = <<newest>>
  <2>1. \A x \in Entities : rows'[x] = rows[x] \/ rows'[x] = <<l>> BY <1>8
  <2> HIDE DEF l
  <2> QED BY <1>1, <1>2, <1>3, <1>4, <1>5, <2>1, Replaced
<1>10. Shaped' BY <1>1, <1>2, <1>3, <1>8, <1>9 DEF CalmInv, Shaped, OneEach
<1>11. OnePlace'
  <2>1. Told(at)' BY <1>1, <1>3, <1>4, <1>9 DEF Told, Real, RealAttrs
  <2> QED BY <1>4, <2>1 DEF OnePlace
<1>12. Under' BY <1>1, <1>2, <1>3, <1>9 DEF CalmInv, Under, Std
<1>13. Somewhere'
  <2>1. \/ newest = Locations!Unknown \/ \E n \in queue : newest = Std(n)
        \/ newest = l \/ \E x \in Entities : rows[x] = <<newest>>
    BY <1>2, <1>3 DEF CalmInv, Somewhere
  <2>2. newest = l => \E x \in Entities : rows'[x] = <<newest>> BY <1>3, <1>8
  <2>3. newest = Locations!Unknown \/ (\E n \in queue : newest = Std(n))
        \/ \E x \in Entities : rows'[x] = <<newest>>
    BY <2>1, <2>2, <1>9
  <2> QED BY <2>3, <1>1 DEF Somewhere, Std
<1>14. AtWork' BY <1>3 DEF AtWork
<1>15. Chain' BY <1>3 DEF Chain
<1>16. Done'
  <2> SUFFICES ASSUME Locations!Quiet', newest # Locations!Unknown
               PROVE  \A x \in Entities :
                      \E m \in Locations!Location : rows'[x] = <<m>> /\ m.at = newest.at
    BY <1>1 DEF Done
  <2>1. \A x \in Entities : \E m \in Locations!Location : rows'[x] = <<m>> /\ m.at = l.at
    BY <1>3, <1>8 DEF Given
  <2>2. PICK x \in Entities : rows'[x] = <<newest>>
    BY <1>1, <1>3, <1>13 DEF Somewhere, Locations!Quiet
  <2>3. PICK m \in Locations!Location : rows'[x] = <<m>> /\ m.at = l.at BY <2>1
  <2>4. m = newest
    <3>1. <<m>>[1] = m /\ <<newest>>[1] = newest OBVIOUS
    <3> QED BY <3>1, <2>2, <2>3
  <2> QED BY <2>1, <2>3, <2>4
<1> QED BY <1>10, <1>11, <1>12, <1>13, <1>14, <1>15, <1>16 DEF CalmInv

\* The three kinds of report tell one location at the new instant, or none.
LEMMA ReportSomethingKeeps ==
  ASSUME Locations!LocationAssumption, LocationInv, NEW e \in Entities,
         Locations!ReportSomething(e)
  PROVE  LocationInv'
<1>1. Calm => known[e] \in Locations!Attributes BY DEF LocationInv, CalmInv, Shaped
<1>2. CASE Locations!Report(e, known[e])
  <2>1. PICK a : a = known[e] OBVIOUS
  <2>2. /\ Locations!Report(e, a)
        /\ Calm => a \in Locations!Attributes
        /\ \A l \in {a.location, a.latlon} : l \in {known[e].location, known[e].latlon}
    BY <1>1, <1>2, <2>1
  <2>3. None \in Places \cup {None} OBVIOUS
  <2> QED BY <2>2, <2>3, ReportKeeps
<1>3. CASE \E p \in Places :
             \/ Locations!Report(e, [known[e] EXCEPT !.location = [at |-> p, ts |-> now + 1]])
             \/ Locations!Report(e, [known[e] EXCEPT !.latlon = [at |-> p, ts |-> now + 1]])
  <2>1. PICK p \in Places :
             \/ Locations!Report(e, [known[e] EXCEPT !.location = [at |-> p, ts |-> now + 1]])
             \/ Locations!Report(e, [known[e] EXCEPT !.latlon = [at |-> p, ts |-> now + 1]])
    BY <1>3
  <2>2. PICK l : l = [at |-> p, ts |-> now + 1] OBVIOUS
  <2>3. PICK a : /\ a \in {[known[e] EXCEPT !.location = l], [known[e] EXCEPT !.latlon = l]}
                 /\ Locations!Report(e, a)
    BY <2>1, <2>2
  <2>4. Calm => l \in Locations!Location
    <3>1. Calm => now \in Nat /\ now < MaxReports
      BY <2>3 DEF LocationInv, CalmInv, Shaped, Locations!Report, Locations!Time
    <3> QED BY <3>1, <2>2 DEF Locations!Location, Locations!Time, Locations!LocationAssumption
  <2>5. Calm => /\ a \in Locations!Attributes
                /\ \A m \in {a.location, a.latlon} :
                     m \in {known[e].location, known[e].latlon} \/ m = l
    BY <1>1, <2>3, <2>4 DEF Locations!Attributes
  <2> QED BY <2>2, <2>3, <2>5, ReportKeeps
<1> QED BY <1>2, <1>3 DEF Locations!ReportSomething

\* A realtime job that fails is one of the cases without a guarantee.
LEMMA RealtimeFailsKeeps ==
  ASSUME LocationInv, NEW r, Locations!RealtimeFails(r) PROVE LocationInv'
<1>1. past' = [past EXCEPT !.missed = TRUE] /\ UNCHANGED job BY DEF Locations!RealtimeFails
<1>2. past \in [raced : BOOLEAN, older : BOOLEAN, missed : BOOLEAN, gap : BOOLEAN]
  BY DEF LocationInv
<1>3. /\ past' \in [raced : BOOLEAN, older : BOOLEAN, missed : BOOLEAN, gap : BOOLEAN]
      /\ past'.missed
  BY <1>1, <1>2, Zenon
<1> QED BY <1>1, <1>3 DEF LocationInv, Calm

\* Every step preserves the invariant.
LEMMA LocationSteps ==
  ASSUME Locations!LocationAssumption, LocationInv, [Locations!Next]_Locations!vars
  PROVE  LocationInv'
<1>1. CASE UNCHANGED Locations!vars
  <2>1. Shaped => Shaped' BY <1>1 DEF Locations!vars, Shaped, OneEach, Handled
  <2>2. OnePlace => OnePlace'
    BY <1>1 DEF Locations!vars, OnePlace, Told, Real, RealAttrs, Handled
  <2>3. Under /\ Somewhere => Under' /\ Somewhere'
    BY <1>1 DEF Locations!vars, Under, Somewhere, Handled, Std
  <2>4. AtWork /\ Chain /\ Done => AtWork' /\ Chain' /\ Done'
    BY <1>1
    DEF Locations!vars, AtWork, Chain, Done, Locations!Quiet, Handled, Std, Over, Given, Seen
  <2> QED BY <1>1, <2>1, <2>2, <2>3, <2>4 DEF Locations!vars, LocationInv, CalmInv, Calm
<1>2. ASSUME NEW e \in Entities, Locations!ReportSomething(e) PROVE LocationInv'
  BY <1>2, ReportSomethingKeeps
<1>3. ASSUME NEW w \in Workers, NEW n \in queue, Locations!Process(w, n) PROVE LocationInv'
  BY <1>3, ProcessKeeps
<1>4. ASSUME NEW w \in Workers, NEW failed \in SUBSET Entities, Locations!SyncSeries(w, failed)
      PROVE  LocationInv'
  BY <1>4, SyncSeriesKeeps
<1>5. ASSUME NEW w \in Workers, Locations!CommitLocations(w)
      PROVE  LocationInv' BY <1>5, CommitKeeps
<1>6. ASSUME NEW w \in Workers, NEW enqueued \in BOOLEAN, Locations!Dispatch(w, enqueued)
      PROVE  LocationInv'
  BY <1>6, DispatchKeeps
<1>7. ASSUME NEW w \in Workers, Locations!Again(w) PROVE LocationInv' BY <1>7, AgainKeeps
<1>8. ASSUME NEW r \in jobs, Locations!Realtime(r) PROVE LocationInv' BY <1>8, RealtimeKeeps
<1>9. ASSUME NEW r \in jobs, Locations!RealtimeFails(r)
      PROVE  LocationInv' BY <1>9, RealtimeFailsKeeps
<1> QED BY <1>1, <1>2, <1>3, <1>4, <1>5, <1>6, <1>7, <1>8, <1>9 DEF Locations!Next

\* While no two writers overlapped, no realtime job was lost and no notification was older
\* than the row of its entity, the newest location is in one place at least and as new as
\* any, and the entities get it one after another.
THEOREM LocationInvariance ==
  ASSUME Locations!LocationAssumption
  PROVE  Locations!Spec => []LocationInv
<1>1. Locations!Init => LocationInv BY LocationStarts
<1>2. LocationInv /\ [Locations!Next]_Locations!vars => LocationInv' BY LocationSteps
<1> QED BY <1>1, <1>2, PTL DEF Locations!Spec

\* The invariant says of the quiet states what the property says.
LEMMA AgreedHolds == LocationInv => Locations!Agreed
<1> SUFFICES ASSUME LocationInv, Locations!Quiet, newest # Locations!Unknown, Calm,
                 NEW e \in Entities
             PROVE  Len(rows[e]) = 1 /\ rows[e][1].at = newest.at
  BY DEF Locations!Agreed, Calm
<1>1. PICK m \in Locations!Location : rows[e] = <<m>> /\ m.at = newest.at
  BY DEF LocationInv, CalmInv, Done
<1> QED BY <1>1

\* What the series has of a location.
CopiesDone(w) == \A e \in Locations!Behind(job[w]) :
  [entity |-> e, location |-> job[w].loc] \in series
Copied ==
  /\ \A w \in Workers : job[w].pc = "commit" => CopiesDone(w)
  /\ jobs \subseteq series
  /\ Locations!InHistory
WholeJob(j) == j = Locations!Idle
    \/ j = [pc |-> j.pc, n |-> j.n, loc |-> j.loc, seen |-> j.seen, id |-> j.id]
HistoryInv ==
  /\ job = [w \in Workers |-> job[w]] /\ \A w \in Workers : WholeJob(job[w])
  /\ \E S : rows \in [Entities -> Seq(S)]
  /\ \A r \in jobs : r = [entity |-> r.entity, location |-> r.location]
  /\ past = [raced |-> past.raced, older |-> past.older, missed |-> past.missed, gap |-> past.gap]
  /\ past.gap \in BOOLEAN
  /\ ~past.gap => Copied

\* A row that is added leaves the others.
LEMMA RowAppended ==
  ASSUME NEW S, NEW s \in Seq(S), NEW l
  PROVE  /\ Append(s, l) \in Seq(S \cup {l})
         /\ \A i \in DOMAIN Append(s, l) :
              Append(s, l)[i] = l \/ (i \in DOMAIN s /\ Append(s, l)[i] = s[i])
<1>1. Len(s) \in Nat /\ DOMAIN s = 1 .. Len(s) /\ \A i \in 1 .. Len(s) : s[i] \in S OBVIOUS
<1>2. s \in Seq(S \cup {l}) BY <1>1
<1> QED BY <1>1, <1>2

\* A row that is replaced, at whatever index, leaves the others.
LEMMA RowReplaced ==
  ASSUME NEW S, NEW s \in Seq(S), NEW k, NEW l
  PROVE  /\ [s EXCEPT ![k] = l] \in Seq(S \cup {l})
         /\ \A i \in DOMAIN [s EXCEPT ![k] = l] :
              i \in DOMAIN s /\ [s EXCEPT ![k] = l][i] \in {l, s[i]}
<1> DEFINE t == [s EXCEPT ![k] = l]
<1>1. Len(s) \in Nat /\ DOMAIN s = 1 .. Len(s) /\ \A i \in 1 .. Len(s) : s[i] \in S OBVIOUS
<1>2. DOMAIN t = 1 .. Len(s) /\ \A i \in DOMAIN t : t[i] \in {l, s[i]} BY <1>1
<1>3. t \in [1 .. Len(s) -> S \cup {l}] BY <1>1, <1>2
<1>4. t \in Seq(S \cup {l}) BY <1>1, <1>3
<1> QED BY <1>1, <1>2, <1>4

\* A sequence over a set is one over any larger set.
LEMMA SeqWider == ASSUME NEW S, NEW T, S \subseteq T PROVE Seq(S) \subseteq Seq(T)
OBVIOUS

\* At first there is no row.
LEMMA HistoryStarts == Locations!Init => HistoryInv
<1> SUFFICES ASSUME Locations!Init PROVE HistoryInv OBVIOUS
<1>1. \A w \in Workers : job[w] = Locations!Idle /\ job[w].pc = "idle"
  BY DEF Locations!Init, Locations!Idle
<1>2. rows \in [Entities -> Seq({})] BY DEF Locations!Init
<1>3. Copied BY <1>1 DEF Locations!Init, Copied, Locations!InHistory
<1> QED BY <1>1, <1>2, <1>3 DEF Locations!Init, HistoryInv, WholeJob

\* A row is only written after its copy is in the series, unless the write of one failed.
LEMMA HistorySteps == ASSUME HistoryInv, [Locations!Next]_Locations!vars PROVE HistoryInv'
<1> USE DEF HistoryInv
<1>0. ASSUME UNCHANGED <<job, rows, series, jobs, past>> PROVE HistoryInv'
  BY <1>0 DEF Copied, CopiesDone, Locations!InHistory, WholeJob, Locations!Behind
<1>1. CASE UNCHANGED Locations!vars BY <1>0, <1>1 DEF Locations!vars
<1>2. ASSUME NEW e \in Entities, Locations!ReportSomething(e) PROVE HistoryInv'
  <2>1. ASSUME NEW a, Locations!Report(e, a)
        PROVE  HistoryInv' BY <1>0, <2>1 DEF Locations!Report
  <2> QED BY <1>2, <2>1 DEF Locations!ReportSomething
<1>3. ASSUME NEW w \in Workers, NEW n \in queue, Locations!Process(w, n) PROVE HistoryInv'
  <2>1. PICK latest \in Locations!Latest(n.entity) :
          LET chosen == Locations!Chosen(Locations!Standardized(n.attrs), latest) IN
          /\ job' = [job EXCEPT ![w] =
               [pc |-> IF chosen = Locations!Unknown THEN "dispatch"
                   ELSE "sync", n |-> n, loc |-> chosen,
                seen |-> [x \in Entities |-> IF rows[x] = <<>> THEN Locations!Unknown
                    ELSE rows[x][Locations!Related(x)]],
                id |-> [x \in Entities |-> Locations!Related(x)]]]
          /\ past' = [past EXCEPT !.raced = @ \/ jobs # {} \/ \E v \in Workers :
               job[v] # Locations!Idle,
                                  !.older = @ \/ chosen.ts < Locations!Newest(n.entity)]
    BY <1>3 DEF Locations!Process
  <2>2. PICK new, raced, older :
          /\ job' = [job EXCEPT ![w] = new] /\ WholeJob(new) /\ new.pc # "commit"
          /\ past' = [past EXCEPT !.raced = raced, !.older = older]
    <3>1. PICK chosen : chosen = Locations!Chosen(Locations!Standardized(n.attrs), latest) OBVIOUS
    <3>2. PICK new : new =
            [pc |-> IF chosen = Locations!Unknown THEN "dispatch"
                ELSE "sync", n |-> n, loc |-> chosen,
             seen |-> [x \in Entities |-> IF rows[x] = <<>> THEN Locations!Unknown
                 ELSE rows[x][Locations!Related(x)]],
             id |-> [x \in Entities |-> Locations!Related(x)]]
      OBVIOUS
    <3>3. PICK raced, older :
            /\ raced = (past.raced \/ jobs # {} \/ \E v \in Workers : job[v] # Locations!Idle)
            /\ older = (past.older \/ chosen.ts < Locations!Newest(n.entity))
      OBVIOUS
    <3>4. job' = [job EXCEPT ![w] = new] BY <2>1, <3>1, <3>2
    <3>5. past' = [past EXCEPT !.raced = raced, !.older = older]
      BY <2>1, <3>1, <3>3, Zenon
    <3>6. WholeJob(new) /\ new.pc # "commit" BY <3>2 DEF WholeJob
    <3> QED BY <3>4, <3>5, <3>6
  <2>3. UNCHANGED <<rows, series, jobs>> BY <1>3 DEF Locations!Process
  <2>4. past' = [raced |-> raced, older |-> older, missed |-> past.missed, gap |-> past.gap]
    BY <2>2
  <2>5. /\ job' = [v \in Workers |-> job'[v]]
        /\ \A v \in Workers : job'[v] = job[v] \/ (WholeJob(job'[v]) /\ job'[v].pc # "commit")
    BY <2>2
  <2>6. past'.gap = past.gap
        /\ past' = [raced |-> past'.raced, older |-> past'.older, missed |-> past'.missed,
                    gap |-> past'.gap]
    BY <2>4
  <2>7. ASSUME Copied PROVE Copied'
    <3>1. \A v \in Workers : job'[v].pc = "commit" => CopiesDone(v)'
      BY <2>3, <2>5, <2>7 DEF Copied, CopiesDone, Locations!Behind
    <3> QED BY <2>3, <2>7, <2>6, <3>1 DEF Copied, Locations!InHistory
  <2>8. \A v \in Workers : WholeJob(job[v])' BY <2>5 DEF WholeJob
  <2> QED BY <2>3, <2>5, <2>7, <2>6, <2>8
<1>4. ASSUME NEW w \in Workers, NEW failed, Locations!SyncSeries(w, failed) PROVE HistoryInv'
  <2>1. PICK j : j = job[w] OBVIOUS
  <2>2. PICK new : new = [j EXCEPT !.pc = "commit"] OBVIOUS
  <2>3. /\ job' = [job EXCEPT ![w] = new] /\ j.pc = "sync"
        /\ series' = series \cup {[entity |-> e, location |-> j.loc] :
             e \in Locations!Behind(j) \ failed}
        /\ past' = [past EXCEPT !.gap = @ \/ failed # {}]
        /\ UNCHANGED <<rows, jobs>>
    BY <1>4, <2>1, <2>2 DEF Locations!SyncSeries
  <2>4. WholeJob(j) /\ j # Locations!Idle BY <2>1, <2>3 DEF Locations!Idle
  <2>5. /\ new = [pc |-> "commit", n |-> j.n, loc |-> j.loc, seen |-> j.seen, id |-> j.id]
    BY <2>2, <2>4 DEF WholeJob
  <2>6. WholeJob(new) /\ Locations!Behind(new) = Locations!Behind(j) /\ new.loc = j.loc
    BY <2>5 DEF WholeJob, Locations!Behind
  <2>7. /\ job' = [v \in Workers |-> job'[v]] /\ job'[w] = new
        /\ \A v \in Workers : v # w => job'[v] = job[v]
    BY <2>3
  <2>8. /\ past'.gap = (past.gap \/ failed # {}) /\ past'.gap \in BOOLEAN
        /\ past' = [raced |-> past'.raced, older |-> past'.older, missed |-> past'.missed,
                    gap |-> past'.gap]
    <3>1. PICK gap : gap = (past.gap \/ failed # {}) OBVIOUS
    <3>2. gap \in BOOLEAN BY <3>1
    <3>3. past' = [past EXCEPT !.gap = gap] BY <2>3, <3>1, Zenon
    <3>4. past' = [raced |-> past.raced, older |-> past.older, missed |-> past.missed, gap |-> gap]
      BY <3>3
    <3> QED BY <3>1, <3>2, <3>4
  <2>9. ASSUME Copied, failed = {} PROVE Copied'
    <3>1. series \subseteq series' BY <2>3
    <3>2. \A e \in Locations!Behind(new) : [entity |-> e, location |-> new.loc] \in series'
      BY <2>3, <2>6, <2>9
    <3>3. \A v \in Workers : job'[v].pc = "commit" => CopiesDone(v)'
      BY <2>7, <2>9, <3>1, <3>2 DEF Copied, CopiesDone, Locations!Behind
    <3> QED BY <2>3, <2>9, <3>1, <3>3 DEF Copied, Locations!InHistory
  <2>10. \A v \in Workers : WholeJob(job[v])' BY <2>6, <2>7 DEF WholeJob
  <2> QED BY <2>3, <2>7, <2>8, <2>9, <2>10
<1>5. ASSUME NEW w \in Workers, Locations!CommitLocations(w) PROVE HistoryInv'
  <2>1. PICK j : j = job[w] OBVIOUS
  <2>2. PICK new : new = [j EXCEPT !.pc = "dispatch"] OBVIOUS
  <2>3. /\ job' = [job EXCEPT ![w] = new] /\ j.pc = "commit"
        /\ rows' = [e \in Entities |->
             IF e \notin Locations!Behind(j) THEN rows[e]
             ELSE IF j.id[e] = 0 THEN Append(rows[e], j.loc)
             ELSE [rows[e] EXCEPT ![j.id[e]] = j.loc]]
        /\ UNCHANGED <<series, jobs, past>>
    BY <1>5, <2>1, <2>2 DEF Locations!CommitLocations
  <2>4. WholeJob(j) /\ j # Locations!Idle BY <2>1, <2>3 DEF Locations!Idle
  <2>5. new = [pc |-> "dispatch", n |-> j.n, loc |-> j.loc, seen |-> j.seen, id |-> j.id]
    BY <2>2, <2>4 DEF WholeJob
  <2>6. WholeJob(new) /\ new.pc = "dispatch" BY <2>5 DEF WholeJob
  <2>7. /\ job' = [v \in Workers |-> job'[v]] /\ job'[w] = new
        /\ \A v \in Workers : v # w => job'[v] = job[v]
    BY <2>3
  <2>8. PICK S : rows \in [Entities -> Seq(S)] OBVIOUS
  <2>9. Seq(S) \subseteq Seq(S \cup {j.loc}) BY SeqWider
  <2>10. ASSUME NEW e \in Entities
         PROVE  /\ rows'[e] \in Seq(S \cup {j.loc})
                /\ \A i \in DOMAIN rows'[e] :
                     \/ i \in DOMAIN rows[e] /\ rows'[e][i] = rows[e][i]
                     \/ e \in Locations!Behind(j) /\ rows'[e][i] = j.loc
    <3>1. CASE e \notin Locations!Behind(j) BY <3>1, <2>3, <2>8, <2>9
    <3>2. CASE e \in Locations!Behind(j) /\ j.id[e] = 0
      <4>1. rows'[e] = Append(rows[e], j.loc) BY <3>2, <2>3
      <4> QED BY <3>2, <4>1, <2>8, RowAppended
    <3>3. CASE e \in Locations!Behind(j) /\ j.id[e] # 0
      <4>1. rows'[e] = [rows[e] EXCEPT ![j.id[e]] = j.loc] BY <3>3, <2>3
      <4>2. /\ [rows[e] EXCEPT ![j.id[e]] = j.loc] \in Seq(S \cup {j.loc})
            /\ \A i \in DOMAIN [rows[e] EXCEPT ![j.id[e]] = j.loc] :
                 i \in DOMAIN rows[e]
                     /\ [rows[e] EXCEPT ![j.id[e]] = j.loc][i] \in {j.loc, rows[e][i]}
        BY <2>8, RowReplaced
      <4> QED BY <3>3, <4>1, <4>2
    <3> QED BY <3>1, <3>2, <3>3
  <2>11. rows' \in [Entities -> Seq(S \cup {j.loc})]
    <3>1. rows' = [e \in Entities |-> rows'[e]] BY <2>3
    <3> QED BY <2>10, <3>1
  <2>12. ASSUME Copied PROVE Copied'
    <3>1. \A e \in Locations!Behind(j) : [entity |-> e, location |-> j.loc] \in series
      BY <2>1, <2>3, <2>12 DEF Copied, CopiesDone
    <3>2. Locations!InHistory'
      BY <2>3, <2>10, <2>12, <3>1 DEF Copied, Locations!InHistory
    <3>3. \A v \in Workers : job'[v].pc = "commit" => CopiesDone(v)'
      BY <2>3, <2>6, <2>7, <2>12 DEF Copied, CopiesDone, Locations!Behind
    <3> QED BY <2>3, <2>12, <3>2, <3>3 DEF Copied
  <2>13. \A v \in Workers : WholeJob(job[v])' BY <2>6, <2>7 DEF WholeJob
  <2> QED BY <2>3, <2>7, <2>11, <2>12, <2>13
<1>6. ASSUME NEW w \in Workers, NEW enqueued \in BOOLEAN, Locations!Dispatch(w, enqueued)
      PROVE  HistoryInv'
  <2>1. PICK own : own = IF job[w].loc = Locations!Unknown THEN {} ELSE {Locations!Own(job[w])}
    OBVIOUS
  <2>2. /\ series' = series \cup own /\ jobs' \subseteq jobs \cup own
        /\ past' = [past EXCEPT !.missed = @ \/ ~enqueued]
        /\ job' = [job EXCEPT ![w] = Locations!Idle]
        /\ UNCHANGED rows
    BY <1>6, <2>1 DEF Locations!Dispatch
  <2>3. /\ job' = [v \in Workers |-> job'[v]] /\ job'[w] = Locations!Idle
        /\ \A v \in Workers : v # w => job'[v] = job[v]
    BY <2>2
  <2>4. /\ past'.gap = past.gap
        /\ past' = [raced |-> past'.raced, older |-> past'.older, missed |-> past'.missed,
                    gap |-> past'.gap]
    <3>1. PICK missed : past' = [past EXCEPT !.missed = missed] BY <2>2
    <3>2. past' = [raced |-> past.raced, older |-> past.older, missed |-> missed, gap |-> past.gap]
      BY <3>1
    <3> QED BY <3>2
  <2>5. \A r \in jobs' : r = [entity |-> r.entity, location |-> r.location]
    BY <2>1, <2>2 DEF Locations!Own
  <2>6. Copied => Copied'
    BY <2>2, <2>3
    DEF Copied, CopiesDone, Locations!InHistory, Locations!Behind, Locations!Idle
  <2>7. \A v \in Workers : WholeJob(job[v])' BY <2>3 DEF WholeJob
  <2> QED BY <2>2, <2>3, <2>4, <2>5, <2>6, <2>7
<1>7. ASSUME NEW w \in Workers, Locations!Again(w) PROVE HistoryInv'
  <2>1. job' = [job EXCEPT ![w] = Locations!Idle] /\ UNCHANGED <<rows, series, jobs, past>>
    BY <1>7 DEF Locations!Again
  <2>2. /\ job' = [v \in Workers |-> job'[v]] /\ job'[w] = Locations!Idle
        /\ \A v \in Workers : v # w => job'[v] = job[v]
    BY <2>1
  <2>3. Copied => Copied'
    BY <2>1, <2>2
    DEF Copied, CopiesDone, Locations!InHistory, Locations!Behind, Locations!Idle
  <2>4. \A v \in Workers : WholeJob(job[v])' BY <2>2 DEF WholeJob
  <2> QED BY <2>1, <2>2, <2>3, <2>4
<1>8. ASSUME NEW r \in jobs, Locations!Realtime(r) PROVE HistoryInv'
  <2>1. /\ jobs' = jobs \ {r} /\ rows' = [rows EXCEPT ![r.entity] = Locations!Update(r)]
        /\ UNCHANGED <<job, series, past>>
    BY <1>8 DEF Locations!Realtime
  <2>2. PICK S : rows \in [Entities -> Seq(S)] OBVIOUS
  <2>3. r = [entity |-> r.entity, location |-> r.location] OBVIOUS
  <2>4. Seq(S) \subseteq Seq(S \cup {r.location}) BY SeqWider
  <2>5. r.entity \in Entities =>
          /\ Locations!Update(r) \in Seq(S \cup {r.location})
          /\ \A i \in DOMAIN Locations!Update(r) :
               \/ i \in DOMAIN rows[r.entity] /\ Locations!Update(r)[i] = rows[r.entity][i]
               \/ Locations!Update(r)[i] = r.location
    <3> SUFFICES ASSUME r.entity \in Entities
                 PROVE  /\ Locations!Update(r) \in Seq(S \cup {r.location})
                        /\ \A i \in DOMAIN Locations!Update(r) :
                             \/ i \in DOMAIN rows[r.entity]
                                  /\ Locations!Update(r)[i] = rows[r.entity][i]
                             \/ Locations!Update(r)[i] = r.location
      OBVIOUS
    <3>1. CASE Locations!Update(r) = rows[r.entity] BY <3>1, <2>2, <2>4
    <3>2. CASE Locations!Update(r) = <<r.location>> BY <3>2
    <3>3. CASE Locations!Update(r) = [rows[r.entity] EXCEPT ![1] = r.location]
      <4>1. /\ [rows[r.entity] EXCEPT ![1] = r.location] \in Seq(S \cup {r.location})
            /\ \A i \in DOMAIN [rows[r.entity] EXCEPT ![1] = r.location] :
                 /\ i \in DOMAIN rows[r.entity]
                 /\ [rows[r.entity] EXCEPT ![1] = r.location][i] \in {r.location, rows[r.entity][i]}
        BY <2>2, RowReplaced
      <4> QED BY <3>3, <4>1
    <3> QED BY <3>1, <3>2, <3>3 DEF Locations!Update
  <2>6. \A e \in Entities : e # r.entity => rows'[e] = rows[e] BY <2>1, <2>2
  <2>7. r.entity \in Entities => rows'[r.entity] = Locations!Update(r) BY <2>1, <2>2
  <2>8. rows' \in [Entities -> Seq(S \cup {r.location})]
    <3>1. rows' = [e \in Entities |-> rows'[e]] BY <2>1, <2>2
    <3>2. \A e \in Entities : rows'[e] \in Seq(S \cup {r.location})
      BY <2>2, <2>4, <2>5, <2>6, <2>7
    <3> QED BY <3>1, <3>2
  <2>9. ASSUME Copied PROVE Copied'
    <3>1. r \in series BY <2>9 DEF Copied
    <3>2. Locations!InHistory'
      BY <2>1, <2>3, <2>5, <2>6, <2>7, <2>9, <3>1 DEF Copied, Locations!InHistory
    <3> QED BY <2>1, <2>9, <3>2 DEF Copied, CopiesDone, Locations!Behind
  <2> QED BY <2>1, <2>8, <2>9 DEF WholeJob
<1>9. ASSUME NEW r \in jobs, Locations!RealtimeFails(r) PROVE HistoryInv'
  <2>1. /\ jobs' = jobs \ {r} /\ past' = [past EXCEPT !.missed = TRUE]
        /\ UNCHANGED <<job, rows, series>>
    BY <1>9 DEF Locations!RealtimeFails
  <2>2. past' = [raced |-> past.raced, older |-> past.older, missed |-> TRUE, gap |-> past.gap]
    BY <2>1
  <2>3. Copied => Copied'
    BY <2>1 DEF Copied, CopiesDone, Locations!InHistory, Locations!Behind
  <2> QED BY <2>1, <2>2, <2>3 DEF WholeJob
<1> QED BY <1>1, <1>2, <1>3, <1>4, <1>5, <1>6, <1>7, <1>8, <1>9 DEF Locations!Next

\* Once nothing is left to do, every entity of the device has one row, at the newest place
\* any of them notified, and what a row says is in the series of its entity: for any number
\* of workers, entities, places, reports and faults.
THEOREM LocationsSettle ==
  ASSUME Locations!LocationAssumption
  PROVE  Locations!Spec => []Locations!LocationsAgree
<1>1. Locations!Spec => []LocationInv BY LocationInvariance
<1>2. Locations!Init => HistoryInv BY HistoryStarts
<1>3. HistoryInv /\ [Locations!Next]_Locations!vars => HistoryInv' BY HistorySteps
<1>4. LocationInv /\ HistoryInv => Locations!LocationsAgree
  BY AgreedHolds DEF HistoryInv, Copied, Locations!LocationsAgree, Locations!InHistory
<1> QED BY <1>1, <1>2, <1>3, <1>4, PTL DEF Locations!Spec

-----------------------------------------------------------------------------
(* The alarms.                                                             *)
CONSTANTS Measures, Alarms, Value, MaxTime
VARIABLES alarm, clock, alert, clean
Alerts == INSTANCE ThresholdAlarms

Listed(s) == {s[i] : i \in DOMAIN s}

\* What a job holds while no two overlapped: the state of the alarm as it is stored, and
\* then the actions of the transition it stored, some of which it has started.
Alerting(j) ==
  \/ j = Alerts!Idle
  \/ /\ j.pc = "loaded" /\ j = [pc |-> "loaded", n |-> j.n, up |-> up]
  \/ /\ j.pc = "decided" /\ j = [pc |-> "decided", up |-> up, active |-> j.active]
     /\ j.active \in BOOLEAN
  \/ /\ j.pc = "acting" /\ j = [pc |-> "acting", log |-> j.log, left |-> j.left]
     /\ j.log \in Seq(Alerts!Channels) /\ j.left \in Seq(Alerts!Channels)
     /\ Listed(j.log) \cup Listed(j.left) = alarm.actions[alert]
AlarmInv ==
  /\ alarm \in Alerts!AlarmConfig /\ clean \in BOOLEAN
  /\ job = [w \in Workers |-> job[w]]
  /\ clean => /\ up \in BOOLEAN /\ alert = Alerts!Trigger(up)
              /\ \A v, w \in Workers : job[v] # Alerts!Idle /\ job[w] # Alerts!Idle => v = w
              /\ \A w \in Workers : Alerting(job[w])

\* What a concatenation lists.
LEMMA ListedJoined ==
  ASSUME NEW S, NEW s \in Seq(S), NEW t \in Seq(S)
  PROVE  s \o t \in Seq(S) /\ Listed(s \o t) = Listed(s) \cup Listed(t)
<1> DEFINE u == s \o t
<1>1. u \in Seq(S) /\ Len(u) = Len(s) + Len(t) /\ Len(s) \in Nat /\ Len(t) \in Nat
  OBVIOUS
<1>2. \A i \in 1 .. Len(s) : u[i] = s[i] OBVIOUS
<1>3. \A i \in 1 .. Len(t) : u[Len(s) + i] = t[i] OBVIOUS
<1>4. DOMAIN u = 1 .. Len(u) /\ DOMAIN s = 1 .. Len(s) /\ DOMAIN t = 1 .. Len(t)
  BY <1>1
<1>5. \A i \in DOMAIN u : u[i] \in Listed(s) \cup Listed(t)
  <2> TAKE i \in DOMAIN u
  <2>1. CASE i <= Len(s) BY <1>1, <1>2, <1>4, <2>1 DEF Listed
  <2>2. CASE i > Len(s)
    <3>1. i - Len(s) \in 1 .. Len(t) /\ i = Len(s) + (i - Len(s)) BY <1>1, <1>4, <2>2
    <3>2. u[i] = t[i - Len(s)] BY <1>3, <3>1
    <3> QED BY <1>4, <3>1, <3>2 DEF Listed
  <2> QED BY <1>1, <1>4, <2>1, <2>2
<1>6. \A i \in DOMAIN s : s[i] \in Listed(u)
  <2> TAKE i \in DOMAIN s
  <2>1. i \in DOMAIN u /\ u[i] = s[i] BY <1>1, <1>2, <1>4
  <2> QED BY <2>1 DEF Listed
<1>7. \A i \in DOMAIN t : t[i] \in Listed(u)
  <2> TAKE i \in DOMAIN t
  <2>1. Len(s) + i \in DOMAIN u /\ u[Len(s) + i] = t[i] BY <1>1, <1>3, <1>4
  <2> QED BY <2>1 DEF Listed
<1> HIDE DEF u
<1>8. Listed(u) = Listed(s) \cup Listed(t) BY <1>5, <1>6, <1>7 DEF Listed
<1> QED BY <1>1, <1>8 DEF u

\* The actions of an alarm are those of the channels that are configured.
LEMMA ActionsListed ==
  ASSUME alarm \in Alerts!AlarmConfig, NEW active
  PROVE  Alerts!Actions(active) \in Seq(Alerts!Channels)
         /\ Listed(Alerts!Actions(active)) = alarm.actions[Alerts!Trigger(active)]
<1> DEFINE A == alarm.actions[Alerts!Trigger(active)]
           Of(c) == IF c \in A THEN <<c>> ELSE <<>>
<1>1. A \subseteq Alerts!Channels BY DEF Alerts!AlarmConfig, Alerts!Trigger, Alerts!Triggers
<1>2. ASSUME NEW c \in Alerts!Channels
      PROVE  Of(c) \in Seq(Alerts!Channels) /\ Listed(Of(c)) = A \cap {c}
  <2>1. <<c>> \in Seq(Alerts!Channels) /\ DOMAIN <<c>> = {1} /\ <<c>>[1] = c OBVIOUS
  <2>2. Listed(<<c>>) = {c} BY <2>1 DEF Listed
  <2>3. <<>> \in Seq(Alerts!Channels) /\ Listed(<<>>) = {} BY DEF Listed
  <2> HIDE DEF A
  <2> QED BY <2>1, <2>2, <2>3
<1>3. Alerts!Actions(active) =
        Of("notification") \o Of("email") \o Of("http_push") \o Of("entity_command")
  BY DEF Alerts!Actions
<1>4. {"notification", "email", "http_push", "entity_command"} = Alerts!Channels
  BY DEF Alerts!Channels
<1> HIDE DEF A, Of
<1> DEFINE two == Of("notification") \o Of("email")
           three == two \o Of("http_push")
<1>5. two \in Seq(Alerts!Channels) /\ Listed(two) = A \cap {"notification", "email"}
  BY <1>2, <1>4, ListedJoined
<1> HIDE DEF two
<1>6. three \in Seq(Alerts!Channels)
      /\ Listed(three) = A \cap {"notification", "email", "http_push"}
  BY <1>2, <1>4, <1>5, ListedJoined
<1> HIDE DEF three
<1>7. /\ three \o Of("entity_command") \in Seq(Alerts!Channels)
      /\ Listed(three \o Of("entity_command")) =
           A \cap {"notification", "email", "http_push", "entity_command"}
  BY <1>2, <1>4, <1>6, ListedJoined
<1>8. Alerts!Actions(active) = three \o Of("entity_command") BY <1>3 DEF two, three
<1>9. A \cap {"notification", "email", "http_push", "entity_command"} = A BY <1>1, <1>4
<1> QED BY <1>7, <1>8, <1>9 DEF A

\* Nothing is queued, checked or announced at the start.
LEMMA AlarmStarts == ASSUME Alerts!AlarmAssumption PROVE Alerts!Init => AlarmInv
BY DEF Alerts!Init, AlarmInv, Alerts!AlarmAssumption, Alerts!Trigger, Alerting

\* The conditions of an alarm combine to yes or no.
LEMMA ActivatedIsBoolean ==
  ASSUME alarm \in Alerts!AlarmConfig, NEW values, NEW ts
  PROVE  Alerts!Activated(values, ts) \in BOOLEAN
BY DEF Alerts!Activated, Alerts!Combine, Alerts!AlarmConfig

\* Every step leaves the jobs where a job can be while nothing disturbs them.
LEMMA AlarmSteps == ASSUME AlarmInv, [Alerts!Next]_Alerts!vars PROVE AlarmInv'
<1>1. CASE UNCHANGED Alerts!vars BY <1>1 DEF Alerts!vars, AlarmInv, Alerting
<1>2. ASSUME UNCHANGED <<alarm, up, job, alert, clean>> PROVE AlarmInv'
  BY <1>2 DEF AlarmInv, Alerting
<1>3. CASE Alerts!Tick BY <1>2, <1>3 DEF Alerts!Tick
<1>4. ASSUME NEW m \in Measures, NEW v \in Value, Alerts!Report(m, v) PROVE AlarmInv'
  BY <1>2, <1>4 DEF Alerts!Report
<1>5. ASSUME NEW w \in Workers, NEW n \in queue, Alerts!Load(w, n) PROVE AlarmInv'
  <2>1. PICK new : new = [pc |-> "loaded", n |-> n, up |-> up] OBVIOUS
  <2>2. /\ job[w] = Alerts!Idle /\ job' = [job EXCEPT ![w] = new]
        /\ clean' \in BOOLEAN /\ (clean' => clean /\ ~Alerts!Busy)
        /\ UNCHANGED <<alarm, up, alert>>
    BY <1>5, <2>1 DEF Alerts!Load, AlarmInv
  <2>3. /\ job' = [v \in Workers |-> job'[v]] /\ job'[w] = new
        /\ \A v \in Workers : v # w => job'[v] = job[v]
    BY <2>2 DEF AlarmInv
  <2>4. Alerting(new)' BY <2>1, <2>2 DEF Alerting
  <2>5. clean' => \A v \in Workers : job[v] = Alerts!Idle BY <2>2 DEF Alerts!Busy
  <2>6. ASSUME clean', NEW v \in Workers PROVE Alerting(job[v])'
    BY <2>3, <2>4, <2>5, <2>6 DEF Alerting
  <2> QED BY <2>2, <2>3, <2>5, <2>6 DEF AlarmInv
<1>6. ASSUME NEW w \in Workers, NEW readable \in BOOLEAN, Alerts!Decide(w, readable)
      PROVE  AlarmInv'
  <2>0. PICK active : active = Alerts!Activated(Alerts!Values(job[w].n, readable), job[w].n.ts)
    OBVIOUS
  <2>1. PICK new : new = [pc |-> "decided", up |-> job[w].up, active |-> active] OBVIOUS
  <2>2. /\ job[w].pc = "loaded" /\ job' = [job EXCEPT ![w] = new]
        /\ clean' \in BOOLEAN /\ (clean' => clean)
        /\ UNCHANGED <<alarm, up, alert>>
    BY <1>6, <2>0, <2>1 DEF Alerts!Decide, AlarmInv
  <2>3. /\ job' = [v \in Workers |-> job'[v]] /\ job'[w] = new
        /\ \A v \in Workers : v # w => job'[v] = job[v]
    BY <2>2 DEF AlarmInv

  <2>4. active \in BOOLEAN BY <2>0, ActivatedIsBoolean DEF AlarmInv
  <2>5. job[w] # Alerts!Idle BY <2>2 DEF Alerts!Idle
  <2>6. ASSUME clean' PROVE job[w].up = up BY <2>2, <2>5, <2>6 DEF AlarmInv, Alerting
  <2>7. ASSUME clean' PROVE Alerting(new)'
    <3>1. new = [pc |-> "decided", up |-> up', active |-> new.active] /\ new.pc = "decided"
          /\ new.active = active
      BY <2>1, <2>2, <2>6, <2>7
    <3> QED BY <2>4, <3>1 DEF Alerting
  <2>8. ASSUME clean', NEW v \in Workers PROVE Alerting(job[v])'
    <3>1. CASE v = w BY <2>3, <2>7, <2>8, <3>1
    <3>2. CASE v # w BY <2>2, <2>3, <2>8, <3>2 DEF AlarmInv, Alerting
    <3> QED BY <3>1, <3>2
  <2>9. clean' => \A u, v \in Workers : job'[u] # Alerts!Idle /\ job'[v] # Alerts!Idle =>
          u = v
    BY <2>2, <2>3, <2>5 DEF AlarmInv
  <2> QED BY <2>2, <2>3, <2>8, <2>9 DEF AlarmInv
<1>7. ASSUME NEW w \in Workers, Alerts!Update(w) PROVE AlarmInv'
  <2>0. PICK active : active = job[w].active OBVIOUS
  <2>1. job[w].pc = "decided" /\ UNCHANGED <<alarm, clean>> /\ job[w] # Alerts!Idle
    BY <1>7 DEF Alerts!Update, Alerts!Idle
  <2>2. clean => job[w].up = up /\ active \in BOOLEAN
    BY <2>0, <2>1 DEF AlarmInv, Alerting, Alerts!Idle
  <2>3. CASE job[w].up = active
    <3>1. job' = [job EXCEPT ![w] = Alerts!Idle] /\ UNCHANGED <<up, alert>>
      BY <1>7, <2>0, <2>3 DEF Alerts!Update
    <3>2. /\ job' = [v \in Workers |-> job'[v]] /\ job'[w] = Alerts!Idle
          /\ \A v \in Workers : v # w => job'[v] = job[v]
      BY <3>1 DEF AlarmInv
    <3> QED BY <2>1, <3>1, <3>2 DEF AlarmInv, Alerting
  <2>4. CASE job[w].up # active
    <3>1. PICK new : new = [pc |-> "acting", log |-> <<>>, left |-> Alerts!Actions(active)] OBVIOUS
    <3>2. /\ up' = active /\ alert' = Alerts!Trigger(active) /\ job' = [job EXCEPT ![w] = new]
      BY <1>7, <2>0, <2>4, <3>1 DEF Alerts!Update
    <3>3. /\ job' = [v \in Workers |-> job'[v]] /\ job'[w] = new
          /\ \A v \in Workers : v # w => job'[v] = job[v]
      BY <3>2 DEF AlarmInv
    <3>4. Alerting(new)'
      <4>1. Listed(<<>>) = {} /\ <<>> \in Seq(Alerts!Channels) BY DEF Listed
      <4>2. /\ new.pc = "acting" /\ new.log = <<>> /\ new.left = Alerts!Actions(active)
            /\ new = [pc |-> "acting", log |-> new.log, left |-> new.left]
        BY <3>1
      <4>3. new.left \in Seq(Alerts!Channels) /\ Listed(new.left) = alarm'.actions[alert']
        BY <2>1, <3>2, <4>2, ActionsListed DEF AlarmInv
      <4> QED BY <4>1, <4>2, <4>3 DEF Alerting, Listed
    <3>5. ASSUME clean', NEW v \in Workers PROVE Alerting(job[v])'
      <4>1. CASE v = w BY <3>3, <3>4, <4>1
      <4>2. CASE v # w
        <5>1. job[v] = Alerts!Idle BY <2>1, <3>5, <4>2 DEF AlarmInv
        <5> QED BY <3>3, <4>2, <5>1 DEF Alerting
      <4> QED BY <4>1, <4>2
    <3>6. clean' => \A u, v \in Workers : job'[u] # Alerts!Idle /\ job'[v] # Alerts!Idle =>
            u = v
      BY <2>1, <3>3 DEF AlarmInv
    <3> QED BY <2>1, <2>2, <3>2, <3>3, <3>5, <3>6 DEF AlarmInv, Alerts!Trigger
  <2> QED BY <2>3, <2>4
<1>8. ASSUME NEW w \in Workers, Alerts!Finish(w) PROVE AlarmInv'
  <2>1. job' = [job EXCEPT ![w] = Alerts!Idle] /\ UNCHANGED <<alarm, up, alert, clean>>
    BY <1>8 DEF Alerts!Finish
  <2>2. /\ job' = [v \in Workers |-> job'[v]] /\ job'[w] = Alerts!Idle
        /\ \A v \in Workers : v # w => job'[v] = job[v]
    BY <2>1 DEF AlarmInv
  <2> QED BY <2>1, <2>2 DEF AlarmInv, Alerting
<1>9. ASSUME NEW w \in Workers, Alerts!Kill(w) PROVE AlarmInv'
  <2>1. job' = [job EXCEPT ![w] = Alerts!Idle] /\ clean' = FALSE /\ UNCHANGED alarm
    BY <1>9 DEF Alerts!Kill
  <2> QED BY <2>1 DEF AlarmInv
<1>10. ASSUME NEW w \in Workers, NEW log, Alerts!Act(w, log) PROVE AlarmInv'
  <2>0. PICK j : j = job[w] OBVIOUS
  <2>1. PICK new : new = [j EXCEPT !.left = Tail(@), !.log = Append(@, Head(j.left))] OBVIOUS
  <2>2. /\ j.pc = "acting" /\ j.left # <<>> /\ job' = [job EXCEPT ![w] = new]
        /\ UNCHANGED <<alarm, up, alert, clean>>
    BY <1>10, <2>0, <2>1 DEF Alerts!Act
  <2>3. /\ job' = [v \in Workers |-> job'[v]] /\ job'[w] = new
        /\ \A v \in Workers : v # w => job'[v] = job[v]
        /\ job[w] # Alerts!Idle
    BY <2>0, <2>2 DEF AlarmInv, Alerts!Idle
  <2>4. ASSUME clean PROVE Alerting(new)'
    <3>1. /\ j = [pc |-> "acting", log |-> j.log, left |-> j.left]
          /\ j.log \in Seq(Alerts!Channels) /\ j.left \in Seq(Alerts!Channels)
          /\ Listed(j.log) \cup Listed(j.left) = alarm.actions[alert]
      BY <2>0, <2>2, <2>3, <2>4 DEF AlarmInv, Alerting
    <3>2. new = [pc |-> "acting", log |-> Append(j.log, Head(j.left)), left |-> Tail(j.left)]
      <4>1. PICK t, l : t = Tail(j.left) /\ l = Append(j.log, Head(j.left)) OBVIOUS
      <4>2. new = [j EXCEPT !.left = t, !.log = l]
        <5>1. l = Append([j EXCEPT !.left = t].log, Head(j.left)) BY <3>1, <4>1
        <5> QED BY <2>1, <4>1, <5>1
      <4>3. [j EXCEPT !.left = t, !.log = l] = [pc |-> "acting", log |-> l, left |-> t]
        <5>1. PICK a, b : j = [pc |-> "acting", log |-> a, left |-> b] BY <3>1
        <5>2. PICK k : k = [j EXCEPT !.left = t] OBVIOUS
        <5>3. k = [pc |-> "acting", log |-> a, left |-> t] BY <5>1, <5>2
        <5>4. [k EXCEPT !.log = l] = [pc |-> "acting", log |-> l, left |-> t] BY <5>3
        <5> QED BY <5>2, <5>4
      <4> QED BY <4>1, <4>2, <4>3
    <3>3. /\ Head(j.left) \in Alerts!Channels /\ Tail(j.left) \in Seq(Alerts!Channels)
          /\ j.left = <<Head(j.left)>> \o Tail(j.left)
          /\ Append(j.log, Head(j.left)) = j.log \o <<Head(j.left)>>
          /\ <<Head(j.left)>> \in Seq(Alerts!Channels)
      BY <2>2, <3>1
    <3>4. /\ Append(j.log, Head(j.left)) \in Seq(Alerts!Channels)
          /\ Listed(Append(j.log, Head(j.left))) \cup Listed(Tail(j.left)) =
               Listed(j.log) \cup Listed(j.left)
      <4>1. PICK one, rest : one = <<Head(j.left)>> /\ rest = Tail(j.left) OBVIOUS
      <4>2. /\ one \in Seq(Alerts!Channels) /\ rest \in Seq(Alerts!Channels)
            /\ j.log \in Seq(Alerts!Channels)
            /\ j.left = one \o rest /\ Append(j.log, Head(j.left)) = j.log \o one
        BY <3>1, <3>3, <4>1
      <4>3. /\ j.log \o one \in Seq(Alerts!Channels)
            /\ Listed(j.log \o one) = Listed(j.log) \cup Listed(one)
        BY <4>2, ListedJoined
      <4>4. Listed(one \o rest) = Listed(one) \cup Listed(rest) BY <4>2, ListedJoined
      <4> QED BY <4>1, <4>2, <4>3, <4>4
    <3>5. /\ new.pc = "acting" /\ new.log = Append(j.log, Head(j.left)) /\ new.left = Tail(j.left)
          /\ new = [pc |-> "acting", log |-> new.log, left |-> new.left]
      BY <3>2
    <3>6. Listed(new.log) \cup Listed(new.left) = alarm'.actions[alert']
      BY <2>2, <3>1, <3>4, <3>5
    <3> QED BY <3>3, <3>4, <3>5, <3>6 DEF Alerting, Listed
  <2>5. ASSUME clean', NEW v \in Workers PROVE Alerting(job[v])'
    <3>1. CASE v = w BY <2>2, <2>3, <2>4, <2>5, <3>1
    <3>2. CASE v # w
      <4>1. job[v] = Alerts!Idle BY <2>2, <2>3, <2>5, <3>2 DEF AlarmInv
      <4> QED BY <2>3, <3>2, <4>1 DEF Alerting
    <3> QED BY <3>1, <3>2
  <2>6. clean' => \A u, v \in Workers : job'[u] # Alerts!Idle /\ job'[v] # Alerts!Idle =>
          u = v
    BY <2>2, <2>3 DEF AlarmInv
  <2> QED BY <2>2, <2>3, <2>5, <2>6 DEF AlarmInv
<1> QED BY <1>1, <1>3, <1>4, <1>5, <1>6, <1>7, <1>8, <1>9, <1>10 DEF Alerts!Next

\* AlarmsJob: as long as no jobs overlapped, died, failed to read or came late, the stored
\* state of the alarm is the one last announced, one job at most is under way, it knows that
\* state, and what it has done and has left to do are the actions of its transition.
THEOREM AlarmInvariance == ASSUME Alerts!AlarmAssumption PROVE Alerts!Spec => []AlarmInv
<1>1. Alerts!Init => AlarmInv BY AlarmStarts
<1>2. AlarmInv /\ [Alerts!Next]_Alerts!vars => AlarmInv' BY AlarmSteps
<1> QED BY <1>1, <1>2, PTL DEF Alerts!Spec

\* What a step does to the job of a worker.
LEMMA JobSteps ==
  ASSUME AlarmInv, [Alerts!Next]_Alerts!vars, NEW w \in Workers
  PROVE  /\ job[w].pc = "decided" /\ job'[w].pc = "acting" => Alerts!Update(w)
         /\ job[w].pc = "acting" /\ job'[w] = Alerts!Idle => Alerts!Finish(w) \/ ~clean'
<1>0. CASE job'[w] = job[w] BY <1>0 DEF Alerts!Idle
<1>1. CASE UNCHANGED job BY <1>0, <1>1
<1>2. ASSUME NEW v \in Workers, NEW new, job' = [job EXCEPT ![v] = new], v # w
      PROVE  job'[w] = job[w]
  BY <1>2 DEF AlarmInv
<1>3. CASE UNCHANGED Alerts!vars BY <1>1, <1>3 DEF Alerts!vars
<1>4. CASE Alerts!Tick BY <1>1, <1>4 DEF Alerts!Tick
<1>5. ASSUME NEW m \in Measures, NEW v \in Value, Alerts!Report(m, v) PROVE UNCHANGED job
  BY <1>5 DEF Alerts!Report
<1>6. ASSUME NEW v \in Workers, NEW n \in queue, Alerts!Load(v, n)
      PROVE  job'[w] = job[w] \/ job[w].pc = "idle"
  BY <1>2, <1>6 DEF Alerts!Load, Alerts!Idle
<1>7. ASSUME NEW v \in Workers, NEW readable \in BOOLEAN, Alerts!Decide(v, readable)
      PROVE  job'[w] = job[w] \/ (job[w].pc = "loaded")
  BY <1>2, <1>7 DEF Alerts!Decide
<1>8. ASSUME NEW v \in Workers, Alerts!Update(v)
      PROVE  job'[w] = job[w] \/ (job[w].pc = "decided" /\ Alerts!Update(w))
  BY <1>2, <1>8 DEF Alerts!Update
<1>9. ASSUME NEW v \in Workers, Alerts!Finish(v)
      PROVE  job'[w] = job[w] \/ (job[w].pc = "acting" /\ job'[w] = Alerts!Idle /\ Alerts!Finish(w))
  BY <1>2, <1>9 DEF Alerts!Finish, AlarmInv
<1>10. ASSUME NEW v \in Workers, Alerts!Kill(v)
       PROVE  job'[w] = job[w] \/ (job'[w] = Alerts!Idle /\ ~clean')
  BY <1>2, <1>10 DEF Alerts!Kill, AlarmInv
<1>11. ASSUME NEW v \in Workers, NEW log, Alerts!Act(v, log)
       PROVE  job'[w] = job[w] \/ (job[w].pc = "acting" /\ (job'[w] # Alerts!Idle \/ ~clean'))
  <2>1. CASE v # w BY <1>2, <1>11, <2>1 DEF Alerts!Act
  <2>2. CASE v = w /\ clean
    <3>1. PICK t, l : job' = [job EXCEPT ![w] = [job[w] EXCEPT !.left = t, !.log = l]]
      BY <1>11, <2>2 DEF Alerts!Act
    <3>2. job[w].pc = "acting" BY <1>11, <2>2 DEF Alerts!Act
    <3>3. job[w] = [pc |-> "acting", log |-> job[w].log, left |-> job[w].left]
      BY <2>2, <3>2 DEF AlarmInv, Alerting, Alerts!Idle
    <3>4. [job[w] EXCEPT !.left = t, !.log = l].pc = "acting" BY <3>3
    <3> QED BY <3>1, <3>2, <3>4 DEF AlarmInv, Alerts!Idle
  <2>3. CASE v = w /\ ~clean BY <1>11, <2>3 DEF Alerts!Act
  <2> QED BY <2>1, <2>2, <2>3 DEF AlarmInv
<1>12. job'[w] = Alerts!Idle => job'[w].pc = "idle" BY DEF Alerts!Idle
<1> QED
  BY <1>0, <1>1, <1>3, <1>4, <1>5, <1>6, <1>7, <1>8, <1>9, <1>10, <1>11, <1>12 DEF Alerts!Next

\* AlarmsJob: unless jobs overlapped, died, failed to read or came late, nobody is told
\* twice in a row that the alarm went up, or down, and a job that ends after a transition
\* has tried each of the actions of the alarm, whichever failed; for any workers, alarms,
\* measures and values.
THEOREM AlertsAreSound ==
  ASSUME Alerts!AlarmAssumption
  PROVE  Alerts!Spec => Alerts!AlertsSound
<1>1. ASSUME AlarmInv, [Alerts!Next]_Alerts!vars
      PROVE  Alerts!Alternates /\ Alerts!EveryActionTried
  <2>1. Alerts!Alternates
    <3> SUFFICES ASSUME NEW w \in Workers, job[w].pc = "decided", job'[w].pc = "acting", clean
                 PROVE  alert' # alert
      BY DEF Alerts!Alternates
    <3>1. Alerts!Update(w) BY <1>1, JobSteps
    <3>2. job[w].up = up /\ job[w].active \in BOOLEAN /\ up \in BOOLEAN
          /\ alert = Alerts!Trigger(up)
      BY <1>1 DEF AlarmInv, Alerting, Alerts!Idle
    <3>3. CASE job[w].up = job[w].active
      <4>1. job'[w] = Alerts!Idle BY <1>1, <3>1, <3>3 DEF Alerts!Update, AlarmInv
      <4> QED BY <4>1 DEF Alerts!Idle
    <3>4. CASE job[w].up # job[w].active
      <4>1. alert' = Alerts!Trigger(job[w].active) BY <3>1, <3>4 DEF Alerts!Update
      <4> QED BY <3>2, <3>4, <4>1 DEF Alerts!Trigger
    <3> QED BY <3>3, <3>4
  <2>2. Alerts!EveryActionTried
    <3> SUFFICES ASSUME NEW w \in Workers, job[w].pc = "acting", job'[w] = Alerts!Idle, clean'
                 PROVE  Listed(job[w].log) = alarm.actions[alert]
      BY DEF Alerts!EveryActionTried, Listed
    <3>1. Alerts!Finish(w) BY <1>1, JobSteps
    <3>2. job[w].left = <<>> /\ clean BY <3>1 DEF Alerts!Finish
    <3>3. Listed(job[w].log) \cup Listed(job[w].left) = alarm.actions[alert]
      BY <1>1, <3>2 DEF AlarmInv, Alerting, Alerts!Idle
    <3>4. Listed(<<>>) = {} BY DEF Listed
    <3> QED BY <3>2, <3>3, <3>4
  <2> QED BY <2>1, <2>2
<1>2. AlarmInv /\ [Alerts!Next]_Alerts!vars =>
        [Alerts!Alternates /\ Alerts!EveryActionTried]_Alerts!vars
  BY <1>1
<1>3. Alerts!Spec => []AlarmInv BY AlarmInvariance
<1> QED BY <1>2, <1>3, PTL DEF Alerts!Spec, Alerts!AlertsSound

-----------------------------------------------------------------------------
(* The rows of an entity in the realtime database: what a query finds, and *)
(* when a report may lower the mark of a pending command.                  *)
CONSTANTS Values, MaxSends
VARIABLES one, cmds, sender, sent, told, reports
Realtime == INSTANCE RealtimeRows

Props == {"measure", "commands"}

-----------------------------------------------------------------------------
(* The inductive invariant.                                                *)

Loaded == [pc : {"loaded"}, n :
  Realtime!Notification, cmd : Seq(Realtime!CommandRow), prop : Seq(Realtime!PropertyRow)]
Selected == [pc : {"selected"}, n : Realtime!Notification, cmd : Seq(Realtime!CommandRow),
             prop : Seq(Realtime!PropertyRow), seen :
               Seq(Realtime!CommandRow), older : SUBSET Int]

StoresOK == cmds \in Seq(Realtime!CommandRow) /\ rows \in [Props -> Seq(Realtime!PropertyRow)]
JobsOK == job \in [Workers -> {Realtime!Idle} \cup Loaded \cup Selected]
PastOK == past \in [raced : BOOLEAN, late : BOOLEAN, newest : [Props -> Int]]
CountsOK ==
  /\ sender \in [Realtime!Senders -> Values \cup {None}]
  /\ sent \in 0 .. MaxSends /\ told \in 0 .. sent /\ reports \in 0 .. MaxReports
Types ==
  /\ one \in BOOLEAN /\ clock \in Realtime!Time /\ queue \subseteq Realtime!Notification
  /\ StoresOK /\ JobsOK /\ PastOK /\ CountsOK

\* Raising or changing a mark writes updated_at.
Aged(commands) ==
  \A i \in DOMAIN commands : /\ commands[i].marked <= commands[i].updated
                             /\ commands[i].updated <= clock

\* The marks a job lowers were older than its report when it looked at them.
Looked ==
  \A w \in Workers : job[w].pc = "selected" =>
    \A i \in job[w].older : i \in DOMAIN job[w].seen /\ job[w].seen[i].marked < job[w].n.ts

\* While writers do not overlap, what a job loaded is what is stored.
OneWriter ==
  ~past.raced =>
    /\ \A v, w \in Workers : job[v] # Realtime!Idle /\ job[w] # Realtime!Idle => v = w
    /\ \A w \in Workers : job[w] # Realtime!Idle =>
         /\ job[w].cmd = cmds
         /\ job[w].n.prop # "none" => job[w].prop = rows[job[w].n.prop]
    /\ Len(cmds) <= 1

RowsInv == Types /\ Aged(cmds) /\ Looked /\ OneWriter /\ Realtime!RowsCurrent

-----------------------------------------------------------------------------
(* The operators of the model.                                             *)

LEMMA RowFields ==
  ASSUME NEW row \in Realtime!CommandRow
  PROVE  row = [available |-> row.available, pending |-> row.pending, value |-> row.value,
                statusTs |-> row.statusTs, updated |-> row.updated, marked |-> row.marked]
BY DEF Realtime!CommandRow

\* What process_commands_property_update and process_command_update leave alone.
LEMMA AvailabilityRow ==
  ASSUME NEW j, j.n \in Realtime!Notification, NEW row \in Realtime!CommandRow
  PROVE  /\ Realtime!Availability(j, row) \in Realtime!CommandRow
         /\ Realtime!Availability(j, row).pending = row.pending
         /\ Realtime!Availability(j, row).marked = row.marked
         /\ \/ Realtime!Availability(j, row) = row
            \/ Realtime!Availability(j, row).available = ("c" \in j.n.list)
<1> DEFINE b == "c" \in j.n.list
<1>1. Realtime!Availability(j, row) \in {row, [row EXCEPT !.available = b]}
  BY DEF Realtime!Availability
<1>2. b \in BOOLEAN OBVIOUS
<1> HIDE DEF b
<1>3. /\ [row EXCEPT !.available = b] \in Realtime!CommandRow
      /\ [row EXCEPT !.available = b].pending = row.pending
      /\ [row EXCEPT !.available = b].marked = row.marked
      /\ [row EXCEPT !.available = b].available = b
  BY <1>2 DEF Realtime!CommandRow
<1> QED BY <1>1, <1>3 DEF b

LEMMA StatusRow ==
  ASSUME NEW j, j.n \in Realtime!Notification, NEW row \in Realtime!CommandRow,
         one \in BOOLEAN
  PROVE  /\ Realtime!CommandStatus(j, row) \in Realtime!CommandRow
         /\ Realtime!CommandStatus(j, row).available = row.available
         /\ Realtime!CommandStatus(j, row).marked = row.marked
         /\ j.n.status = "none" => Realtime!CommandStatus(j, row) = row
BY DEF Realtime!CommandStatus, Realtime!CommandRow, Realtime!Notification

\* A write keeps the columns that the writer did not change.
LEMMA WriteRow ==
  ASSUME NEW current \in Realtime!CommandRow, NEW loaded \in Realtime!CommandRow,
         NEW new \in Realtime!CommandRow,
         clock \in Realtime!Time
  PROVE  /\ Realtime!Write(current, loaded, new) \in Realtime!CommandRow
         /\ Realtime!Write(current, loaded, new) = current
              \/ Realtime!Write(current, loaded, new).updated = clock
         /\ new.marked = loaded.marked =>
              Realtime!Write(current, loaded, new).marked = current.marked
         /\ new.pending = loaded.pending =>
              Realtime!Write(current, loaded, new).pending = current.pending
         /\ current.available = loaded.available
              => Realtime!Write(current, loaded, new).available = new.available
         /\ new = loaded => Realtime!Write(current, loaded, new) = current
<1> DEFINE Pick(f) == IF new[f] # loaded[f] THEN new[f] ELSE current[f]
           W == [f \in DOMAIN current |-> Pick(f)]
<1>1. CASE new = loaded BY <1>1 DEF Realtime!Write
<1>2. CASE new # loaded
  <2>1. Realtime!Write(current, loaded, new) = [W EXCEPT !.updated = clock]
    BY <1>2 DEF Realtime!Write
  <2>2. DOMAIN current = {"available", "pending", "value", "statusTs", "updated", "marked"}
    BY DEF Realtime!CommandRow
  <2>3. /\ W.available = Pick("available") /\ W.pending = Pick("pending")
        /\ W.value = Pick("value") /\ W.statusTs = Pick("statusTs")
        /\ W.marked = Pick("marked") /\ W.updated = Pick("updated")
    BY <2>2
  <2>4. W = [available |-> W.available, pending |-> W.pending, value |-> W.value,
             statusTs |-> W.statusTs, updated |-> W.updated, marked |-> W.marked]
    BY <2>2
  <2> HIDE DEF W
  <2>5. /\ Pick("available") \in BOOLEAN /\ Pick("pending") \in BOOLEAN
        /\ Pick("value") \in Values \cup {None} /\ Pick("statusTs") \in Realtime!Time
        /\ Pick("marked") \in Realtime!Time
    BY DEF Realtime!CommandRow
  <2>6. [W EXCEPT !.updated = clock] =
          [available |-> W.available, pending |-> W.pending, value |-> W.value,
           statusTs |-> W.statusTs, updated |-> clock, marked |-> W.marked]
    BY <2>4
  <2>7. [W EXCEPT !.updated = clock] \in Realtime!CommandRow
    BY <2>3, <2>5, <2>6 DEF Realtime!CommandRow
  <2>8. /\ [W EXCEPT !.updated = clock].updated = clock
        /\ [W EXCEPT !.updated = clock].marked = Pick("marked")
        /\ [W EXCEPT !.updated = clock].pending = Pick("pending")
        /\ [W EXCEPT !.updated = clock].available = Pick("available")
    BY <2>3, <2>6
  <2> QED BY <1>2, <2>1, <2>7, <2>8
<1> QED BY <1>1, <1>2

\* A function on the places of a sequence is a sequence as long.
LEMMA MapSeq ==
  ASSUME NEW S, NEW T, NEW seq \in Seq(S), NEW f, DOMAIN f = DOMAIN seq,
         f = [i \in DOMAIN seq |-> f[i]], \A i \in DOMAIN seq : f[i] \in T
  PROVE  f \in Seq(T) /\ Len(f) = Len(seq)
<1>1. Len(seq) \in Nat /\ DOMAIN seq = 1 .. Len(seq) BY LenProperties
<1>2. f \in [1 .. Len(seq) -> T] BY <1>1
<1>3. f \in Seq(T) BY <1>1, <1>2, SeqDef
<1> QED BY <1>1, <1>3, LenProperties

\* The history of the marks changes nothing else, and a mark is raised by a row
\* that is written now.
LEMMA MarkedRows ==
  ASSUME NEW before, NEW after \in Seq(Realtime!CommandRow), clock \in Realtime!Time
  PROVE  /\ Realtime!Marked(before, after) \in Seq(Realtime!CommandRow)
         /\ Len(Realtime!Marked(before, after)) = Len(after)
         /\ DOMAIN Realtime!Marked(before, after) = DOMAIN after
         /\ \A i \in DOMAIN after :
              /\ Realtime!Marked(before, after)[i].available = after[i].available
              /\ Realtime!Marked(before, after)[i].pending = after[i].pending
              /\ Realtime!Marked(before, after)[i].updated = after[i].updated
              /\ \/ Realtime!Marked(before, after)[i] = after[i]
                 \/ /\ Realtime!Marked(before, after)[i].marked = clock
                    /\ i \notin DOMAIN before \/ before[i] # after[i]
<1> DEFINE M == Realtime!Marked(before, after)
           Stamped(i) == [after[i] EXCEPT !.marked = clock]
<1>1. M = [i \in DOMAIN after |->
             IF after[i].pending /\ (i \notin DOMAIN before \/ before[i] # after[i])
             THEN Stamped(i) ELSE after[i]]
  BY DEF Realtime!Marked
<1>2. ASSUME NEW i \in DOMAIN after
      PROVE  /\ after[i] \in Realtime!CommandRow /\ Stamped(i) \in Realtime!CommandRow
             /\ Stamped(i).available = after[i].available
             /\ Stamped(i).pending = after[i].pending
             /\ Stamped(i).updated = after[i].updated
             /\ Stamped(i).marked = clock
  <2>1. after[i] \in Realtime!CommandRow BY LenProperties, ElementOfSeq
  <2> QED BY <2>1 DEF Realtime!CommandRow
<1> HIDE DEF Stamped
<1>3. DOMAIN M = DOMAIN after /\ M = [i \in DOMAIN after |-> M[i]] BY <1>1
<1>4. \A i \in DOMAIN after :
        \/ M[i] = after[i]
        \/ (M[i] = Stamped(i) /\ (i \notin DOMAIN before \/ before[i] # after[i]))
  BY <1>1
<1> HIDE DEF M
<1>5. \A i \in DOMAIN after : M[i] \in Realtime!CommandRow BY <1>2, <1>4
<1>6. M \in Seq(Realtime!CommandRow) /\ Len(M) = Len(after) BY <1>3, <1>5, MapSeq
<1> QED BY <1>2, <1>3, <1>4, <1>6 DEF M

\* What a writer leaves at each place of the rows of the command: the row that was
\* there, or one written now.
Touched(before, after) ==
  /\ after \in Seq(Realtime!CommandRow) /\ DOMAIN before \subseteq DOMAIN after
  /\ \A i \in DOMAIN after :
       /\ (i \in DOMAIN before /\ after[i] = before[i]) \/ after[i].updated = clock
       /\ i \in DOMAIN before => after[i].marked = before[i].marked
       /\ i \notin DOMAIN before => after[i].marked = 0

LEMMA MarkedAged ==
  ASSUME NEW before \in Seq(Realtime!CommandRow), NEW after, Touched(before, after),
         Realtime!RealtimeAssumption, clock \in Realtime!Time, Aged(before)
  PROVE  Aged(Realtime!Marked(before, after))
<1>1. after \in Seq(Realtime!CommandRow) BY DEF Touched
<1> DEFINE M == Realtime!Marked(before, after)
<1>2. SUFFICES ASSUME NEW i \in DOMAIN after
               PROVE  M[i].marked <= M[i].updated /\ M[i].updated <= clock
  BY <1>1, MarkedRows DEF Aged
<1>3. /\ M[i].updated = after[i].updated
      /\ \/ M[i] = after[i]
         \/ /\ M[i].marked = clock
            /\ i \notin DOMAIN before \/ before[i] # after[i]
  BY <1>1, MarkedRows
<1> HIDE DEF M
<1>4. after[i] \in Realtime!CommandRow BY <1>1, LenProperties, ElementOfSeq
<1>5. clock \in Nat /\ after[i].updated \in Nat /\ after[i].marked \in Nat
  BY <1>4 DEF Realtime!RealtimeAssumption, Realtime!Time, Realtime!CommandRow
<1>6. CASE i \in DOMAIN before /\ after[i] = before[i]
  BY <1>3, <1>6 DEF Aged
<1>7. CASE after[i].updated = clock
  <2>1. i \in DOMAIN before => before[i] \in Realtime!CommandRow /\ before[i].marked <= clock
    <3> SUFFICES ASSUME i \in DOMAIN before
                 PROVE  before[i] \in Realtime!CommandRow /\ before[i].marked <= clock
      OBVIOUS
    <3>1. before[i] \in Realtime!CommandRow BY LenProperties, ElementOfSeq
    <3>2. before[i].marked \in Nat /\ before[i].updated \in Nat
      BY <3>1 DEF Realtime!RealtimeAssumption, Realtime!Time, Realtime!CommandRow
    <3> QED BY <1>5, <3>1, <3>2 DEF Aged
  <2>2. after[i].marked <= clock BY <1>5, <2>1 DEF Touched
  <2> QED BY <1>3, <1>5, <1>7, <2>2
<1> QED BY <1>6, <1>7 DEF Touched

\* The writes of a job of the realtime database on the command: its loaded row
\* and the marks it found older than its report.
LEMMA StoredCommand ==
  ASSUME NEW j, j.n \in Realtime!Notification, j.cmd \in Seq(Realtime!CommandRow),
         cmds \in Seq(Realtime!CommandRow),
         one \in BOOLEAN, Realtime!RealtimeAssumption, clock \in Realtime!Time
  PROVE  /\ Touched(cmds, Realtime!StoreCommand(j))
         /\ \A i \in DOMAIN cmds :
              /\ j.n.status = "none" /\ cmds[i].pending /\ ~Realtime!StoreCommand(j)[i].pending
              => i \in j.older
         /\ j.cmd = cmds /\ Len(cmds) <= 1 =>
              /\ Len(Realtime!StoreCommand(j)) <= 1
              /\ (\E i \in DOMAIN Realtime!StoreCommand(j) :
                   Realtime!StoreCommand(j)[i].available)
                   <=> Realtime!Availability(j, Realtime!First(cmds, Realtime!NewCommand)).available
<1> DEFINE loaded == Realtime!First(j.cmd, Realtime!NewCommand)
           new == Realtime!CommandStatus(j, Realtime!Availability(j, loaded))
           Lowered(row) == [row EXCEPT !.pending = FALSE, !.value = None]
           Cleared(i, row) == IF i \in j.older THEN Lowered(row) ELSE row
           Job(i) == Realtime!Write(cmds[1], loaded, Cleared(1, new))
           Other(i) == Realtime!Write(cmds[i], cmds[i], Cleared(i, cmds[i]))
           old == [i \in DOMAIN cmds |-> IF j.cmd # <<>> /\ i = 1 THEN Job(i) ELSE Other(i)]
           added == [new EXCEPT !.updated = clock]
           adds == j.cmd = <<>> /\ (j.n.status # "none" \/ new # loaded)
<1>1. Realtime!StoreCommand(j) = IF adds THEN Append(old, added) ELSE old
  BY DEF Realtime!StoreCommand
<1>2. /\ Realtime!NewCommand \in Realtime!CommandRow /\ Realtime!NewCommand.marked = 0
      /\ ~Realtime!NewCommand.available
      /\ Len(cmds) \in Nat /\ DOMAIN cmds = 1 .. Len(cmds)
      /\ \A i \in DOMAIN cmds : cmds[i] \in Realtime!CommandRow
      /\ \A i \in DOMAIN j.cmd : j.cmd[i] \in Realtime!CommandRow
      /\ j.cmd # <<>> => 1 \in DOMAIN j.cmd
  <2>1. Realtime!NewCommand \in Realtime!CommandRow /\ Realtime!NewCommand.marked = 0
        /\ ~Realtime!NewCommand.available
    BY
    DEF Realtime!RealtimeAssumption, Realtime!NewCommand, Realtime!CommandRow, Realtime!Time
  <2>2. /\ Len(cmds) \in Nat /\ DOMAIN cmds = 1 .. Len(cmds)
        /\ \A i \in DOMAIN cmds : cmds[i] \in Realtime!CommandRow
    BY LenProperties, ElementOfSeq
  <2>3. /\ \A i \in DOMAIN j.cmd : j.cmd[i] \in Realtime!CommandRow
        /\ Len(j.cmd) \in Nat /\ DOMAIN j.cmd = 1 .. Len(j.cmd)
    BY LenProperties, ElementOfSeq
  <2>4. j.cmd # <<>> => Len(j.cmd) # 0 BY EmptySeq
  <2> QED BY <2>1, <2>2, <2>3, <2>4
<1>3. loaded \in Realtime!CommandRow BY <1>2 DEF Realtime!First
<1>4. /\ new \in Realtime!CommandRow /\ new.marked = loaded.marked
      /\ new.available = Realtime!Availability(j, loaded).available
      /\ j.n.status = "none" => new.pending = loaded.pending
  <2> HIDE DEF loaded
  <2> QED BY <1>3, AvailabilityRow, StatusRow
<1>5. ASSUME NEW i, NEW row \in Realtime!CommandRow
      PROVE  /\ Cleared(i, row) \in Realtime!CommandRow /\ Cleared(i, row).marked = row.marked
             /\ Cleared(i, row).available = row.available
             /\ i \notin j.older => Cleared(i, row) = row
  <2>1. Lowered(row) \in Realtime!CommandRow /\ Lowered(row).marked = row.marked
        /\ Lowered(row).available = row.available
    BY DEF Realtime!CommandRow
  <2> HIDE DEF Lowered
  <2> QED BY <2>1
<1> DEFINE Same(i, row) ==
      /\ row \in Realtime!CommandRow
      /\ row = cmds[i] \/ row.updated = clock
      /\ row.marked = cmds[i].marked
      /\ j.n.status = "none" /\ i \notin j.older => row.pending = cmds[i].pending
<1>6. \A i \in DOMAIN cmds : Same(i, Other(i))
  <2> SUFFICES ASSUME NEW i \in DOMAIN cmds PROVE Same(i, Other(i)) OBVIOUS
  <2> DEFINE d == Cleared(i, cmds[i])
  <2>1. cmds[i] \in Realtime!CommandRow BY <1>2
  <2>2. /\ d \in Realtime!CommandRow /\ d.marked = cmds[i].marked
        /\ i \notin j.older => d = cmds[i]
    <3> HIDE DEF Cleared
    <3> QED BY <1>5, <2>1
  <2> HIDE DEF d
  <2>3. Same(i, Realtime!Write(cmds[i], cmds[i], d)) BY <2>1, <2>2, WriteRow
  <2> QED BY <2>3 DEF d
<1>7. ASSUME j.cmd # <<>>, 1 \in DOMAIN cmds
      PROVE  /\ Same(1, Job(1))
             /\ cmds[1].available = loaded.available => Job(1).available = new.available
  <2> DEFINE d == Cleared(1, new)
  <2>1. cmds[1] \in Realtime!CommandRow BY <1>2, <1>7
  <2>2. /\ d \in Realtime!CommandRow /\ d.marked = new.marked /\ d.available = new.available
        /\ 1 \notin j.older => d = new
    <3> HIDE DEF Cleared, new
    <3> QED BY <1>4, <1>5
  <2> HIDE DEF d, new, loaded
  <2>3. /\ Same(1, Realtime!Write(cmds[1], loaded, d))
        /\ cmds[1].available = loaded.available
             => Realtime!Write(cmds[1], loaded, d).available = new.available
    BY <1>3, <1>4, <2>1, <2>2, WriteRow
  <2> QED BY <2>3 DEF d, new, loaded
<1> HIDE DEF loaded, new, Job, Other, Same, Cleared
<1>8. DOMAIN old = DOMAIN cmds /\ \A i \in DOMAIN cmds : Same(i, old[i])
  <2>1. ASSUME NEW i \in DOMAIN cmds PROVE Same(i, old[i])
    <3>1. CASE j.cmd # <<>> /\ i = 1
      <4>1. old[i] = Job(1) BY <3>1 DEF Job
      <4> QED BY <1>7, <3>1, <4>1
    <3>2. CASE ~(j.cmd # <<>> /\ i = 1)
      <4>1. old[i] = Other(i) BY <3>2
      <4> QED BY <1>6, <4>1
    <3> QED BY <3>1, <3>2
  <2> QED BY <2>1
<1>9. (j.cmd # <<>> /\ 1 \in DOMAIN cmds) => old[1] = Job(1) BY DEF Job
<1>10. old \in Seq(Realtime!CommandRow) /\ Len(old) = Len(cmds)
  <2>1. old = [i \in DOMAIN cmds |-> old[i]] BY <1>8
  <2>2. \A i \in DOMAIN cmds : old[i] \in Realtime!CommandRow BY <1>8 DEF Same
  <2> HIDE DEF old
  <2> QED BY <1>8, <2>1, <2>2, MapSeq
<1> HIDE DEF old
<1>11. /\ added \in Realtime!CommandRow /\ added.updated = clock /\ added.marked = new.marked
       /\ added.available = new.available
  BY <1>4 DEF Realtime!CommandRow
<1> HIDE DEF added
<1>12. j.cmd = <<>> => loaded = Realtime!NewCommand BY DEF loaded, Realtime!First
<1>13. CASE ~adds
  <2>1. Realtime!StoreCommand(j) = old BY <1>1, <1>13
  <2>2. Touched(cmds, old) BY <1>8, <1>10 DEF Touched, Same
  <2>3. \A i \in DOMAIN cmds :
          j.n.status = "none" /\ cmds[i].pending /\ ~old[i].pending => i \in j.older
    BY <1>8 DEF Same
  <2>4. ASSUME j.cmd = cmds, Len(cmds) <= 1
        PROVE  (\E i \in DOMAIN old :
               old[i].available) <=> Realtime!Availability(j, loaded).available
    <3>1. CASE cmds = <<>>
      <4>1. DOMAIN old = {} BY <1>8, <3>1
      <4>2. new = loaded /\ loaded = Realtime!NewCommand BY <1>12, <1>13, <2>4, <3>1
      <4> QED BY <1>2, <1>4, <4>1, <4>2
    <3>2. CASE cmds # <<>>
      <4>1. DOMAIN cmds = {1} BY <1>2, <2>4, <3>2
      <4>2. loaded = cmds[1] BY <2>4, <3>2 DEF loaded, Realtime!First
      <4>3. old[1].available = new.available BY <1>7, <1>9, <2>4, <3>2, <4>1, <4>2
      <4> QED BY <1>4, <1>8, <4>1, <4>3
    <3> QED BY <3>1, <3>2
  <2> QED BY <1>10, <2>1, <2>2, <2>3, <2>4 DEF loaded
<1>14. CASE adds
  <2> DEFINE app == Append(old, added)
  <2>1. Realtime!StoreCommand(j) = app BY <1>1, <1>14
  <2>2. /\ app \in Seq(Realtime!CommandRow) /\ Len(app) = Len(cmds) + 1
        /\ \A i \in 1 .. Len(cmds) : app[i] = old[i]
        /\ app[Len(cmds) + 1] = added
    BY <1>10, <1>11, AppendProperties
  <2> HIDE DEF app
  <2>3. DOMAIN app = 1 .. Len(cmds) + 1 BY <2>2, LenProperties
  <2>4. new.marked = 0 BY <1>2, <1>4, <1>12, <1>14
  <2>5. Touched(cmds, app)
    <3>1. DOMAIN cmds \subseteq DOMAIN app BY <1>2, <2>3
    <3>2. \A i \in DOMAIN cmds : Same(i, app[i]) BY <1>2, <1>8, <2>2
    <3>3. \A i \in DOMAIN app : i \in DOMAIN cmds \/ i = Len(cmds) + 1 BY <1>2, <2>3
    <3> QED BY <1>2, <1>11, <2>2, <2>4, <3>1, <3>2, <3>3 DEF Touched, Same
  <2>6. \A i \in DOMAIN cmds :
          j.n.status = "none" /\ cmds[i].pending /\ ~app[i].pending => i \in j.older
    BY <1>2, <1>8, <2>2 DEF Same
  <2>7. ASSUME j.cmd = cmds
        PROVE  /\ Len(app) <= 1
               /\ (\E i \in DOMAIN app :
                    app[i].available) <=> Realtime!Availability(j, loaded).available
    <3>1. Len(cmds) = 0 BY <1>14, <2>7
    <3>2. DOMAIN app = {1} /\ app[1] = added BY <2>2, <2>3, <3>1
    <3> QED BY <1>4, <1>11, <2>2, <3>1, <3>2
  <2> QED BY <2>1, <2>5, <2>6, <2>7 DEF loaded
<1> QED BY <1>13, <1>14

\* The mark of a sender on the row a query takes.
LEMMA MarkedFirst ==
  ASSUME NEW before \in Seq(Realtime!CommandRow), before # <<>>,
         NEW row \in Realtime!CommandRow,
         row.marked = before[1].marked, row.available = before[1].available,
         row = before[1] \/ row.updated = clock
  PROVE  LET after == [before EXCEPT ![1] = row] IN
         /\ Touched(before, after) /\ Len(after) = Len(before)
         /\ \A i \in DOMAIN before : after[i].available = before[i].available
<1> DEFINE after == [before EXCEPT ![1] = row]
<1>1. /\ Len(before) \in Nat /\ DOMAIN before = 1 .. Len(before) /\ Len(before) # 0
      /\ \A i \in DOMAIN before : before[i] \in Realtime!CommandRow
  BY LenProperties, ElementOfSeq, EmptySeq
<1>2. /\ DOMAIN after = DOMAIN before
      /\ \A i \in DOMAIN before : after[i] = IF i = 1 THEN row ELSE before[i]
      /\ after = [i \in DOMAIN before |-> after[i]]
  BY <1>1
<1> HIDE DEF after
<1>3. after \in Seq(Realtime!CommandRow) /\ Len(after) = Len(before) BY <1>1, <1>2, MapSeq
<1> QED BY <1>2, <1>3 DEF Touched, after

\* The history of the marks neither offers nor withdraws the command.
Offered(commands) == \E i \in DOMAIN commands : commands[i].available

LEMMA MarkedOffers ==
  ASSUME NEW before, NEW after \in Seq(Realtime!CommandRow), clock \in Realtime!Time
  PROVE  Offered(Realtime!Marked(before, after)) <=> Offered(after)
BY MarkedRows DEF Offered

\* update_entity_property on the rows that the job loaded.
LEMMA StoredProperty ==
  ASSUME NEW j, j.n \in Realtime!Notification, NEW there \in Seq(Realtime!PropertyRow)
  PROVE  /\ Realtime!StoreProperty(j, there) \in Seq(Realtime!PropertyRow)
         /\ j.prop = there /\ Len(there) <= 1 =>
              /\ Len(Realtime!StoreProperty(j, there)) <= 1
              /\ LET newer == there = <<>> \/ there[1].ts < j.n.ts IN
                 /\ Realtime!StoreProperty(j, there) # <<>>
                 /\ newer => /\ Realtime!StoreProperty(j, there)[1].ts = j.n.ts
                             /\ Realtime!StoreProperty(j, there)[1].list = j.n.list
                 /\ ~newer => Realtime!StoreProperty(j, there) = there
<1> DEFINE row == [ts |-> j.n.ts, list |-> j.n.list]
           put == [there EXCEPT ![1] = row]
<1>1. row \in Realtime!PropertyRow /\ row.ts = j.n.ts /\ row.list = j.n.list
  BY DEF Realtime!PropertyRow, Realtime!Notification
<1>2. /\ Len(there) \in Nat /\ DOMAIN there = 1 .. Len(there)
      /\ \A i \in DOMAIN there : there[i] \in Realtime!PropertyRow
      /\ there # <<>> => Len(there) # 0
  BY LenProperties, ElementOfSeq, EmptySeq
<1>3. Realtime!StoreProperty(j, there) = IF j.prop = <<>> THEN Append(there, row)
                                 ELSE IF j.prop[1].ts >= j.n.ts THEN there ELSE put
  BY DEF Realtime!StoreProperty
<1> HIDE DEF row
<1>4. /\ Append(there, row) \in Seq(Realtime!PropertyRow) /\ Append(there, row) # <<>>
      /\ Len(Append(there, row)) = Len(there) + 1
      /\ Append(there, row)[Len(there) + 1] = row
  BY <1>1, AppendProperties
<1>5. /\ put \in Seq(Realtime!PropertyRow) /\ Len(put) = Len(there)
      /\ there # <<>> => put # <<>> /\ put[1] = row
  <2>1. /\ DOMAIN put = DOMAIN there
        /\ \A i \in DOMAIN there : put[i] = IF i = 1 THEN row ELSE there[i]
        /\ put = [i \in DOMAIN there |-> put[i]]
    BY <1>2
  <2>2. there # <<>> => 1 \in DOMAIN there BY <1>2
  <2> HIDE DEF put
  <2>3. put \in Seq(Realtime!PropertyRow) /\ Len(put) = Len(there) BY <1>1, <1>2, <2>1, MapSeq
  <2>4. there # <<>> => put # <<>> BY <1>2, <2>3, EmptySeq
  <2> QED BY <2>1, <2>2, <2>3, <2>4
<1> HIDE DEF put
<1>6. Realtime!StoreProperty(j, there) \in Seq(Realtime!PropertyRow) BY <1>3, <1>4, <1>5
<1>7. ASSUME j.prop = there, Len(there) <= 1
      PROVE  LET newer == there = <<>> \/ there[1].ts < j.n.ts IN
             /\ Len(Realtime!StoreProperty(j, there)) <= 1
             /\ Realtime!StoreProperty(j, there) # <<>>
             /\ newer => Realtime!StoreProperty(j, there)[1] = row
             /\ ~newer => Realtime!StoreProperty(j, there) = there
  <2>1. CASE there = <<>>
    <3>1. Len(there) = 0 BY <2>1
    <3> QED BY <1>3, <1>4, <1>7, <2>1, <3>1
  <2>2. CASE there # <<>>
    <3>1. there[1] \in Realtime!PropertyRow BY <1>2, <2>2
    <3>2. (there[1].ts >= j.n.ts) <=> ~(there[1].ts < j.n.ts)
      BY <3>1 DEF Realtime!PropertyRow, Realtime!Notification, Realtime!Time
    <3> QED BY <1>3, <1>5, <1>7, <2>2, <3>2
  <2> QED BY <2>1, <2>2
<1> QED BY <1>1, <1>6, <1>7

\* A writer that no job overlaps leaves the history as it was.
LEMMA NoRace ==
  ASSUME past' = Realtime!Race, PastOK
  PROVE  /\ PastOK'
         /\ ~past'.raced => past' = past /\ \A w \in Workers : job[w] = Realtime!Idle
<1> DEFINE raced == [raced |-> TRUE, late |-> TRUE, newest |-> Realtime!Nothing]
<1>1. raced.raced /\ raced \in [raced : BOOLEAN, late : BOOLEAN, newest : [Props -> Int]]
  BY DEF Realtime!Nothing, Props
<1> HIDE DEF raced
<1>2. past' = IF \E w \in Workers : job[w] # Realtime!Idle THEN raced ELSE past
  BY DEF Realtime!Race, raced
<1> QED BY <1>1, <1>2 DEF PastOK

\* A job at work is one of the two kinds, and not idle.
LEMMA JobStates ==
  ASSUME JobsOK, NEW w \in Workers
  PROVE  /\ job[w] # Realtime!Idle => job[w] \in Loaded \cup Selected
         /\ job[w] = Realtime!Idle => job[w].pc = "idle"
         /\ job[w].pc = "loaded" => job[w] \in Loaded
         /\ job[w].pc = "selected" => job[w] \in Selected
         /\ job[w].pc # "idle" => job[w] # Realtime!Idle
BY DEF JobsOK, Loaded, Selected, Realtime!Idle

\* The marks of the senders: one row at most is added, and what is on offer stays.
LEMMA SendersMark ==
  ASSUME Realtime!RealtimeAssumption, Types, Realtime!MarkByApi \/ Realtime!MarkByAlarm
  PROVE  \E after : /\ Touched(cmds, after) /\ cmds' = Realtime!Marked(cmds, after)
                    /\ Len(cmds) <= 1 => Len(after) <= 1
                    /\ Offered(after) <=> Offered(cmds)
<1>1. /\ cmds \in Seq(Realtime!CommandRow) /\ clock \in Realtime!Time
      /\ sender["api"] \in Values \cup {None} /\ sender["alarm"] \in Values \cup {None}
  BY DEF Types, StoresOK, CountsOK, Realtime!Senders
<1>2. /\ Len(cmds) \in Nat /\ DOMAIN cmds = 1 .. Len(cmds)
      /\ \A i \in DOMAIN cmds : cmds[i] \in Realtime!CommandRow
      /\ cmds # <<>> => Len(cmds) # 0
  BY <1>1, LenProperties, ElementOfSeq, EmptySeq
<1>3. ASSUME NEW row \in Realtime!CommandRow, cmds # <<>>, row.marked = cmds[1].marked,
             row.available = cmds[1].available, row = cmds[1] \/ row.updated = clock,
             cmds' = Realtime!Marked(cmds, [cmds EXCEPT ![1] = row])
      PROVE  \E after : /\ Touched(cmds, after) /\ cmds' = Realtime!Marked(cmds, after)
                        /\ Len(cmds) <= 1 => Len(after) <= 1
                        /\ Offered(after) <=> Offered(cmds)
  <2> DEFINE after == [cmds EXCEPT ![1] = row]
  <2>1. /\ Touched(cmds, after) /\ Len(after) = Len(cmds)
        /\ \A i \in DOMAIN cmds : after[i].available = cmds[i].available
    BY <1>1, <1>3, MarkedFirst
  <2>2. DOMAIN after = DOMAIN cmds OBVIOUS
  <2>3. cmds' = Realtime!Marked(cmds, after) BY <1>3
  <2> HIDE DEF after
  <2> QED BY <2>1, <2>2, <2>3 DEF Offered
<1>4. CASE Realtime!MarkByApi
  <2> DEFINE row == [cmds[1] EXCEPT !.pending = TRUE, !.value = sender["api"],
                                    !.updated = clock]
  <2>1. cmds # <<>> /\ cmds' = Realtime!Marked(cmds, [cmds EXCEPT ![1] = row])
    BY <1>4 DEF Realtime!MarkByApi
  <2>2. cmds[1] \in Realtime!CommandRow BY <1>2, <2>1
  <2>3. /\ row \in Realtime!CommandRow /\ row.marked = cmds[1].marked
        /\ row.available = cmds[1].available /\ row.updated = clock
    BY <1>1, <2>2 DEF Realtime!CommandRow
  <2> HIDE DEF row
  <2> QED BY <1>3, <2>1, <2>3
<1>5. CASE Realtime!MarkByAlarm /\ cmds # <<>>
  <2> DEFINE higher == [cmds[1] EXCEPT !.pending = TRUE, !.value = sender["alarm"]]
             row == Realtime!Write(cmds[1], cmds[1], higher)
  <2>1. cmds' = Realtime!Marked(cmds, [cmds EXCEPT ![1] = row])
    BY <1>5 DEF Realtime!MarkByAlarm
  <2>2. cmds[1] \in Realtime!CommandRow BY <1>2, <1>5
  <2>3. higher \in Realtime!CommandRow /\ higher.marked = cmds[1].marked
        /\ higher.available = cmds[1].available
    BY <1>1, <2>2 DEF Realtime!CommandRow
  <2> HIDE DEF higher
  <2>4. /\ row \in Realtime!CommandRow /\ row.marked = cmds[1].marked
        /\ row.available = cmds[1].available
        /\ row = cmds[1] \/ row.updated = clock
    BY <1>1, <2>2, <2>3, WriteRow
  <2> HIDE DEF row
  <2> QED BY <1>3, <1>5, <2>1, <2>4
<1>6. CASE Realtime!MarkByAlarm /\ cmds = <<>>
  <2> DEFINE row == [Realtime!NewCommand EXCEPT !.pending = TRUE, !.value = sender["alarm"],
                                       !.statusTs = clock, !.updated = clock]
             after == <<row>>
  <2>1. cmds' = Realtime!Marked(cmds, after) BY <1>6 DEF Realtime!MarkByAlarm
  <2>2. /\ row \in Realtime!CommandRow /\ row.marked = 0 /\ ~row.available /\ row.updated = clock
    <3> DEFINE WithMark(r, v) == [r EXCEPT !.pending = TRUE, !.value = v, !.statusTs = clock,
                                         !.updated = clock]
    <3>1. ASSUME NEW r \in Realtime!CommandRow, NEW v \in Values \cup {None}
          PROVE  /\ WithMark(r, v) \in Realtime!CommandRow /\ WithMark(r, v).marked = r.marked
                 /\ WithMark(r, v).available = r.available /\ WithMark(r, v).updated = clock
      BY <1>1 DEF Realtime!CommandRow
    <3>2. Realtime!NewCommand \in Realtime!CommandRow /\ ~Realtime!NewCommand.available
          /\ Realtime!NewCommand.marked = 0
      BY
      DEF Realtime!RealtimeAssumption, Realtime!NewCommand, Realtime!CommandRow, Realtime!Time
    <3>3. row = WithMark(Realtime!NewCommand, sender["alarm"]) OBVIOUS
    <3> HIDE DEF row, WithMark
    <3> QED BY <1>1, <3>1, <3>2, <3>3
  <2> HIDE DEF row
  <2>3. after \in Seq(Realtime!CommandRow) /\ DOMAIN after = {1} /\ after[1] = row /\ Len(after) = 1
    BY <2>2
  <2>4. DOMAIN cmds = {} BY <1>6
  <2> HIDE DEF after
  <2>5. Touched(cmds, after) BY <2>2, <2>3, <2>4 DEF Touched
  <2>6. Offered(after) <=> Offered(cmds) BY <2>2, <2>3, <2>4 DEF Offered
  <2>7. Len(cmds) <= 1 => Len(after) <= 1 BY <2>3
  <2> QED BY <2>1, <2>5, <2>6, <2>7
<1> QED BY <1>4, <1>5, <1>6

\* What a commit leaves in the two tables.
LEMMA CommitStores ==
  ASSUME Realtime!RealtimeAssumption, Types, NEW w \in Workers, Realtime!Commit(w)
  PROVE  /\ job[w] \in Selected
         /\ Touched(cmds, Realtime!StoreCommand(job[w]))
              /\ cmds' = Realtime!Marked(cmds, Realtime!StoreCommand(job[w]))
         /\ rows' \in [Props -> Seq(Realtime!PropertyRow)]
<1> DEFINE j == job[w]
<1>1. j \in Selected BY JobStates DEF Realtime!Commit, Types
<1>2. Touched(cmds, Realtime!StoreCommand(j))
  BY <1>1, StoredCommand DEF Types, StoresOK, Selected
<1>3. rows' \in [Props -> Seq(Realtime!PropertyRow)]
  <2>1. CASE j.n.prop = "none" BY <2>1 DEF Realtime!Commit, Types, StoresOK
  <2>2. CASE j.n.prop # "none"
    <3>1. j.n \in Realtime!Notification BY <1>1 DEF Selected
    <3>2. j.n.prop \in Props BY <2>2, <3>1 DEF Realtime!Notification, Props
    <3>3. rows' = [rows EXCEPT ![j.n.prop] = Realtime!StoreProperty(j, rows[j.n.prop])]
      BY <2>2 DEF Realtime!Commit
    <3>4. rows[j.n.prop] \in Seq(Realtime!PropertyRow) BY <3>2 DEF Types, StoresOK
    <3>5. Realtime!StoreProperty(j, rows[j.n.prop]) \in Seq(Realtime!PropertyRow)
      BY <3>1, <3>4, StoredProperty
    <3> HIDE DEF j
    <3> QED BY <3>2, <3>3, <3>5 DEF Types, StoresOK
  <2> QED BY <2>1, <2>2
<1> QED BY <1>1, <1>2, <1>3 DEF Realtime!Commit

LEMMA RowsStart ==
  ASSUME Realtime!RealtimeAssumption, Realtime!Init
  PROVE  RowsInv
<1>1. cmds = <<>> /\ <<>> \in Seq(Realtime!CommandRow) /\ DOMAIN <<>> = {}
  BY DEF Realtime!Init
<1>2. rows \in [Props -> Seq(Realtime!PropertyRow)] BY DEF Realtime!Init, Props
<1>3. \A w \in Workers : job[w] = Realtime!Idle /\ job[w].pc = "idle"
  BY DEF Realtime!Init, Realtime!Idle
<1>4. Types
  <2>1. JobsOK BY DEF Realtime!Init, JobsOK
  <2>2. PastOK BY DEF Realtime!Init, PastOK, Realtime!Nothing, Props
  <2>3. CountsOK BY DEF Realtime!Init, CountsOK, Realtime!RealtimeAssumption
  <2>4. clock \in Realtime!Time
    BY DEF Realtime!Init, Realtime!Time, Realtime!RealtimeAssumption
  <2> QED BY <1>1, <1>2, <2>1, <2>2, <2>3, <2>4 DEF Types, StoresOK, Realtime!Init
<1>5. OneWriter BY <1>1, <1>3 DEF OneWriter
<1>6. Realtime!RowsCurrent
  <2>1. \A p \in Props : rows[p] = <<>> /\ past.newest[p] = -1
    BY DEF Realtime!Init, Realtime!Nothing, Props
  <2>2. Realtime!First(<<>>, [ts |-> -1]).ts = -1 /\ Realtime!First(<<>>, [list |-> {}]).list = {}
    BY DEF Realtime!First
  <2>3. ~Realtime!Available BY <1>1 DEF Realtime!Available
  <2> QED
    BY <2>1, <2>2, <2>3
    DEF Realtime!RowsCurrent, Realtime!NewestWins, Realtime!AvailableIffListed, Props
<1> QED BY <1>1, <1>3, <1>4, <1>5, <1>6 DEF RowsInv, Aged, Looked

-----------------------------------------------------------------------------
(* Every action keeps the invariant.                                       *)

\* The state of one job changes.
LEMMA OneJob ==
  ASSUME JobsOK, NEW w \in Workers, NEW state \in {Realtime!Idle} \cup Loaded \cup Selected,
         job' = [job EXCEPT ![w] = state]
  PROVE  /\ JobsOK' /\ job'[w] = state
         /\ \A v \in Workers : v # w => job'[v] = job[v]
BY DEF JobsOK

\* A job that ends or goes on leaves the others alone.
LEMMA JobsAlone ==
  ASSUME JobsOK, OneWriter, NEW w \in Workers, NEW state, job' = [job EXCEPT ![w] = state],
         \/ state = Realtime!Idle
         \/ job[w] # Realtime!Idle /\ state.n = job[w].n /\ state.cmd = job[w].cmd
              /\ state.prop = job[w].prop,
         UNCHANGED <<rows, cmds, past>>
  PROVE  OneWriter'
<1>1. job'[w] = state /\ \A v \in Workers : v # w => job'[v] = job[v] BY DEF JobsOK
<1>2. \A v \in Workers : job'[v] # Realtime!Idle =>
        /\ job[v] # Realtime!Idle
        /\ job'[v].n = job[v].n /\ job'[v].cmd = job[v].cmd /\ job'[v].prop = job[v].prop
  BY <1>1
<1> QED BY <1>2 DEF OneWriter

\* What does not touch the rows keeps what is said of them.
LEMMA SameRows ==
  ASSUME Realtime!RowsCurrent, UNCHANGED <<rows, cmds, past>>
  PROVE  Realtime!RowsCurrent'
BY
DEF Realtime!RowsCurrent, Realtime!NewestWins, Realtime!AvailableIffListed, Realtime!Available

LEMMA ClockTickKeeps ==
  ASSUME Realtime!RealtimeAssumption, RowsInv, Realtime!Tick
  PROVE  RowsInv'
<1>1. Types'
  <2>1. clock' \in Realtime!Time
    BY DEF RowsInv, Types, Realtime!Tick, Realtime!Time, Realtime!RealtimeAssumption
  <2> QED
    BY <2>1
    DEF RowsInv, Types, StoresOK, JobsOK, PastOK, CountsOK, Realtime!Tick, Realtime!stores,
        Realtime!counts
<1>2. Aged(cmds)'
  <2> SUFFICES ASSUME NEW i \in DOMAIN cmds PROVE cmds[i].updated <= clock'
    BY DEF RowsInv, Aged, Realtime!Tick, Realtime!stores
  <2>1. cmds[i] \in Realtime!CommandRow
    BY LenProperties, ElementOfSeq DEF RowsInv, Types, StoresOK
  <2>2. cmds[i].updated \in Nat /\ clock \in Nat /\ clock' = clock + 1
    BY <2>1
    DEF RowsInv, Types, Realtime!Time, Realtime!CommandRow, Realtime!RealtimeAssumption,
        Realtime!Tick
  <2> QED BY <2>2 DEF RowsInv, Aged
<1>3. Looked' BY DEF RowsInv, Looked, Realtime!Tick
<1>4. OneWriter' BY DEF RowsInv, OneWriter, Realtime!Tick, Realtime!stores
<1>5. Realtime!RowsCurrent' BY SameRows DEF RowsInv, Realtime!Tick, Realtime!stores
<1> QED BY <1>1, <1>2, <1>3, <1>4, <1>5 DEF RowsInv

LEMMA RowsLoadKeep ==
  ASSUME Realtime!RealtimeAssumption, RowsInv, NEW w \in Workers, NEW n \in queue,
         Realtime!Load(w, n)
  PROVE  RowsInv'
<1> DEFINE state == [pc |-> "loaded", n |-> n, cmd |-> cmds,
                     prop |-> IF n.prop = "none" THEN <<>> ELSE rows[n.prop]]
<1>1. /\ job[w] = Realtime!Idle /\ job' = [job EXCEPT ![w] = state] /\ queue' = queue \ {n}
      /\ past' = Realtime!Race /\ UNCHANGED <<one, clock, rows, cmds, sender, sent, told, reports>>
  BY DEF Realtime!Load, Realtime!stores, Realtime!counts
<1>2. n \in Realtime!Notification BY DEF RowsInv, Types
<1>3. /\ state \in Loaded /\ state.pc = "loaded" /\ state.n = n /\ state.cmd = cmds
      /\ n.prop # "none" => state.prop = rows[n.prop]
  <2>1. n.prop # "none" => n.prop \in Props BY <1>2 DEF Realtime!Notification, Props
  <2>2. n.prop # "none" => rows[n.prop] \in Seq(Realtime!PropertyRow)
    BY <2>1 DEF RowsInv, Types, StoresOK
  <2>3. <<>> \in Seq(Realtime!PropertyRow) OBVIOUS
  <2> QED BY <1>2, <2>2, <2>3 DEF RowsInv, Types, StoresOK, Loaded
<1> HIDE DEF state
<1>4. /\ JobsOK' /\ job'[w] = state /\ \A v \in Workers : v # w => job'[v] = job[v]
  BY <1>1, <1>3, OneJob DEF RowsInv, Types
<1>5. PastOK' /\ (~past'.raced => past' = past /\ \A v \in Workers : job[v] = Realtime!Idle)
  BY <1>1, NoRace DEF RowsInv, Types
<1>6. Types' BY <1>1, <1>4, <1>5 DEF RowsInv, Types, StoresOK, CountsOK
<1>7. Aged(cmds)' BY <1>1 DEF RowsInv, Aged
<1>8. Looked' BY <1>1, <1>3, <1>4 DEF RowsInv, Looked
<1>9. OneWriter' BY <1>1, <1>3, <1>4, <1>5 DEF RowsInv, OneWriter
<1>10. Realtime!RowsCurrent'
  <2>1. CASE past'.raced
    BY <2>1 DEF Realtime!RowsCurrent, Realtime!NewestWins, Realtime!AvailableIffListed
  <2>2. CASE ~past'.raced BY <1>1, <1>5, <2>2, SameRows DEF RowsInv
  <2> QED BY <2>1, <2>2
<1> QED BY <1>6, <1>7, <1>8, <1>9, <1>10 DEF RowsInv

LEMMA SelectKeeps ==
  ASSUME Realtime!RealtimeAssumption, RowsInv, NEW w \in Workers, Realtime!Select(w)
  PROVE  RowsInv'
<1> DEFINE j == job[w]
           older == IF j.n.prop = "none" THEN {} ELSE Realtime!OlderMarks(j.n.ts)
           state == [pc |-> "selected", n |-> j.n, cmd |-> j.cmd, prop |-> j.prop,
                     seen |-> cmds, older |-> older]
<1>1. /\ j.pc = "loaded" /\ job' = [job EXCEPT ![w] = state]
      /\ UNCHANGED <<one, clock, queue, rows, cmds, sender, sent, told, reports, past>>
  BY DEF Realtime!Select, Realtime!stores, Realtime!counts, RowsInv, Types, JobsOK
<1>2. j \in Loaded /\ j # Realtime!Idle BY <1>1, JobStates DEF RowsInv, Types
<1>3. /\ Len(cmds) \in Nat /\ DOMAIN cmds = 1 .. Len(cmds)
      /\ \A i \in DOMAIN cmds : cmds[i] \in Realtime!CommandRow
  BY LenProperties, ElementOfSeq DEF RowsInv, Types, StoresOK
<1>4. \A i \in older : i \in DOMAIN cmds /\ cmds[i].updated < j.n.ts
  BY DEF Realtime!OlderMarks
<1> HIDE DEF older
<1>5. state \in Selected BY <1>2, <1>3, <1>4 DEF Loaded, Selected, RowsInv, Types, StoresOK
<1>6. /\ JobsOK' /\ job'[w] = state /\ \A v \in Workers : v # w => job'[v] = job[v]
  <2> HIDE DEF state
  <2> QED BY <1>1, <1>5, OneJob DEF RowsInv, Types
<1>7. Types' BY <1>1, <1>6 DEF RowsInv, Types, StoresOK, PastOK, CountsOK
<1>8. Aged(cmds)' BY <1>1 DEF RowsInv, Aged
<1>9. Looked'
  <2>1. \A i \in older : i \in DOMAIN cmds /\ cmds[i].marked < j.n.ts
    <3> SUFFICES ASSUME NEW i \in older PROVE i \in DOMAIN cmds /\ cmds[i].marked < j.n.ts
      OBVIOUS
    <3>1. cmds[i] \in Realtime!CommandRow /\ j.n \in Realtime!Notification
      BY <1>2, <1>3, <1>4 DEF Loaded
    <3>2. cmds[i].marked \in Nat /\ cmds[i].updated \in Nat /\ j.n.ts \in Nat
      BY <3>1
      DEF Realtime!CommandRow, Realtime!Notification, Realtime!Time,
          Realtime!RealtimeAssumption
    <3> QED BY <1>4, <3>2 DEF RowsInv, Aged
  <2>2. state.older = older /\ state.seen = cmds /\ state.n = j.n OBVIOUS
  <2> HIDE DEF state
  <2> QED BY <1>6, <2>1, <2>2 DEF RowsInv, Looked
<1>10. OneWriter'
  <2>1. state.n = job[w].n /\ state.cmd = job[w].cmd /\ state.prop = job[w].prop OBVIOUS
  <2> HIDE DEF state
  <2> QED BY <1>1, <1>2, <2>1, JobsAlone DEF RowsInv, Types
<1>11. Realtime!RowsCurrent' BY <1>1, SameRows DEF RowsInv
<1> QED BY <1>7, <1>8, <1>9, <1>10, <1>11 DEF RowsInv

LEMMA AbandonKeeps ==
  ASSUME Realtime!RealtimeAssumption, RowsInv, NEW w \in Workers, Realtime!Abandon(w)
  PROVE  RowsInv'
<1>1. /\ job' = [job EXCEPT ![w] = Realtime!Idle]
      /\ UNCHANGED <<one, clock, queue, rows, cmds, sender, sent, told, reports, past>>
  BY DEF Realtime!Abandon, Realtime!stores, Realtime!counts
<1>2. /\ JobsOK' /\ job'[w] = Realtime!Idle /\ \A v \in Workers : v # w => job'[v] = job[v]
  BY <1>1, OneJob DEF RowsInv, Types
<1>3. Types' BY <1>1, <1>2 DEF RowsInv, Types, StoresOK, PastOK, CountsOK
<1>4. Aged(cmds)' BY <1>1 DEF RowsInv, Aged
<1>5. Looked' BY <1>2 DEF RowsInv, Looked, Realtime!Idle
<1>6. OneWriter' BY <1>1, JobsAlone DEF RowsInv, Types
<1>7. Realtime!RowsCurrent' BY <1>1, SameRows DEF RowsInv
<1> QED BY <1>3, <1>4, <1>5, <1>6, <1>7 DEF RowsInv

LEMMA MarksKeep ==
  ASSUME Realtime!RealtimeAssumption, RowsInv, Realtime!MarkByApi \/ Realtime!MarkByAlarm
  PROVE  RowsInv'
<1>1. /\ UNCHANGED <<one, clock, queue, job, rows, sent, told, reports>> /\ past' = Realtime!Race
      /\ \E s \in Realtime!Senders : sender' = [sender EXCEPT ![s] = None]
  BY DEF Realtime!MarkByApi, Realtime!MarkByAlarm, Realtime!counts, Realtime!Senders
<1>2. PICK after : /\ Touched(cmds, after) /\ cmds' = Realtime!Marked(cmds, after)
                   /\ Len(cmds) <= 1 => Len(after) <= 1
                   /\ Offered(after) <=> Offered(cmds)
  BY SendersMark DEF RowsInv
<1>3. after \in Seq(Realtime!CommandRow) /\ clock \in Realtime!Time
      /\ cmds \in Seq(Realtime!CommandRow)
  BY <1>2 DEF Touched, RowsInv, Types, StoresOK
<1>4. /\ cmds' \in Seq(Realtime!CommandRow) /\ Len(cmds') = Len(after)
      /\ Offered(cmds') <=> Offered(cmds)
  BY <1>2, <1>3, MarkedRows, MarkedOffers
<1>5. PastOK' /\ (~past'.raced => past' = past /\ \A v \in Workers : job[v] = Realtime!Idle)
  BY <1>1, NoRace DEF RowsInv, Types
<1>6. Types'
  <2>1. sender' \in [Realtime!Senders -> Values \cup {None}]
    BY <1>1 DEF RowsInv, Types, CountsOK
  <2> QED BY <1>1, <1>4, <1>5, <2>1 DEF RowsInv, Types, StoresOK, JobsOK, CountsOK
<1>7. Aged(cmds)'
  <2>1. Aged(Realtime!Marked(cmds, after)) BY <1>2, <1>3, MarkedAged DEF RowsInv
  <2> QED BY <1>1, <1>2, <2>1 DEF Aged
<1>8. Looked' BY <1>1 DEF RowsInv, Looked
<1>9. OneWriter' BY <1>1, <1>2, <1>4, <1>5 DEF RowsInv, OneWriter
<1>10. Realtime!RowsCurrent'
  BY <1>1, <1>4, <1>5
  DEF RowsInv, Realtime!RowsCurrent, Realtime!NewestWins, Realtime!AvailableIffListed,
      Realtime!Available, Offered
<1> QED BY <1>6, <1>7, <1>8, <1>9, <1>10 DEF RowsInv

\* What the history says of a commit while writers do not overlap.
LEMMA PastOfCommit ==
  ASSUME PastOK, NEW w \in Workers, Realtime!Commit(w), job[w].n \in Realtime!Notification
  PROVE  /\ PastOK'
         /\ past'.raced = past.raced
         /\ ~past.raced =>
              /\ \A p \in Props : past'.newest[p] =
                   IF p = job[w].n.prop /\ past.newest[p] < job[w].n.ts THEN job[w].n.ts
                                                                        ELSE past.newest[p]
              /\ ~past'.late => /\ ~past.late
                                /\ job[w].n.prop = "commands"
                                     => past.newest["commands"] < job[w].n.ts
<1> DEFINE n == job[w].n
           tardy == past.late \/ (n.prop = "commands" /\ past.newest["commands"] >= n.ts)
           latest == [past.newest EXCEPT ![n.prop] = IF @ < n.ts THEN n.ts ELSE @]
           next == [past EXCEPT !.late = tardy, !.newest = latest]
<1>1. past' = IF past.raced \/ n.prop = "none" THEN past ELSE next
  BY DEF Realtime!Commit, PastOK
<1>2. CASE past.raced \/ n.prop = "none"
  BY <1>1, <1>2 DEF PastOK, Props
<1>3. CASE ~(past.raced \/ n.prop = "none")
  <2>1. n.ts \in Int /\ n.prop \in Props
    BY <1>3 DEF Realtime!Notification, Realtime!Time, Props
  <2>2. \A p \in Props : past.newest[p] \in Int BY DEF PastOK
  <2>3. latest \in [Props -> Int]
        /\ \A p \in Props : latest[p] = IF p = n.prop /\ past.newest[p] < n.ts
                                        THEN n.ts ELSE past.newest[p]
    <3>1. past.newest \in [Props -> Int] BY DEF PastOK
    <3> HIDE DEF n
    <3> QED BY <2>1, <2>2, <3>1
  <2>4. tardy \in BOOLEAN BY DEF PastOK
  <2>5. ~tardy => ~past.late /\ (n.prop = "commands" => past.newest["commands"] < n.ts)
    BY <2>1, <2>2 DEF Props
  <2> HIDE DEF tardy, latest
  <2>6. /\ next \in [raced : BOOLEAN, late : BOOLEAN, newest : [Props -> Int]]
        /\ next.raced = past.raced /\ next.late = tardy /\ next.newest = latest
    BY <2>3, <2>4 DEF PastOK
  <2> HIDE DEF next
  <2> QED BY <1>1, <1>3, <2>3, <2>5, <2>6 DEF PastOK
<1> QED BY <1>2, <1>3

LEMMA RowsCommitKeeps ==
  ASSUME Realtime!RealtimeAssumption, RowsInv, NEW w \in Workers, Realtime!Commit(w)
  PROVE  RowsInv'
<1> DEFINE j == job[w]
           after == Realtime!StoreCommand(j)
<1>1. /\ j.pc = "selected" /\ job' = [job EXCEPT ![w] = Realtime!Idle]
      /\ UNCHANGED <<one, clock, queue, sender, sent, told, reports>>
  BY DEF Realtime!Commit, Realtime!counts
<1>2. /\ j \in Selected /\ j.n \in Realtime!Notification /\ j # Realtime!Idle
      /\ Touched(cmds, after) /\ cmds' = Realtime!Marked(cmds, after)
      /\ rows' \in [Props -> Seq(Realtime!PropertyRow)]
  BY CommitStores, JobStates DEF RowsInv, Types, Selected, Realtime!Commit
<1>3. /\ after \in Seq(Realtime!CommandRow) /\ clock \in Realtime!Time
      /\ cmds \in Seq(Realtime!CommandRow)
      /\ one \in BOOLEAN /\ j.cmd \in Seq(Realtime!CommandRow)
  BY <1>2 DEF Touched, RowsInv, Types, StoresOK, Selected
<1>4. /\ cmds' \in Seq(Realtime!CommandRow) /\ Len(cmds') = Len(after)
      /\ Offered(cmds') <=> Offered(after)
  <2> HIDE DEF after
  <2> QED BY <1>2, <1>3, MarkedRows, MarkedOffers
<1>5. /\ JobsOK' /\ job'[w] = Realtime!Idle /\ \A v \in Workers : v # w => job'[v] = job[v]
  BY <1>1, OneJob DEF RowsInv, Types
<1>6. /\ PastOK' /\ past'.raced = past.raced
      /\ ~past.raced =>
           /\ \A p \in Props : past'.newest[p] =
                IF p = j.n.prop /\ past.newest[p] < j.n.ts THEN j.n.ts ELSE past.newest[p]
           /\ ~past'.late => /\ ~past.late
                             /\ j.n.prop = "commands" => past.newest["commands"] < j.n.ts
  BY <1>2, PastOfCommit DEF RowsInv, Types
<1>7. Types' BY <1>1, <1>2, <1>4, <1>5, <1>6 DEF RowsInv, Types, StoresOK, CountsOK
<1>8. Aged(cmds)'
  <2>1. Aged(Realtime!Marked(cmds, after)) BY <1>2, <1>3, MarkedAged DEF RowsInv
  <2> QED BY <1>1, <1>2, <2>1 DEF Aged
<1>9. Looked' BY <1>5 DEF RowsInv, Looked, Realtime!Idle
<1>10. ASSUME ~past.raced
       PROVE  /\ j.cmd = cmds /\ Len(cmds) <= 1
              /\ j.n.prop # "none" => j.prop = rows[j.n.prop]
              /\ \A v \in Workers : job'[v] = Realtime!Idle
  BY <1>2, <1>5, <1>10 DEF RowsInv, OneWriter
<1>11. ASSUME ~past.raced
       PROVE  /\ Len(after) <= 1
              /\ Offered(after) <=> Realtime!Availability(j, Realtime!First(cmds, Realtime!NewCommand)).available
  BY <1>2, <1>3, <1>10, <1>11, StoredCommand DEF Offered
<1>12. OneWriter' BY <1>4, <1>6, <1>10, <1>11 DEF OneWriter
<1>13. ASSUME ~past.raced, NEW p \in Props
       PROVE  /\ p # j.n.prop => rows'[p] = rows[p]
              /\ p = j.n.prop => rows'[p] = Realtime!StoreProperty(j, rows[p])
  BY <1>13 DEF Realtime!Commit, RowsInv, Types, StoresOK, Props
<1>14. ASSUME ~past.raced, NEW p \in Props
       PROVE  /\ rows[p] \in Seq(Realtime!PropertyRow) /\ Len(rows[p]) <= 1
              /\ rows[p] = <<>> => past.newest[p] = -1
              /\ rows[p] # <<>> => past.newest[p] = rows[p][1].ts
  BY <1>14
  DEF RowsInv, Types, StoresOK, Realtime!RowsCurrent, Realtime!NewestWins, Realtime!First,
      Props
<1>15. j.n.ts \in Nat
  BY <1>2 DEF Realtime!Notification, Realtime!Time, Realtime!RealtimeAssumption
<1>16. ASSUME ~past.raced, NEW p \in Props, p = j.n.prop
       PROVE  /\ Len(rows'[p]) <= 1 /\ rows'[p] # <<>>
              /\ past.newest[p] < j.n.ts =>
                   rows'[p][1].ts = j.n.ts /\ rows'[p][1].list = j.n.list
              /\ ~(past.newest[p] < j.n.ts) => rows'[p] = rows[p]
  <2>1. j.prop = rows[p] BY <1>10, <1>16 DEF Props
  <2>2. rows[p] = <<>> => past.newest[p] < j.n.ts BY <1>14, <1>15, <1>16
  <2>3. rows[p] # <<>> => past.newest[p] = rows[p][1].ts BY <1>14, <1>16
  <2>4. rows'[p] = Realtime!StoreProperty(j, rows[p]) BY <1>13, <1>16
  <2>5. rows[p] \in Seq(Realtime!PropertyRow) /\ Len(rows[p]) <= 1 BY <1>14, <1>16
  <2> HIDE DEF j
  <2> QED BY <1>2, <2>1, <2>2, <2>3, <2>4, <2>5, StoredProperty
<1>17. Realtime!NewestWins'
  <2> SUFFICES ASSUME ~past.raced, NEW p \in Props
               PROVE  Len(rows'[p]) <= 1
                   /\ Realtime!First(rows'[p], [ts |-> -1]).ts = past'.newest[p]
    BY <1>6 DEF Realtime!NewestWins, Props
  <2>1. CASE p # j.n.prop BY <1>6, <1>13, <1>14, <2>1 DEF Realtime!First
  <2>2. CASE p = j.n.prop
    <3>1. CASE past.newest[p] < j.n.ts BY <1>6, <1>16, <2>2, <3>1 DEF Realtime!First
    <3>2. CASE ~(past.newest[p] < j.n.ts) BY <1>6, <1>14, <1>16, <2>2, <3>2 DEF Realtime!First
    <3> QED BY <3>1, <3>2
  <2> QED BY <2>1, <2>2
<1>18. Realtime!AvailableIffListed'
  <2> DEFINE before == Realtime!First(rows["commands"], [list |-> {}]).list
             listed == Realtime!First(rows["commands"], [list |-> {}]).list'
             row == Realtime!First(cmds, Realtime!NewCommand)
  <2> SUFFICES ASSUME ~past.raced, ~past'.late PROVE Offered(cmds') <=> "c" \in listed
    BY <1>6 DEF Realtime!AvailableIffListed, Realtime!Available, Offered
  <2>1. Offered(cmds') <=> Realtime!Availability(j, row).available BY <1>4, <1>11
  <2>2. ~past.late /\ (j.n.prop = "commands" => past.newest["commands"] < j.n.ts) BY <1>6
  <2>3. Offered(cmds) <=> "c" \in before
    BY <2>2
    DEF RowsInv, Realtime!RowsCurrent, Realtime!AvailableIffListed, Realtime!Available,
        Offered
  <2>4. row \in Realtime!CommandRow /\ (row.available <=> Offered(cmds))
    <3>1. /\ Len(cmds) \in Nat /\ DOMAIN cmds = 1 .. Len(cmds)
          /\ \A i \in DOMAIN cmds : cmds[i] \in Realtime!CommandRow /\ Len(cmds) <= 1
      BY <1>3, <1>10, LenProperties, ElementOfSeq
    <3>2. CASE cmds = <<>>
      BY <3>2
      DEF Realtime!First, Offered, Realtime!NewCommand, Realtime!CommandRow,
          Realtime!RealtimeAssumption, Realtime!Time
    <3>3. CASE cmds # <<>>
      <4>1. DOMAIN cmds = {1} BY <1>3, <3>1, <3>3, EmptySeq
      <4> QED BY <3>1, <3>3, <4>1 DEF Realtime!First, Offered
    <3> QED BY <3>2, <3>3
  <2>5. CASE j.n.prop # "commands"
    <3>1. listed = before BY <1>13, <2>5 DEF Props, Realtime!First
    <3>2. Realtime!Availability(j, row) = row BY <2>5 DEF Realtime!Availability
    <3> QED BY <2>1, <2>3, <2>4, <3>1, <3>2
  <2>6. CASE j.n.prop = "commands"
    <3>1. listed = j.n.list BY <1>16, <2>2, <2>6 DEF Props, Realtime!First
    <3>2. Realtime!First(j.prop, [list |-> {}]).list = before BY <1>10, <2>6
    <3>3. CASE before = j.n.list
      <4>1. Realtime!Availability(j, row) = row BY <3>2, <3>3 DEF Realtime!Availability
      <4> QED BY <2>1, <2>3, <2>4, <3>1, <3>3, <4>1
    <3>4. CASE before # j.n.list
      <4>1. Realtime!Availability(j, row) = [row EXCEPT !.available = "c" \in j.n.list]
        BY <2>6, <3>2, <3>4 DEF Realtime!Availability
      <4>2. Realtime!Availability(j, row).available <=> "c" \in j.n.list
        <5> HIDE DEF row, j
        <5> QED BY <2>4, <4>1 DEF Realtime!CommandRow
      <4> QED BY <2>1, <3>1, <4>2
    <3> QED BY <3>3, <3>4
  <2> QED BY <2>5, <2>6
<1> QED BY <1>7, <1>8, <1>9, <1>12, <1>17, <1>18 DEF RowsInv, Realtime!RowsCurrent

\* The senders and the entity: they queue notifications and leave the rows alone.
LEMMA QuietKeeps ==
  ASSUME Realtime!RealtimeAssumption, RowsInv,
         \/ \E s \in Realtime!Senders :
           Realtime!MarkFails(s) \/ \E v \in Values : Realtime!Send(s, v)
         \/ \E v \in Values : Realtime!Tell(v)
         \/ Realtime!Report("measure", {}, "none") \/ Realtime!Report("measure", {}, "SENT")
         \/ \E list \in Realtime!Lists : Realtime!Report("commands", list, "none")
  PROVE  RowsInv'
<1>1. UNCHANGED <<one, clock, job, rows, cmds, past>>
  BY
  DEF Realtime!MarkFails, Realtime!Send, Realtime!Tell, Realtime!Report, Realtime!stores,
      Realtime!counts
<1>2. queue' \subseteq Realtime!Notification /\ CountsOK'
  <2>1. ASSUME NEW s \in Realtime!Senders, Realtime!MarkFails(s)
        PROVE  queue' \subseteq Realtime!Notification /\ CountsOK'
    BY <2>1 DEF Realtime!MarkFails, Realtime!counts, RowsInv, Types, CountsOK
  <2>2. ASSUME NEW s \in Realtime!Senders, NEW v \in Values, Realtime!Send(s, v)
        PROVE  queue' \subseteq Realtime!Notification /\ CountsOK'
    <3>1. sent' \in 0 .. MaxSends /\ told' \in 0 .. sent'
      BY <2>2 DEF Realtime!Send, RowsInv, Types, CountsOK, Realtime!RealtimeAssumption
    <3>2. sender' \in [Realtime!Senders -> Values \cup {None}]
      BY <2>2 DEF Realtime!Send, RowsInv, Types, CountsOK
    <3> QED BY <2>2, <3>1, <3>2 DEF Realtime!Send, RowsInv, Types, CountsOK
  <2>3. ASSUME NEW v \in Values, Realtime!Tell(v)
        PROVE  queue' \subseteq Realtime!Notification /\ CountsOK'
    <3>1. [ts |-> clock, prop |-> "none", list |-> {}, status |-> "PENDING", value |-> v]
            \in Realtime!Notification
      BY DEF RowsInv, Types, Realtime!Notification, Realtime!Lists
    <3>2. told' \in 0 .. sent'
      BY <2>3 DEF Realtime!Tell, RowsInv, Types, CountsOK, Realtime!RealtimeAssumption
    <3> QED BY <2>3, <3>1, <3>2 DEF Realtime!Tell, RowsInv, Types, CountsOK
  <2>4. ASSUME NEW prop \in Props, NEW list \in Realtime!Lists, NEW reported \in {"none", "SENT"},
               Realtime!Report(prop, list, reported)
        PROVE  queue' \subseteq Realtime!Notification /\ CountsOK'
    <3>1. [ts |-> clock, prop |-> prop, list |-> list, status |-> reported, value |-> None]
            \in Realtime!Notification
      BY DEF RowsInv, Types, Realtime!Notification, Props
    <3>2. reports' \in 0 .. MaxReports
      BY <2>4 DEF Realtime!Report, RowsInv, Types, CountsOK, Realtime!RealtimeAssumption
    <3> QED BY <2>4, <3>1, <3>2 DEF Realtime!Report, RowsInv, Types, CountsOK
  <2>5. {} \in Realtime!Lists BY DEF Realtime!Lists
  <2> QED BY <2>1, <2>2, <2>3, <2>4, <2>5 DEF Props
<1>3. Types' BY <1>1, <1>2 DEF RowsInv, Types, StoresOK, JobsOK, PastOK
<1>4. Realtime!RowsCurrent' BY <1>1, SameRows DEF RowsInv
<1> QED BY <1>1, <1>3, <1>4 DEF RowsInv, Aged, Looked, OneWriter

\* The invariant of the realtime rows holds throughout.
THEOREM RowsInvariance == ASSUME Realtime!RealtimeAssumption PROVE Realtime!Spec => []RowsInv
<1>1. Realtime!Init => RowsInv BY RowsStart
<1>2. RowsInv /\ [Realtime!Next]_Realtime!vars => RowsInv'
  <2> SUFFICES ASSUME RowsInv, [Realtime!Next]_Realtime!vars PROVE RowsInv' OBVIOUS
  <2>1. ASSUME UNCHANGED Realtime!vars PROVE RowsInv'
    <3>1. UNCHANGED <<one, clock, queue, job, rows, cmds, sender, sent, told, reports, past>>
      BY <2>1 DEF Realtime!vars, Realtime!stores, Realtime!counts
    <3>2. Types'
      BY <3>1 DEF RowsInv, Types, StoresOK, JobsOK, PastOK, CountsOK
    <3>3. Realtime!RowsCurrent' BY <3>1, SameRows DEF RowsInv
    <3> QED BY <3>1, <3>2, <3>3 DEF RowsInv, Aged, Looked, OneWriter
  <2>2. ASSUME NEW w \in Workers,
               Realtime!Select(w) \/ Realtime!Commit(w) \/ Realtime!Abandon(w)
                   \/ \E n \in queue : Realtime!Load(w, n)
        PROVE  RowsInv'
    BY <2>2, SelectKeeps, RowsCommitKeeps, AbandonKeeps, RowsLoadKeep
  <2>3. Realtime!Tick => RowsInv' BY ClockTickKeeps
  <2>4. Realtime!MarkByApi \/ Realtime!MarkByAlarm => RowsInv' BY MarksKeep
  <2> QED BY <2>1, <2>2, <2>3, <2>4, QuietKeeps DEF Realtime!Next
<1> QED BY <1>1, <1>2, PTL DEF Realtime!Spec

\* Every variable stays in its type.
THEOREM RowsTyped ==
  ASSUME Realtime!RealtimeAssumption
  PROVE  Realtime!Spec => []Realtime!TypeOK
<1>1. RowsInv => Realtime!TypeOK
  <2> SUFFICES ASSUME RowsInv PROVE Realtime!TypeOK OBVIOUS
  <2>1. \A w \in Workers : job[w].pc \in {"idle", "loaded", "selected"}
    BY DEF RowsInv, Types, JobsOK, Realtime!Idle, Loaded, Selected
  <2>2. \A p \in Props : \A i \in DOMAIN rows[p] : rows[p][i] \in Realtime!PropertyRow
    <3> SUFFICES ASSUME NEW p \in Props
                 PROVE  \A i \in DOMAIN rows[p] : rows[p][i] \in Realtime!PropertyRow
      OBVIOUS
    <3>1. rows[p] \in Seq(Realtime!PropertyRow) BY DEF RowsInv, Types, StoresOK
    <3> QED BY <3>1, LenProperties, ElementOfSeq
  <2>3. \A i \in DOMAIN cmds : cmds[i] \in Realtime!CommandRow
    <3>1. cmds \in Seq(Realtime!CommandRow) BY DEF RowsInv, Types, StoresOK
    <3> QED BY <3>1, LenProperties, ElementOfSeq
  <2> QED BY <2>1, <2>2, <2>3 DEF RowsInv, Types, CountsOK, Realtime!TypeOK, Props
<1> QED BY <1>1, RowsInvariance, PTL

\* What a query of the realtime database finds is what was last notified, unless
\* writers of the entity overlapped or a list came late.
THEOREM RowsStayCurrent ==
  ASSUME Realtime!RealtimeAssumption
  PROVE  Realtime!Spec => []Realtime!RowsCurrent
<1>1. RowsInv => Realtime!RowsCurrent BY DEF RowsInv
<1> QED BY <1>1, RowsInvariance, PTL

\* A report lowers the mark of a command only if it was taken after the mark was
\* raised, or the mark was raised again while the job of the report was at work.
THEOREM MarksOutlive ==
  ASSUME Realtime!RealtimeAssumption
  PROVE  Realtime!Spec => Realtime!MarkOutlivesOldReports
<1>1. RowsInv /\ [Realtime!Next]_Realtime!vars => [Realtime!OnlyNewerReports]_Realtime!vars
  <2> SUFFICES ASSUME RowsInv, Realtime!Next PROVE Realtime!OnlyNewerReports OBVIOUS
  <2> SUFFICES ASSUME NEW w \in Workers, NEW i \in DOMAIN cmds,
                      job[w] # Realtime!Idle, job'[w] = Realtime!Idle, job[w].n.status = "none",
                      cmds[i].pending, ~cmds'[i].pending
               PROVE  job[w].n.ts > cmds[i].marked \/ cmds[i] # job[w].seen[i]
    BY DEF Realtime!OnlyNewerReports
  <2> DEFINE j == job[w]
  <2>1. Realtime!Commit(w)
    <3>1. job' # job /\ cmds' # cmds OBVIOUS
    <3>2. \E v \in Workers : Realtime!Commit(v)
      BY <3>1
      DEF Realtime!Next, Realtime!Tick, Realtime!Select, Realtime!Abandon, Realtime!Load,
          Realtime!MarkFails, Realtime!Send, Realtime!MarkByApi, Realtime!MarkByAlarm,
                  Realtime!Tell, Realtime!Report, Realtime!stores
    <3>3. ASSUME NEW v \in Workers, Realtime!Commit(v) PROVE v = w
      <4>1. job' = [job EXCEPT ![v] = Realtime!Idle] BY <3>3 DEF Realtime!Commit
      <4> QED BY <4>1 DEF RowsInv, Types, JobsOK
    <3> QED BY <3>2, <3>3
  <2>2. j \in Selected /\ j.pc = "selected"
        /\ cmds' = Realtime!Marked(cmds, Realtime!StoreCommand(j))
    BY <2>1, CommitStores DEF RowsInv, Realtime!Commit
  <2>3. /\ Touched(cmds, Realtime!StoreCommand(j))
        /\ cmds[i].pending /\ ~Realtime!StoreCommand(j)[i].pending => i \in j.older
    BY <2>2, StoredCommand DEF Selected, RowsInv, Types, StoresOK
  <2>4. i \in DOMAIN Realtime!StoreCommand(j)
        /\ Realtime!StoreCommand(j) \in Seq(Realtime!CommandRow)
    BY <2>3 DEF Touched
  <2>5. cmds'[i].pending = Realtime!StoreCommand(j)[i].pending
    BY <2>2, <2>4, MarkedRows DEF RowsInv, Types
  <2>6. i \in DOMAIN j.seen /\ j.seen[i].marked < j.n.ts
    BY <2>2, <2>3, <2>5 DEF RowsInv, Looked
  <2>7. CASE cmds[i] = j.seen[i]
    <3>1. cmds[i] \in Realtime!CommandRow /\ j.n \in Realtime!Notification
      BY <2>2, LenProperties, ElementOfSeq DEF RowsInv, Types, StoresOK, Selected
    <3>2. cmds[i].marked \in Nat /\ j.n.ts \in Nat
      BY <3>1
      DEF Realtime!CommandRow, Realtime!Notification, Realtime!Time,
          Realtime!RealtimeAssumption
    <3> QED BY <2>6, <2>7, <3>2
  <2> QED BY <2>7
<1> QED BY <1>1, RowsInvariance, PTL DEF Realtime!Spec, Realtime!MarkOutlivesOldReports

-----------------------------------------------------------------------------
(* The cache of the crowd detections.                                      *)
CONSTANTS Rows, EntityOf, Limit
VARIABLES file, arrived, started, closed, late, cut
Cache == INSTANCE CrowdDataCache

\* What a job may be; an upload that failed is remembered until the last one.
Storing == [pc : {"storing"}, rows : SUBSET Rows, ok : BOOLEAN, left : SUBSET Entities]
Deleting == [pc : {"deleting"}, rows : SUBSET Rows, left : SUBSET Entities]
Reading == [pc : {"reading", "read"}, before : SUBSET Rows, rows : SUBSET Rows]
CacheTyped ==
  /\ series \subseteq Rows /\ arrived \subseteq Rows
  /\ file \in [Entities -> SUBSET Rows]
  /\ job \in [Workers -> {Cache!Idle} \cup Storing \cup Deleting \cup Reading]
  /\ {closed, late, cut} \subseteq BOOLEAN

\* Before the first execution no row has moved.
NotBegun ==
  /\ series = arrived
  /\ \A e \in Entities : file[e] = {}
  /\ \A w \in Workers : job[w].pc \notin {"storing", "deleting"}

Filed(e) == file[e] = Cache!Of(arrived, e)

\* Each entity has all of its rows, or none, in each of both places.
Whole ==
  /\ series \subseteq arrived
  /\ \A e \in Entities :
       /\ file[e] = {} \/ Filed(e)
       /\ Cache!Of(series, e) = Cache!Of(arrived, e) \/ (Cache!Of(series, e) = {} /\ Filed(e))

\* What a job has extracted is as whole, and what it has stored is filed.
Extracted(j) ==
  /\ j.rows \subseteq arrived
  /\ j.left \subseteq {EntityOf[r] : r \in j.rows}
  /\ \A e \in Entities :
       Cache!Of(j.rows, e) = Cache!Of(arrived, e) \/ (Cache!Of(j.rows, e) = {} /\ Filed(e))
  /\ j.ok => \A e \in Entities \ j.left : Filed(e)
Jobs ==
  \A w \in Workers :
    /\ job[w].pc = "storing" => Extracted(job[w])
    /\ job[w].pc = "deleting" => \A e \in Entities : Filed(e)

\* What a reader has not got from the series is in the files.
Readers ==
  \A w \in Workers :
    /\ job[w].pc = "reading" =>
         job[w].before \subseteq arrived /\ \A e \in Entities :
           Cache!Of(job[w].before, e) \subseteq job[w].rows \cup file[e]
    /\ job[w].pc = "read" => job[w].before \subseteq job[w].rows

Moved == (closed => Whole) /\ (~closed => NotBegun) /\ Jobs /\ Readers
CacheInv == CacheTyped /\ (~late /\ ~cut => Moved)

\* The instance counts as the library does.
LEMMA CacheCounts ==
  \A S : (Cache!IsFiniteSet(S) <=> IsFiniteSet(S)) /\ Cache!Cardinality(S) = Cardinality(S)
BY DEF Cache!IsFiniteSet, IsFiniteSet, Cache!Cardinality, Cardinality

\* A place holds all the rows of an answer if its limit cut none.
LEMMA WholeAnswer ==
  ASSUME Cache!CacheAssumption, CacheTyped, NEW answer \in Cache!Answers,
         \A e \in Entities : ~(Cache!Cardinality(Cache!Of(series, e)) > Limit)
  PROVE  answer \subseteq series /\ \A e \in Entities :
         Cache!Of(answer, e) = Cache!Of(series, e)
<1>1. answer \subseteq series BY DEF Cache!Answers
<1> SUFFICES ASSUME NEW e \in Entities PROVE Cache!Of(answer, e) = Cache!Of(series, e) BY <1>1
<1>2. Cache!Of(answer, e) \subseteq Cache!Of(series, e) /\ Cache!Of(series, e) \subseteq Rows
  BY <1>1 DEF Cache!Of, CacheTyped
<1>3. IsFiniteSet(Cache!Of(series, e))
  BY <1>2, FS_Subset, CacheCounts DEF Cache!CacheAssumption
<1>4. Cardinality(Cache!Of(series, e)) \in Nat BY <1>3, FS_CardinalityType
<1>5. Cache!Cardinality(Cache!Of(series, e)) = Cardinality(Cache!Of(series, e)) BY CacheCounts
<1>6. Cache!Min({Limit, Cache!Cardinality(Cache!Of(series, e))}) = Cardinality(Cache!Of(series, e))
  BY <1>4, <1>5 DEF Cache!Min, Cache!CacheAssumption
<1>7. Cache!Cardinality(Cache!Of(answer, e)) = Cardinality(Cache!Of(series, e))
  BY <1>6 DEF Cache!Answers
<1>8. Cardinality(Cache!Of(answer, e)) = Cardinality(Cache!Of(series, e)) BY <1>7, CacheCounts
<1> QED BY <1>2, <1>3, <1>8, FS_Subset

\* Nothing has been reported, stored or read at the start.
LEMMA CacheStarts == ASSUME Cache!CacheAssumption PROVE Cache!Init => CacheInv
<1> SUFFICES ASSUME Cache!Init PROVE CacheInv OBVIOUS
<1>1. CacheTyped BY DEF Cache!Init, CacheTyped
<1>2. \A w \in Workers : job[w].pc = "idle" BY DEF Cache!Init, Cache!Idle
<1>3. NotBegun /\ Jobs /\ Readers BY <1>2 DEF Cache!Init, NotBegun, Jobs, Readers
<1> QED BY <1>1, <1>3 DEF CacheInv, Moved, Cache!Init

\* The kinds of a job.
LEMMA JobKinds ==
  ASSUME CacheTyped, NEW w \in Workers
  PROVE  /\ job[w] = Cache!Idle => job[w].pc = "idle"
         /\ job[w].pc = "idle" => job[w] = Cache!Idle
         /\ job[w].pc = "storing" => job[w] \in Storing
         /\ job[w].pc = "deleting" => job[w] \in Deleting
         /\ job[w].pc \in {"reading", "read"} => job[w] \in Reading
         /\ job[w].pc \in {"idle", "storing", "deleting", "reading", "read"}
BY DEF CacheTyped, Cache!Idle, Storing, Deleting, Reading

\* A worker that goes idle keeps what the others do.
LEMMA GoingIdle ==
  ASSUME CacheInv, NEW w \in Workers, job' = [job EXCEPT ![w] = Cache!Idle],
         UNCHANGED <<series, file, arrived, closed, late, cut>>
  PROVE  CacheInv'
<1>1. CacheTyped /\ CacheTyped' BY DEF CacheInv, CacheTyped
<1>2. \A v \in Workers : job'[v] = job[v] \/ job'[v].pc = "idle"
  BY <1>1 DEF CacheTyped, Cache!Idle
<1>3. ASSUME ~late, ~cut PROVE Moved'
  <2>1. Moved BY <1>3 DEF CacheInv
  <2>2. (closed => Whole') /\ (~closed => NotBegun')
    BY <2>1, <1>2 DEF Moved, Whole, NotBegun, Cache!Of, Filed
  <2>3. Jobs' BY <2>1, <1>2 DEF Moved, Jobs, Extracted, Cache!Of, Filed
  <2>4. Readers' BY <2>1, <1>2 DEF Moved, Readers, Cache!Of
  <2> QED BY <2>2, <2>3, <2>4 DEF Moved
<1> QED BY <1>1, <1>3 DEF CacheInv

\* A row that comes while the hour is open finds that nothing has moved yet.
LEMMA ArriveKeeps ==
  ASSUME Cache!CacheAssumption, CacheInv, NEW r \in Rows, Cache!Arrive(r) PROVE CacheInv'
<1> USE DEF Cache!Arrive
<1>1. CacheTyped BY DEF CacheInv
<1>2. CacheTyped' BY <1>1 DEF CacheTyped
<1>3. ASSUME ~late', ~cut' PROVE Moved'
  <2>1. ~closed /\ ~late /\ ~cut BY <1>1, <1>3 DEF CacheTyped
  <2>2. NotBegun /\ Jobs /\ Readers BY <2>1 DEF CacheInv, Moved
  <2>3. NotBegun' BY <2>2 DEF NotBegun
  <2>4. Jobs' BY <2>2 DEF NotBegun, Jobs
  <2>5. Readers' BY <2>2 DEF Readers
  <2> QED BY <2>1, <2>3, <2>4, <2>5 DEF Moved
<1> QED BY <1>2, <1>3 DEF CacheInv

\* What an execution extracts holds all the rows of an entity, or none and then
\* they are filed, since its request was not cut.
LEMMA ExtractKeeps ==
  ASSUME Cache!CacheAssumption, CacheInv, NEW w \in Workers,
         NEW answer \in Cache!Answers \cup {{}},
         Cache!Extract(w, answer)
  PROVE  CacheInv'
<1> USE DEF Cache!Extract
<1> DEFINE New == [pc |-> "storing", rows |-> answer, ok |-> TRUE,
                   left |-> {EntityOf[r] : r \in answer}]
<1>1. CacheTyped BY DEF CacheInv
<1>2. answer \subseteq series BY DEF Cache!Answers
<1>3. New \in Storing
  BY <1>1, <1>2 DEF CacheTyped, Cache!CacheAssumption, Storing
<1>4. (answer = {} /\ job' = job) \/ (answer # {} /\ job' = [job EXCEPT ![w] = New]) OBVIOUS
<1> HIDE DEF New
<1>5. CacheTyped' BY <1>1, <1>3, <1>4 DEF CacheTyped
<1>6. ASSUME ~late', ~cut' PROVE Moved'
  <2>1. ~late /\ ~cut /\ \A e \in Entities : ~(Cache!Cardinality(Cache!Of(series, e)) > Limit)
    BY <1>1, <1>6 DEF CacheTyped
  <2>2. (closed => Whole) /\ (~closed => NotBegun) /\ Jobs /\ Readers
    BY <2>1 DEF CacheInv, Moved
  <2>3. Whole BY <2>2, <1>1 DEF NotBegun, Whole, CacheTyped
  <2>4. Whole' BY <2>3 DEF Whole, Cache!Of, Filed
  <2>5. \A v \in Workers : job'[v] = job[v] \/ (v = w /\ answer # {} /\ job'[v] = New)
    BY <1>1, <1>4 DEF CacheTyped
  <2>6. answer # {} => Extracted(New)
    <3> SUFFICES ASSUME answer # {} PROVE Extracted(New) OBVIOUS
    <3>1. \A e \in Entities : Cache!Of(answer, e) = Cache!Of(series, e)
      BY <1>1, <2>1, WholeAnswer
    <3>2. New.rows = answer /\ New.left = {EntityOf[r] : r \in answer} BY DEF New
    <3>3. \A e \in Entities : Cache!Of(New.rows, e) = Cache!Of(arrived, e)
          \/ (Cache!Of(New.rows, e) = {} /\ Filed(e))
      BY <2>3, <3>1, <3>2 DEF Whole
    <3>4. \A e \in Entities \ New.left : Filed(e)
      <4> SUFFICES ASSUME NEW e \in Entities \ New.left PROVE Filed(e) OBVIOUS
      <4>1. Cache!Of(answer, e) = {} BY <3>2 DEF Cache!Of
      <4>2. Cache!Of(arrived, e) = {} \/ Filed(e) BY <4>1, <3>1, <2>3 DEF Whole
      <4> QED BY <4>2, <2>3 DEF Whole, Filed
    <3> QED BY <1>2, <2>3, <3>2, <3>3, <3>4 DEF Extracted, Whole
  <2>7. Jobs'
    <3> SUFFICES ASSUME NEW v \in Workers
                 PROVE  /\ job'[v].pc = "storing" => Extracted(job[v])'
                        /\ job'[v].pc = "deleting" => \A e \in Entities : Filed(e)'
      BY DEF Jobs
    <3>1. CASE job'[v] = job[v] BY <3>1, <2>2 DEF Jobs, Extracted, Cache!Of, Filed
    <3>2. CASE answer # {} /\ job'[v] = New
      <4>1. New.pc # "deleting" BY DEF New
      <4> QED BY <3>2, <4>1, <2>6 DEF Extracted, Cache!Of, Filed
    <3> QED BY <3>1, <3>2, <2>5
  <2>8. Readers' BY <2>2, <2>5 DEF Readers, Cache!Of, New
  <2> QED BY <2>4, <2>7, <2>8, <1>5 DEF Moved
<1> QED BY <1>5, <1>6 DEF CacheInv

\* A file, once written, has all the rows of its entity.
LEMMA StoreKeeps ==
  ASSUME CacheInv, NEW w \in Workers, NEW e \in Entities, NEW succeeds \in BOOLEAN,
         Cache!Store(w, e, succeeds)
  PROVE  CacheInv'
<1>1. CacheTyped BY DEF CacheInv
<1>2. job[w] \in Storing /\ e \in job[w].left /\ job[w].pc = "storing"
  BY <1>1, JobKinds DEF Cache!Store
<1>3. PICK new \in Storing : /\ job' = [job EXCEPT ![w] = new]
                             /\ new.rows = job[w].rows /\ new.left = job[w].left \ {e}
                             /\ new.ok => job[w].ok /\ succeeds
  <2> DEFINE new == [job[w] EXCEPT !.left = @ \ {e}, !.ok = @ /\ succeeds]
  <2>1. new \in Storing BY <1>2 DEF Storing
  <2>2. new.rows = job[w].rows /\ new.left = job[w].left \ {e} /\ new.ok = (job[w].ok /\ succeeds)
    BY <1>2, Zenon DEF Storing
  <2>3. job' = [job EXCEPT ![w] = new] BY DEF Cache!Store
  <2> QED BY <2>1, <2>2, <2>3
<1>4. /\ file' = file \/ (succeeds /\ file' = [file EXCEPT ![e] = Cache!Of(job[w].rows, e)])
      /\ succeeds => file' = [file EXCEPT ![e] = Cache!Of(job[w].rows, e)]
      /\ UNCHANGED <<series, arrived, closed, late, cut>>
  BY DEF Cache!Store
<1>5. CacheTyped'
  <2>1. Cache!Of(job[w].rows, e) \in SUBSET Rows BY <1>2 DEF Storing, Cache!Of
  <2> QED BY <1>1, <1>3, <1>4, <2>1 DEF CacheTyped
<1>6. ASSUME ~late', ~cut' PROVE Moved'
  <2>1. (closed => Whole) /\ (~closed => NotBegun) /\ Jobs /\ Readers
    BY <1>4, <1>6 DEF CacheInv, Moved
  <2>2. Extracted(job[w]) BY <1>2, <2>1 DEF Jobs
  <2>3. closed /\ Whole BY <2>1, <1>2, <1>1 DEF NotBegun, CacheTyped
  <2>4. Cache!Of(job[w].rows, e) = Cache!Of(arrived, e) BY <1>2, <2>2 DEF Extracted, Cache!Of
  <2>5. \A x \in Entities : file'[x] = file[x] \/ file'[x] = Cache!Of(arrived, x)
    BY <1>1, <1>4, <2>4 DEF CacheTyped
  <2>6. succeeds => file'[e] = Cache!Of(arrived, e) BY <1>1, <1>4, <2>4 DEF CacheTyped
  <2>7. \A x \in Entities : Filed(x) => Filed(x)' BY <2>5, <1>4 DEF Filed, Cache!Of
  <2>8. Whole' BY <2>3, <2>5, <1>4 DEF Whole, Filed, Cache!Of
  <2>9. Extracted(new)'
    <3>1. \A x \in Entities : Cache!Of(new.rows, x) = Cache!Of(arrived, x)
          \/ (Cache!Of(new.rows, x) = {} /\ Filed(x)')
      BY <1>3, <2>2, <2>7 DEF Extracted
    <3>2. new.ok => \A x \in Entities \ new.left : Filed(x)'
      BY <1>3, <1>4, <2>2, <2>6, <2>7 DEF Extracted, Filed, Cache!Of
    <3> QED BY <3>1, <3>2, <1>3, <1>4, <2>2 DEF Extracted, Cache!Of
  <2>10. Jobs'
    <3> SUFFICES ASSUME NEW v \in Workers
                 PROVE  /\ job'[v].pc = "storing" => Extracted(job[v])'
                        /\ job'[v].pc = "deleting" => \A x \in Entities : Filed(x)'
      BY DEF Jobs
    <3>1. CASE v = w BY <3>1, <1>1, <1>3, <2>9 DEF CacheTyped, Storing
    <3>2. CASE v # w
      <4>1. job'[v] = job[v] BY <3>2, <1>1, <1>3 DEF CacheTyped
      <4> QED BY <4>1, <2>1, <2>7, <1>4 DEF Jobs, Extracted, Cache!Of
    <3> QED BY <3>1, <3>2
  <2>11. Readers'
    <3> SUFFICES ASSUME NEW v \in Workers, job'[v].pc \in {"reading", "read"}
                 PROVE  /\ job'[v].pc = "reading" =>
                             /\ job'[v].before \subseteq arrived'
                             /\ \A x \in Entities :
                                  Cache!Of(job'[v].before, x) \subseteq job'[v].rows \cup file'[x]
                        /\ job'[v].pc = "read" => job'[v].before \subseteq job'[v].rows
      BY DEF Readers, Cache!Of
    <3>1. v # w /\ job'[v] = job[v] BY <1>1, <1>3 DEF CacheTyped, Storing
    <3> QED BY <3>1, <2>1, <2>5, <1>4 DEF Readers, Cache!Of
  <2> QED BY <1>4, <2>3, <2>8, <2>10, <2>11 DEF Moved
<1> QED BY <1>5, <1>6 DEF CacheInv

\* Only a job that stored every file of its rows goes on to delete them.
LEMMA StoredKeeps ==
  ASSUME CacheInv, NEW w \in Workers, Cache!Stored(w) PROVE CacheInv'
<1>1. CacheTyped BY DEF CacheInv
<1>2. job[w] \in Storing /\ job[w].left = {} /\ job[w].pc = "storing"
  BY <1>1, JobKinds DEF Cache!Stored
<1>3. UNCHANGED <<series, file, arrived, closed, late, cut>> BY DEF Cache!Stored
<1>4. CASE ~job[w].ok
  <2>1. job' = [job EXCEPT ![w] = Cache!Idle] BY <1>4 DEF Cache!Stored
  <2> QED BY <2>1, <1>3, GoingIdle
<1>5. CASE job[w].ok
  <2> DEFINE new == [pc |-> "deleting", left |-> Entities, rows |-> job[w].rows]
  <2>1. job' = [job EXCEPT ![w] = new] BY <1>5 DEF Cache!Stored
  <2>2. new \in Deleting BY <1>2 DEF Storing, Deleting
  <2>3. new.pc = "deleting" OBVIOUS
  <2> HIDE DEF new
  <2>4. CacheTyped' BY <1>1, <1>3, <2>1, <2>2 DEF CacheTyped
  <2>5. \A v \in Workers : job'[v] = job[v] \/ (v = w /\ job'[v] = new)
    BY <1>1, <2>1 DEF CacheTyped
  <2>6. ASSUME ~late', ~cut' PROVE Moved'
    <3>1. (closed => Whole) /\ (~closed => NotBegun) /\ Jobs /\ Readers
      BY <1>3, <2>6 DEF CacheInv, Moved
    <3>2. Extracted(job[w]) BY <1>2, <3>1 DEF Jobs
    <3>3. \A e \in Entities : Filed(e) BY <1>2, <1>5, <3>2 DEF Extracted
    <3>4. closed /\ Whole BY <3>1, <1>2, <1>1 DEF NotBegun, CacheTyped
    <3>5. Whole' BY <3>4, <1>3 DEF Whole, Filed, Cache!Of
    <3>6. Jobs' BY <3>1, <3>3, <2>3, <2>5, <1>3 DEF Jobs, Extracted, Filed, Cache!Of
    <3>7. Readers' BY <3>1, <2>3, <2>5, <1>3 DEF Readers, Cache!Of
    <3> QED BY <3>4, <3>5, <3>6, <3>7, <1>3 DEF Moved
  <2> QED BY <2>4, <2>6 DEF CacheInv
<1> QED BY <1>4, <1>5

\* What is deleted is filed.
LEMMA DeleteKeeps ==
  ASSUME CacheInv, NEW w \in Workers, NEW e \in Entities, Cache!Delete(w, e) PROVE CacheInv'
<1>1. CacheTyped BY DEF CacheInv
<1>2. job[w] \in Deleting /\ job[w].pc = "deleting" BY <1>1, JobKinds DEF Cache!Delete
<1>3. /\ series' = series \ Cache!Of(series, e)
      /\ UNCHANGED <<file, arrived, closed, late, cut>>
  BY DEF Cache!Delete
<1>4. PICK new \in {Cache!Idle} \cup Deleting : job' = [job EXCEPT ![w] = new]
  <2> DEFINE less == [job[w] EXCEPT !.left = @ \ {e}]
  <2>1. less \in Deleting BY <1>2 DEF Deleting
  <2>2. job' = [job EXCEPT ![w] = Cache!Idle] \/ job' = [job EXCEPT ![w] = less]
    BY DEF Cache!Delete
  <2> HIDE DEF less
  <2> QED BY <2>1, <2>2
<1>5. CacheTyped' BY <1>1, <1>3, <1>4 DEF CacheTyped
<1>6. \A v \in Workers : job'[v] = job[v] \/ (v = w /\ job'[v].pc \in {"idle", "deleting"})
  BY <1>1, <1>4 DEF CacheTyped, Cache!Idle, Deleting
<1>7. ASSUME ~late', ~cut' PROVE Moved'
  <2>1. (closed => Whole) /\ (~closed => NotBegun) /\ Jobs /\ Readers
    BY <1>3, <1>7 DEF CacheInv, Moved
  <2>2. \A x \in Entities : Filed(x) BY <1>2, <2>1 DEF Jobs
  <2>3. closed /\ Whole BY <2>1, <1>2, <1>1 DEF NotBegun, CacheTyped
  <2>4. \A x \in Entities : Cache!Of(series', x) = IF x = e THEN {} ELSE Cache!Of(series, x)
    BY <1>3 DEF Cache!Of
  <2>5. Whole' BY <2>2, <2>3, <2>4, <1>3 DEF Whole, Filed, Cache!Of
  <2>6. Jobs' BY <2>1, <2>2, <1>6, <1>3 DEF Jobs, Extracted, Filed, Cache!Of
  <2>7. Readers' BY <2>1, <1>6, <1>3 DEF Readers, Cache!Of
  <2> QED BY <2>3, <2>5, <2>6, <2>7, <1>3 DEF Moved
<1> QED BY <1>5, <1>7 DEF CacheInv

\* A reader takes the series while each row is there or filed ...
LEMMA ReadSeriesKeeps ==
  ASSUME Cache!CacheAssumption, CacheInv, NEW w \in Workers, Cache!ReadSeries(w)
  PROVE  CacheInv'
<1> DEFINE new == [pc |-> "reading", before |-> arrived, rows |-> series]
<1>1. CacheTyped BY DEF CacheInv
<1>2. /\ job' = [job EXCEPT ![w] = new]
      /\ UNCHANGED <<series, file, arrived, closed, late, cut>>
  BY DEF Cache!ReadSeries
<1>3. new \in Reading BY <1>1 DEF CacheTyped, Reading
<1>4. new.pc = "reading" /\ new.before = arrived /\ new.rows = series OBVIOUS
<1> HIDE DEF new
<1>5. CacheTyped' BY <1>1, <1>2, <1>3 DEF CacheTyped
<1>6. \A v \in Workers : job'[v] = job[v] \/ (v = w /\ job'[v] = new)
  BY <1>1, <1>2 DEF CacheTyped
<1>7. ASSUME ~late', ~cut' PROVE Moved'
  <2>1. (closed => Whole) /\ (~closed => NotBegun) /\ Jobs /\ Readers
    BY <1>2, <1>7 DEF CacheInv, Moved
  <2>2. \A e \in Entities : Cache!Of(arrived, e) \subseteq series \cup file[e]
    BY <1>1, <2>1 DEF CacheTyped, Whole, NotBegun, Filed, Cache!Of
  <2>3. (closed' => Whole') /\ (~closed' => NotBegun')
    BY <2>1, <1>2, <1>4, <1>6 DEF Whole, NotBegun, Filed, Cache!Of
  <2>4. Jobs' BY <2>1, <1>2, <1>4, <1>6 DEF Jobs, Extracted, Filed, Cache!Of
  <2>5. Readers' BY <2>1, <2>2, <1>2, <1>4, <1>6 DEF Readers, Cache!Of
  <2> QED BY <2>3, <2>4, <2>5 DEF Moved
<1> QED BY <1>5, <1>7 DEF CacheInv

\* ... and then the files, which still have what it missed.
LEMMA ReadFilesKeeps ==
  ASSUME Cache!CacheAssumption, CacheInv, NEW w \in Workers, Cache!ReadFiles(w)
  PROVE  CacheInv'
<1> DEFINE new == [pc |-> "read", before |-> job[w].before,
                   rows |-> job[w].rows \cup UNION {file[e] : e \in Entities}]
<1>1. CacheTyped BY DEF CacheInv
<1>2. /\ job' = [job EXCEPT ![w] = new]
      /\ UNCHANGED <<series, file, arrived, closed, late, cut>>
  BY DEF Cache!ReadFiles
<1>3. job[w] \in Reading /\ job[w].pc = "reading" BY <1>1, JobKinds DEF Cache!ReadFiles
<1>4. new \in Reading BY <1>1, <1>3 DEF CacheTyped, Reading
<1>5. /\ new.pc = "read" /\ new.before = job[w].before
      /\ new.rows = job[w].rows \cup UNION {file[e] : e \in Entities}
  OBVIOUS
<1> HIDE DEF new
<1>6. CacheTyped' BY <1>1, <1>2, <1>4 DEF CacheTyped
<1>7. \A v \in Workers : job'[v] = job[v] \/ (v = w /\ job'[v] = new)
  BY <1>1, <1>2 DEF CacheTyped
<1>8. ASSUME ~late', ~cut' PROVE Moved'
  <2>1. (closed => Whole) /\ (~closed => NotBegun) /\ Jobs /\ Readers
    BY <1>2, <1>8 DEF CacheInv, Moved
  <2>2. new.before \subseteq new.rows
    <3> SUFFICES ASSUME NEW r \in new.before PROVE r \in new.rows OBVIOUS
    <3>1. r \in Rows /\ EntityOf[r] \in Entities
      BY <1>3, <1>5 DEF Reading, Cache!CacheAssumption
    <3>2. r \in job[w].rows \cup file[EntityOf[r]]
      BY <1>3, <1>5, <2>1, <3>1 DEF Readers, Cache!Of
    <3> QED BY <1>5, <3>1, <3>2
  <2>3. (closed' => Whole') /\ (~closed' => NotBegun')
    BY <2>1, <1>2, <1>5, <1>7 DEF Whole, NotBegun, Filed, Cache!Of
  <2>4. Jobs' BY <2>1, <1>2, <1>5, <1>7 DEF Jobs, Extracted, Filed, Cache!Of
  <2>5. Readers' BY <2>1, <2>2, <1>2, <1>5, <1>7 DEF Readers, Cache!Of
  <2> QED BY <2>3, <2>4, <2>5 DEF Moved
<1> QED BY <1>6, <1>8 DEF CacheInv

\* Every step keeps each row in the time series or in the file of its entity.
LEMMA CacheSteps ==
  ASSUME Cache!CacheAssumption PROVE CacheInv /\ [Cache!Next]_Cache!vars => CacheInv'
<1> SUFFICES ASSUME CacheInv, [Cache!Next]_Cache!vars PROVE CacheInv' OBVIOUS
<1>1. CASE UNCHANGED Cache!vars
  BY <1>1
  DEF Cache!vars, CacheInv, CacheTyped, Moved, Whole, NotBegun, Jobs, Extracted, Readers,
              Filed, Cache!Of
<1>2. ASSUME NEW r \in Rows, Cache!Arrive(r) PROVE CacheInv' BY <1>2, ArriveKeeps
<1>3. ASSUME NEW w \in Workers, NEW answer \in Cache!Answers \cup {{}}, Cache!Extract(w, answer)
      PROVE  CacheInv'
  BY <1>3, ExtractKeeps
<1>4. ASSUME NEW w \in Workers, NEW e \in Entities, Cache!Delete(w, e) PROVE CacheInv'
  BY <1>4, DeleteKeeps
<1>5. ASSUME NEW w \in Workers, NEW e \in Entities, NEW succeeds \in BOOLEAN,
             Cache!Store(w, e, succeeds)
      PROVE  CacheInv'
  BY <1>5, StoreKeeps
<1>6. ASSUME NEW w \in Workers, Cache!Stored(w) PROVE CacheInv' BY <1>6, StoredKeeps
<1>7. ASSUME NEW w \in Workers, Cache!Killed(w) \/ Cache!Finish(w) PROVE CacheInv'
  BY <1>7, GoingIdle DEF Cache!Killed, Cache!Finish
<1>8. ASSUME NEW w \in Workers, Cache!ReadSeries(w) PROVE CacheInv' BY <1>8, ReadSeriesKeeps
<1>9. ASSUME NEW w \in Workers, Cache!ReadFiles(w) PROVE CacheInv' BY <1>9, ReadFilesKeeps
<1> QED BY <1>1, <1>2, <1>3, <1>4, <1>5, <1>6, <1>7, <1>8, <1>9 DEF Cache!Next

\* CrowdDataCacheETL moves the detections of a past hour to files: each row is in the
\* time series or in the file of its entity, and a reader that asks the series and then
\* the files gets every row reported before, whatever executions overlap, fail to store
\* or are killed; for any workers, entities, rows and limit.
THEOREM DetectionsReachable ==
  ASSUME Cache!CacheAssumption
  PROVE  Cache!Spec => []Cache!RowsReachable
<1>1. ASSUME CacheInv PROVE Cache!RowsReachable
  <2>1. CacheTyped BY <1>1 DEF CacheInv
  <2>2. ASSUME ~late, ~cut, NEW r \in arrived
        PROVE  r \in series \cup UNION {file[e] : e \in Entities}
    <3>1. (closed => Whole) /\ (~closed => NotBegun) BY <1>1, <2>2 DEF CacheInv, Moved
    <3>2. EntityOf[r] \in Entities BY <2>1, <2>2 DEF CacheTyped, Cache!CacheAssumption
    <3>3. r \in Cache!Of(arrived, EntityOf[r]) BY <2>2 DEF Cache!Of
    <3>4. r \in series \/ r \in file[EntityOf[r]]
      BY <3>1, <3>2, <3>3, <2>1 DEF CacheTyped, Whole, NotBegun, Filed, Cache!Of
    <3> QED BY <3>2, <3>4
  <2>3. Cache!RowsKept BY <2>2 DEF Cache!RowsKept
  <2>4. Cache!ReaderSeesAll BY <1>1 DEF CacheInv, Moved, Readers, Cache!ReaderSeesAll
  <2> QED BY <2>3, <2>4 DEF Cache!RowsReachable
<1> QED BY <1>1, CacheStarts, CacheSteps, PTL DEF Cache!Spec

-----------------------------------------------------------------------------
(* The classification of the visitors.                                     *)
CONSTANTS Visitors, Hours, Length, ResidentDays, TouristHours, ChunkSize, MaxDay,
          MaxStays, MaxRuns
VARIABLES today, stays, table, report, first, best, apart
Classified == INSTANCE CrowdVisitors

Kept == Classified!Types \ {"ShortTermVisitor"}
TypesIn(v) == {r.type : r \in {x \in table : x.visitor = v}}
Waiting(w) == DOMAIN job[w].left
Inserting(v) == \E w \in Workers : job[w].pc = "inserting" /\ v \in job[w].chunk

\* The work of a classification.
VisitorsTyped ==
  /\ best \in [Visitors -> Classified!Types] /\ apart \in BOOLEAN
  /\ \A s \in stays : s.visitor \in Visitors
  /\ job = [w \in Workers |-> job[w]]
  /\ \A w \in Workers :
       job[w] # Classified!Idle =>
         /\ job[w].pc \in {"deleting", "inserting"}
         /\ job[w].left \in [Waiting(w) -> Kept] /\ Waiting(w) \subseteq Visitors
         /\ job[w].pc = "inserting" => job[w].chunk \subseteq Waiting(w)

\* One classification at a time; who is known has one row, of the highest type, but
\* for those whose row is deleted and not yet inserted; and who is known and seen again
\* is to be stored as a resident.
OneRow ==
  \A v \in Visitors :
    TypesIn(v) = IF Inserting(v) \/ best[v] = "ShortTermVisitor" THEN {} ELSE {best[v]}
Alone == \A v, w \in Workers : job[v] # Classified!Idle /\ job[w] # Classified!Idle => v = w
Raised ==
  \A w \in Workers : job[w] # Classified!Idle =>
    \A v \in Waiting(w) : best[v] # "ShortTermVisitor" => job[w].left[v] = "Resident"
VisitorsInv == VisitorsTyped /\ (apart => OneRow /\ Alone /\ Raised)

\* Nobody has been seen or stored at the start.
LEMMA VisitorsStart == Classified!Init => VisitorsInv
<1> SUFFICES ASSUME Classified!Init PROVE VisitorsInv OBVIOUS
<1>1. \A w \in Workers : job[w] = Classified!Idle /\ job[w].pc = "idle"
  BY DEF Classified!Init, Classified!Idle
<1>2. VisitorsTyped BY <1>1 DEF Classified!Init, VisitorsTyped, Classified!Types
<1>3. OneRow /\ Alone /\ Raised BY <1>1 DEF Classified!Init, OneRow, Alone, Raised, TypesIn
<1> QED BY <1>2, <1>3 DEF VisitorsInv

\* A step that touches neither the rows nor the jobs.
LEMMA Untouched ==
  ASSUME VisitorsInv, UNCHANGED <<table, job, best, apart>>,
         \A s \in stays' : s.visitor \in Visitors
  PROVE  VisitorsInv'
<1>1. VisitorsTyped' BY DEF VisitorsInv, VisitorsTyped, Waiting
<1>2. ASSUME apart' PROVE (OneRow /\ Alone /\ Raised)'
  BY <1>2 DEF VisitorsInv, OneRow, Alone, Raised, TypesIn, Inserting, Waiting
<1> QED BY <1>1, <1>2 DEF VisitorsInv

\* What a visitor is classified as.
LEMMA TypeIsType ==
  ASSUME NEW v, NEW seen, NEW previous
  PROVE  Classified!TypeOf(v, seen, previous) \in Classified!Types
BY DEF Classified!TypeOf, Classified!Types

\* A classification that begins alone is to store who was known as a resident.
LEMMA ClassifyKeeps ==
  ASSUME VisitorsInv, NEW w \in Workers, NEW from \in 0 .. MaxDay,
         NEW previous \in Classified!Previous,
         Classified!Classify(w, from, previous)
  PROVE  VisitorsInv'
<1> DEFINE seen == Classified!Between(from, from + Length)
           type == [v \in {s.visitor : s \in seen} |-> Classified!TypeOf(v, seen, previous)]
           kept == {v \in DOMAIN type : type[v] # "ShortTermVisitor"}
           new == [pc |-> "deleting", left |-> Classified!Restrict(type, kept)]
<1>1. VisitorsTyped BY DEF VisitorsInv
<1>2. /\ job[w] = Classified!Idle
      /\ kept = {} => job' = job
      /\ kept # {} => job' = [job EXCEPT ![w] = new]
      /\ apart' = (apart /\ \A v \in Workers : job[v] = Classified!Idle)
      /\ UNCHANGED <<stays, table, best>>
  BY DEF Classified!Classify
<1>3. DOMAIN type \subseteq Visitors BY <1>1 DEF VisitorsTyped, Classified!Between
<1>4. \A v \in DOMAIN type : type[v] \in Classified!Types BY TypeIsType
<1>5. Classified!Restrict(type, kept) \in [kept -> Kept]
  <2> HIDE DEF type
  <2> QED BY <1>4 DEF Classified!Restrict, Kept
<1>6. DOMAIN previous = Classified!Stored BY DEF Classified!Previous
<1>7. ASSUME NEW v \in kept, v \in Classified!Stored
      PROVE  Classified!Restrict(type, kept)[v] = "Resident"
  <2>1. Classified!TypeOf(v, seen, previous) = "Resident" BY <1>6, <1>7 DEF Classified!TypeOf
  <2>2. type[v] = "Resident" BY <2>1, <1>7
  <2> HIDE DEF type
  <2> QED BY <2>2, <1>7 DEF Classified!Restrict
<1>8. new.pc = "deleting" /\ new.left = Classified!Restrict(type, kept) OBVIOUS
<1>9. kept \subseteq Visitors BY <1>3
<1> HIDE DEF new, kept, type, seen
<1>10. CASE kept = {}
  <2>1. VisitorsTyped' BY <1>1, <1>2, <1>10 DEF VisitorsTyped, Waiting
  <2>2. ASSUME apart' PROVE (OneRow /\ Alone /\ Raised)'
    <3>1. OneRow /\ Alone /\ Raised BY <1>1, <1>2, <2>2 DEF VisitorsInv, VisitorsTyped
    <3> QED BY <3>1, <1>2, <1>10 DEF OneRow, Alone, Raised, TypesIn, Inserting, Waiting
  <2> QED BY <2>1, <2>2 DEF VisitorsInv
<1>11. CASE kept # {}
  <2>1. \A v \in Workers : job'[v] = IF v = w THEN new ELSE job[v]
    BY <1>1, <1>2, <1>11 DEF VisitorsTyped
  <2>2. Waiting(w)' = kept /\ \A v \in Workers \ {w} : Waiting(v)' = Waiting(v)
    BY <1>5, <1>8, <2>1 DEF Waiting
  <2>3. VisitorsTyped'
    BY <1>1, <1>2, <1>5, <1>8, <1>9, <1>11, <2>1, <2>2 DEF VisitorsTyped
  <2>4. ASSUME apart' PROVE (OneRow /\ Alone /\ Raised)'
    <3>1. OneRow /\ \A v \in Workers : job[v] = Classified!Idle
      BY <1>1, <1>2, <2>4 DEF VisitorsInv, VisitorsTyped
    <3>2. \A v : ~Inserting(v) /\ ~Inserting(v)'
      BY <3>1, <1>8, <2>1 DEF Inserting, Classified!Idle
    <3>3. OneRow' BY <3>1, <3>2, <1>2 DEF OneRow, TypesIn
    <3>4. Alone' BY <3>1, <2>1 DEF Alone
    <3>5. ASSUME NEW v \in kept, best[v] # "ShortTermVisitor" PROVE new.left[v] = "Resident"
      <4>1. TypesIn(v) # {} BY <3>1, <3>2, <3>5, <1>9 DEF OneRow
      <4>2. v \in Classified!Stored BY <4>1 DEF TypesIn, Classified!Stored
      <4> QED BY <4>2, <3>5, <1>7, <1>8
    <3>6. Raised' BY <3>1, <3>5, <2>1, <2>2, <1>2 DEF Raised
    <3> QED BY <3>3, <3>4, <3>6
  <2> QED BY <2>3, <2>4 DEF VisitorsInv
<1> QED BY <1>10, <1>11

\* The visitors of a chunk whose rows are deleted are those about to be inserted.
LEMMA DeleteChunkKeeps ==
  ASSUME VisitorsInv, NEW w \in Workers, NEW chunk \in SUBSET Visitors,
         Classified!DeleteChunk(w, chunk)
  PROVE  VisitorsInv'
<1> DEFINE new == [pc |-> "inserting", left |-> job[w].left, chunk |-> chunk]
<1>1. VisitorsTyped BY DEF VisitorsInv
<1>2. /\ job[w].pc = "deleting" /\ chunk \subseteq Waiting(w)
      /\ table' = {r \in table : r.visitor \notin chunk}
      /\ job' = [job EXCEPT ![w] = new]
      /\ UNCHANGED <<stays, best, apart>>
  BY DEF Classified!DeleteChunk, Waiting
<1>3. new.pc = "inserting" /\ new.left = job[w].left /\ new.chunk = chunk OBVIOUS
<1>4. job[w] # Classified!Idle BY <1>2 DEF Classified!Idle
<1>5. new # Classified!Idle BY <1>3 DEF Classified!Idle
<1> HIDE DEF new
<1>6. \A v \in Workers : job'[v] = IF v = w THEN new ELSE job[v]
  BY <1>1, <1>2 DEF VisitorsTyped
<1>7. \A v \in Workers : Waiting(v)' = Waiting(v) BY <1>3, <1>6 DEF Waiting
<1>8. VisitorsTyped'
  BY <1>1, <1>2, <1>3, <1>4, <1>6, <1>7 DEF VisitorsTyped
<1>9. ASSUME apart' PROVE (OneRow /\ Alone /\ Raised)'
  <2>1. OneRow /\ Alone /\ Raised BY <1>1, <1>2, <1>9 DEF VisitorsInv, VisitorsTyped
  <2>2. \A v : ~Inserting(v) /\ (Inserting(v)' <=> v \in chunk)
    BY <2>1, <1>2, <1>3, <1>4, <1>6 DEF Alone, Inserting, Classified!Idle
  <2>3. \A v \in Visitors : TypesIn(v)' = IF v \in chunk THEN {} ELSE TypesIn(v)
    BY <1>2 DEF TypesIn
  <2>4. OneRow' BY <2>1, <2>2, <2>3, <1>2 DEF OneRow
  <2>5. Alone' BY <2>1, <1>4, <1>6 DEF Alone
  <2>6. Raised' BY <2>1, <1>2, <1>3, <1>4, <1>6, <1>7 DEF Raised
  <2> QED BY <2>4, <2>5, <2>6
<1> QED BY <1>8, <1>9 DEF VisitorsInv

\* A visitor of the chunk gets one row, not below the highest type so far.
LEMMA InsertChunkKeeps ==
  ASSUME VisitorsInv, NEW w \in Workers, Classified!InsertChunk(w) PROVE VisitorsInv'
<1> DEFINE left == job[w].left
           chunk == job[w].chunk
           rest == Waiting(w) \ chunk
           more == [pc |-> "deleting", left |-> Classified!Restrict(left, rest)]
           new == IF rest = {} THEN Classified!Idle ELSE more
<1>1. VisitorsTyped BY DEF VisitorsInv
<1>2. /\ job[w].pc = "inserting"
      /\ table' = table \cup {[visitor |-> v, type |-> left[v], day |-> today] : v \in chunk}
      /\ job' = [job EXCEPT ![w] = new]
      /\ best' = [v \in Visitors |-> IF v \notin chunk \/ best[v] = "Resident" THEN best[v]
                                     ELSE left[v]]
      /\ UNCHANGED <<stays, apart>>
  BY DEF Classified!InsertChunk, Waiting
<1>3. job[w] # Classified!Idle BY <1>2 DEF Classified!Idle
<1>4. /\ left \in [Waiting(w) -> Kept] /\ Waiting(w) \subseteq Visitors
      /\ chunk \subseteq Waiting(w)
  BY <1>1, <1>2, <1>3 DEF VisitorsTyped
<1>5. more.pc = "deleting" /\ more.left = Classified!Restrict(left, rest) OBVIOUS
<1>6. more # Classified!Idle BY <1>5 DEF Classified!Idle
<1>7. Classified!Restrict(left, rest) \in [rest -> Kept] /\ \A v \in rest :
        Classified!Restrict(left, rest)[v] = left[v]
  BY <1>4 DEF Classified!Restrict
<1> HIDE DEF more
<1>8. \A v \in Workers : job'[v] = IF v = w THEN new ELSE job[v]
  BY <1>1, <1>2 DEF VisitorsTyped
<1>9. /\ job'[w] # Classified!Idle => job'[w] = more /\ Waiting(w)' = rest
      /\ \A v \in Workers \ {w} : Waiting(v)' = Waiting(v)
  BY <1>5, <1>7, <1>8 DEF Waiting
<1>10. best' \in [Visitors -> Classified!Types] BY <1>1, <1>2, <1>4 DEF VisitorsTyped, Kept
<1>11. VisitorsTyped'
  <2>1. ASSUME NEW v \in Workers, job'[v] # Classified!Idle
        PROVE  /\ job'[v].pc \in {"deleting", "inserting"}
               /\ job'[v].left \in [Waiting(v)' -> Kept] /\ Waiting(v)' \subseteq Visitors
               /\ job'[v].pc = "inserting" => job'[v].chunk \subseteq Waiting(v)'
    <3>1. CASE v = w BY <3>1, <2>1, <1>4, <1>5, <1>7, <1>9
    <3>2. CASE v # w BY <3>2, <2>1, <1>1, <1>8, <1>9 DEF VisitorsTyped
    <3> QED BY <3>1, <3>2
  <2> QED BY <2>1, <1>1, <1>2, <1>10 DEF VisitorsTyped
<1>12. ASSUME apart' PROVE (OneRow /\ Alone /\ Raised)'
  <2>1. OneRow /\ Alone /\ Raised BY <1>1, <1>2, <1>12 DEF VisitorsInv, VisitorsTyped
  <2>2. \A v : Inserting(v) <=> v \in chunk
    BY <2>1, <1>2, <1>3 DEF Alone, Inserting, Classified!Idle
  <2>3. \A v \in Workers : job'[v].pc # "inserting"
    BY <2>1, <1>3, <1>5, <1>8 DEF Alone, Classified!Idle
  <2>4. \A v : ~Inserting(v)' BY <2>3 DEF Inserting
  <2>5. ASSUME NEW v \in Visitors
        PROVE  TypesIn(v)' = IF best'[v] = "ShortTermVisitor" THEN {} ELSE {best'[v]}
    <3>1. CASE v \in chunk
      <4>1. TypesIn(v) = {} BY <2>1, <2>2, <3>1 DEF OneRow
      <4>2. TypesIn(v)' = {left[v]}
        <5> DEFINE row(u) == [visitor |-> u, type |-> left[u], day |-> today]
        <5>1. \A r \in table : r.visitor # v BY <4>1 DEF TypesIn
        <5>2. \A u : row(u).visitor = u /\ row(u).type = left[u] OBVIOUS
        <5>3. table' = table \cup {row(u) : u \in chunk} BY <1>2
        <5> HIDE DEF row
        <5>4. ASSUME NEW r \in table', r.visitor = v PROVE r.type = left[v]
          BY <5>1, <5>2, <5>3, <5>4
        <5>5. row(v) \in table' /\ row(v).visitor = v /\ row(v).type = left[v]
          BY <5>2, <5>3, <3>1
        <5>6. TypesIn(v)' \subseteq {left[v]} BY <5>4 DEF TypesIn
        <5>7. left[v] \in TypesIn(v)' BY <5>5 DEF TypesIn
        <5> QED BY <5>6, <5>7
      <4>3. best'[v] = left[v]
        BY <2>1, <3>1, <1>2, <1>3, <1>4 DEF Raised
      <4>4. left[v] # "ShortTermVisitor" BY <3>1, <1>4 DEF Kept
      <4> QED BY <4>2, <4>3, <4>4
    <3>2. CASE v \notin chunk
      <4>1. TypesIn(v)' = TypesIn(v) BY <3>2, <1>2 DEF TypesIn
      <4>2. best'[v] = best[v] BY <3>2, <1>2
      <4> QED BY <4>1, <4>2, <3>2, <2>1, <2>2 DEF OneRow
    <3> QED BY <3>1, <3>2
  <2>6. OneRow' BY <2>4, <2>5 DEF OneRow
  <2>7. Alone' BY <2>1, <1>3, <1>8 DEF Alone
  <2>8. Raised'
    <3>1. \A v \in Workers : job'[v] # Classified!Idle => v = w BY <2>1, <1>3, <1>8 DEF Alone
    <3>2. ASSUME job'[w] # Classified!Idle, NEW v \in rest, best'[v] # "ShortTermVisitor"
          PROVE  more.left[v] = "Resident"
      <4>1. best'[v] = best[v] BY <3>2, <1>2, <1>4
      <4> QED BY <4>1, <3>2, <2>1, <1>3, <1>5, <1>7 DEF Raised
    <3> QED BY <3>1, <3>2, <1>9 DEF Raised
  <2> QED BY <2>6, <2>7, <2>8
<1> QED BY <1>11, <1>12 DEF VisitorsInv

\* Every step leaves the rows as the classifications that ended left them.
LEMMA VisitorsStep == VisitorsInv /\ [Classified!Next]_Classified!vars => VisitorsInv'
<1> SUFFICES ASSUME VisitorsInv, [Classified!Next]_Classified!vars PROVE VisitorsInv' OBVIOUS
<1>1. \A s \in stays : s.visitor \in Visitors
  BY DEF VisitorsInv, VisitorsTyped
<1>2. CASE UNCHANGED Classified!vars BY <1>1, <1>2, Untouched DEF Classified!vars
<1>3. ASSUME NEW v \in Visitors, NEW h \in Hours, Classified!Stay(v, h) PROVE VisitorsInv'
  <2>1. stays' = stays \cup {[visitor |-> v, day |-> today, hours |-> h]}
    BY <1>3 DEF Classified!Stay
  <2>2. \A s \in stays' : s.visitor \in Visitors BY <2>1, <1>1
  <2> QED BY <2>2, <1>3, Untouched DEF Classified!Stay
<1>4. CASE Classified!NextDay BY <1>1, <1>4, Untouched DEF Classified!NextDay
<1>5. ASSUME NEW w \in Workers, NEW from \in 0 .. MaxDay, NEW previous \in Classified!Previous,
             Classified!Classify(w, from, previous)
      PROVE  VisitorsInv'
  BY <1>5, ClassifyKeeps
<1>6. ASSUME NEW w \in Workers, NEW chunk \in SUBSET Visitors, Classified!DeleteChunk(w, chunk)
      PROVE  VisitorsInv'
  BY <1>6, DeleteChunkKeeps
<1>7. ASSUME NEW w \in Workers, Classified!InsertChunk(w)
      PROVE  VisitorsInv' BY <1>7, InsertChunkKeeps
<1>8. ASSUME NEW w \in Workers, Classified!Killed(w) PROVE VisitorsInv'
  BY <1>8 DEF Classified!Killed, VisitorsInv, VisitorsTyped, Waiting
<1>9. ASSUME NEW previous \in Classified!Previous, Classified!ReportClassified(previous)
      PROVE  VisitorsInv'
  BY <1>1, <1>9, Untouched DEF Classified!ReportClassified
<1>10. CASE Classified!ReportCreated \/ Classified!ReportUpdated
  BY <1>1, <1>10, Untouched DEF Classified!ReportCreated, Classified!ReportUpdated
<1> QED BY <1>2, <1>3, <1>4, <1>5, <1>6, <1>7, <1>8, <1>9, <1>10 DEF Classified!Next

\* __store_visitors deletes and inserts each chunk in two transactions: when no
\* classification is under way, and none overlapped or was killed, everyone who was ever
\* stored is stored, and with the highest type so far only; for any visitors, hours, windows,
\* thresholds and chunks.
THEOREM VisitorsKept == Classified!Spec => []Classified!ClassificationKept
<1>1. ASSUME VisitorsInv PROVE Classified!ClassificationKept
  <2>1. ASSUME apart, \A w \in Workers : job[w] = Classified!Idle, NEW v \in Visitors,
               best[v] # "ShortTermVisitor"
        PROVE  TypesIn(v) = {best[v]}
    <3>1. ~Inserting(v) BY <2>1 DEF Inserting, Classified!Idle
    <3> QED BY <3>1, <2>1, <1>1 DEF VisitorsInv, OneRow
  <2> QED BY <2>1 DEF Classified!ClassificationKept, TypesIn
<1> QED BY <1>1, VisitorsStart, VisitorsStep, PTL DEF Classified!Spec

-----------------------------------------------------------------------------
(* The learning of the anomaly models.  The advisory lock is not needed:   *)
(* the argument is about the watermarks inside the bundle alone, so it     *)
(* also covers runs that took the lock together.                           *)
CONSTANTS Runs, Files, Points, Regime, MaxErrors
VARIABLES pending, processed, lock, sidecars, model, run, kills, errors
Anomalies == INSTANCE AnomalyModel

-----------------------------------------------------------------------------
(* The inductive invariant.                                                   *)

Learning == {"learn", "metrics", "model"}
Working == Learning \cup {"lock", "take", "load", "release", "archive", "delete"}

(* What a run has read: a file that was there, its measures and the model it  *)
(* works on.                                                                  *)
RunType == [pc : {"idle", "sweep"} \cup Working, keys : SUBSET Files,
            key : Files \cup {None}, measures : SUBSET UNION {Measures[f] : f \in Files},
            state : Anomalies!ModelType \cup {None}, todo :
              SUBSET Anomalies!AllPoints, dirty : BOOLEAN, scored : BOOLEAN]

RunsOK == /\ run \in [Runs -> RunType]
          /\ \A r \in Runs : run[r].pc \in Working =>
               /\ run[r].key \in Files
               /\ run[r].measures \in {Measures[f] : f \in Files}
               /\ run[r].pc \in Learning => run[r].state \in Anomalies!ModelType

(* Why a point is not learned again: the watermark of its entity has passed   *)
(* it. This holds of a bundle by itself, so any run may load and save it.     *)
Passed(m) == \A p \in Anomalies!AllPoints : /\ m.learned[p] <= 1
                                            /\ m.learned[p] > 0 => p[2] <= m.watermark[p[1]]

ModelsPassed == /\ model # None => Passed(model)
                /\ \A r \in Runs : run[r].pc \in Learning => Passed(run[r].state)

Watermarked == Anomalies!TypeOK /\ RunsOK /\ ModelsPassed

-----------------------------------------------------------------------------
(* The model a run works on.                                                  *)

(* A point is an entity of the model and a time.                              *)
LEMMA PointsHaveTimes ==
  ASSUME Anomalies!Parameters, NEW p \in Anomalies!AllPoints
  PROVE  p[1] \in Anomalies!Entities /\ p[2] \in Nat
BY DEF Anomalies!Parameters, Anomalies!AllPoints, Anomalies!Entities

(* A new model has learned nothing.                                           *)
LEMMA NewModelPassed ==
  ASSUME Anomalies!Parameters, NEW m \in {Measures[f] : f \in Files}
  PROVE  Anomalies!NewModel(m) \in Anomalies!ModelType /\ Passed(Anomalies!NewModel(m))
BY DEF Anomalies!Parameters, Anomalies!NewModel, Anomalies!ModelType, Passed

(* Evaluating a point keeps the watermark ahead of what was learned: a point  *)
(* that is new to its entity was not learned before.                          *)
LEMMA EvaluatePasses ==
  ASSUME Anomalies!Parameters, NEW m \in Anomalies!ModelType, Passed(m),
         NEW p \in Anomalies!AllPoints, NEW outlier \in BOOLEAN
  PROVE  Anomalies!Evaluate(m, p, outlier) \in Anomalies!ModelType
      /\ Passed(Anomalies!Evaluate(m, p, outlier))
<1> DEFINE s == IF outlier THEN m.streak[p[1]] + 1 ELSE 0
           kept == IF s > Regime THEN Regime ELSE s
           n == IF ~outlier \/ s >= Regime THEN m.learned[p] + 1 ELSE m.learned[p]
           new == [m EXCEPT !.streak[p[1]] = kept, !.watermark[p[1]] = p[2], !.learned[p] = n]
<1>1. p[1] \in Anomalies!Entities /\ p[2] \in Nat BY PointsHaveTimes
<1>2. CASE ~Anomalies!ToLearn(m, p) BY <1>2 DEF Anomalies!Evaluate
<1>3. CASE Anomalies!ToLearn(m, p)
  <2>1. Anomalies!Evaluate(m, p, outlier) = new BY <1>3 DEF Anomalies!Evaluate
  <2>2. m.learned \in [Anomalies!AllPoints -> Nat] /\ m.watermark \in [Anomalies!Entities -> Int]
        /\ m.streak \in [Anomalies!Entities -> 0..Regime] BY DEF Anomalies!ModelType
  <2>3. kept \in 0..Regime BY <2>2, <1>1 DEF Anomalies!Parameters
  <2>4. n \in Nat /\ n <= m.learned[p] + 1 BY <2>2
  <2>5. m.learned[p] = 0 BY <1>1, <1>3, <2>2 DEF Anomalies!ToLearn, Anomalies!IsNew, Passed
  <2> HIDE DEF s, kept, n
  <2>6. new = [measures |-> m.measures, learned |-> [m.learned EXCEPT ![p] = n],
               watermark |-> [m.watermark EXCEPT ![p[1]] = p[2]],
               streak |-> [m.streak EXCEPT ![p[1]] = kept]]
    <3> DEFINE begun == [m EXCEPT !.streak[p[1]] = kept]
               second == [begun EXCEPT !.watermark[p[1]] = p[2]]
    <3>1. new = [second EXCEPT !.learned[p] = n] OBVIOUS
    <3>2. begun = [measures |-> m.measures, learned |-> m.learned, watermark |-> m.watermark,
                   streak |-> [m.streak EXCEPT ![p[1]] = kept]] BY DEF Anomalies!ModelType
    <3> HIDE DEF begun
    <3>3. second = [measures |-> m.measures, learned |-> m.learned,
                    watermark |-> [m.watermark EXCEPT ![p[1]] = p[2]],
                    streak |-> [m.streak EXCEPT ![p[1]] = kept]] BY <3>2
    <3> HIDE DEF second
    <3> QED BY <3>1, <3>3
  <2> HIDE DEF new
  <2>7. new \in Anomalies!ModelType
    <3>1. /\ [m.learned EXCEPT ![p] = n] \in [Anomalies!AllPoints -> Nat]
          /\ [m.watermark EXCEPT ![p[1]] = p[2]] \in [Anomalies!Entities -> Int]
          /\ [m.streak EXCEPT ![p[1]] = kept] \in [Anomalies!Entities -> 0..Regime]
      BY <1>1, <2>2, <2>3, <2>4
    <3> QED BY <2>6, <3>1 DEF Anomalies!ModelType
  <2>8. ASSUME NEW q \in Anomalies!AllPoints
        PROVE  new.learned[q] <= 1 /\ (new.learned[q] > 0 => q[2] <= new.watermark[q[1]])
    <3>1. q[1] \in Anomalies!Entities /\ q[2] \in Nat BY PointsHaveTimes
    <3>2. new.watermark[q[1]] >= m.watermark[q[1]]
      BY <1>1, <1>3, <2>2, <2>6, <3>1 DEF Anomalies!ToLearn, Anomalies!IsNew
    <3>3. CASE q = p BY <3>3, <1>1, <2>2, <2>4, <2>5, <2>6
    <3>4. CASE q # p
      <4>1. new.learned[q] = m.learned[q] BY <3>4, <2>2, <2>6
      <4>2. m.learned[q] > 0 => q[2] <= m.watermark[q[1]] BY DEF Passed
      <4>3. m.watermark[q[1]] \in Int /\ new.watermark[q[1]] \in Int BY <3>1, <1>1, <2>2, <2>6
      <4> QED BY <3>1, <3>2, <4>1, <4>2, <4>3 DEF Passed
    <3> QED BY <3>3, <3>4
  <2> QED BY <2>1, <2>7, <2>8 DEF Passed
<1> QED BY <1>2, <1>3
-----------------------------------------------------------------------------
(* Steps.                                                                     *)

LEMMA InitWatermarked == ASSUME Anomalies!Parameters PROVE Anomalies!Init => Watermarked
<1> SUFFICES ASSUME Anomalies!Init PROVE Watermarked OBVIOUS
<1>1. Anomalies!TypeOK BY DEF Anomalies!Parameters, Anomalies!Init, Anomalies!TypeOK
<1>2. RunsOK BY DEF Anomalies!Init, RunsOK, RunType, Anomalies!Idle, Working, Learning
<1>3. ModelsPassed BY DEF Anomalies!Init, ModelsPassed, Anomalies!Idle, Learning
<1> QED BY <1>1, <1>2, <1>3 DEF Watermarked

(* A step of one run that touches no model: the run goes on to a state whose  *)
(* file and measures it had read, and does not begin to learn.                *)
LEMMA QuietStep ==
  ASSUME Watermarked, Anomalies!TypeOK', UNCHANGED model,
         NEW r \in Runs, NEW new \in RunType, run' = [run EXCEPT ![r] = new],
         new.pc \notin Learning,
         new.pc \in Working => /\ new.key \in Files
                               /\ new.measures \in {Measures[f] : f \in Files}
  PROVE  Watermarked'
<1>1. RunsOK' BY DEF Watermarked, RunsOK
<1>2. ModelsPassed' BY DEF Watermarked, RunsOK, ModelsPassed, Passed
<1> QED BY <1>1, <1>2 DEF Watermarked

(* A run that goes from one step of its work to another that learns nothing.  *)
LEMMA GoneOn ==
  ASSUME Watermarked, Anomalies!TypeOK', UNCHANGED model, NEW r \in Runs, run[r].pc \in Working,
         NEW pc \in Working \ Learning, Anomalies!Goto(r, pc)
  PROVE  Watermarked'
<1> DEFINE new == [run[r] EXCEPT !.pc = pc]
<1>1. run[r] \in RunType /\ run' = [run EXCEPT ![r] = new]
  BY DEF Watermarked, RunsOK, Anomalies!Goto
<1>2. /\ new \in RunType /\ new.pc = pc
      /\ new.key = run[r].key /\ new.measures = run[r].measures
  BY <1>1 DEF RunType
<1> HIDE DEF new
<1> QED BY <1>1, <1>2, QuietStep DEF Watermarked, RunsOK

(* A call that fails stays within their bound.                                *)
LEMMA FailsCounted ==
  ASSUME Anomalies!Parameters, Anomalies!TypeOK, Anomalies!Fail \/ UNCHANGED errors
  PROVE  errors' \in 0..MaxErrors
BY DEF Anomalies!Parameters, Anomalies!TypeOK, Anomalies!Fail

LEMMA SweepKeeps ==
  ASSUME Anomalies!Parameters, Watermarked, NEW r \in Runs, Anomalies!Sweep(r)
  PROVE  Watermarked'
<1> DEFINE new == [Anomalies!Idle EXCEPT !.pc = "sweep", !.keys = pending]
<1>1. Anomalies!TypeOK' BY DEF Watermarked, Anomalies!TypeOK, Anomalies!Sweep
<1>2. new \in RunType /\ new.pc = "sweep"
  BY DEF Watermarked, Anomalies!TypeOK, RunType, Anomalies!Idle, Working
<1>3. UNCHANGED model /\ run' = [run EXCEPT ![r] = new] BY DEF Anomalies!Sweep
<1> HIDE DEF new
<1> QED BY <1>1, <1>2, <1>3, QuietStep DEF Working, Learning

(* The run goes on with the rest of its files.                                *)
LEMMA WithoutRests ==
  ASSUME Watermarked, NEW r \in Runs, NEW f
  PROVE  Anomalies!Without(r, f) \in RunType /\ Anomalies!Without(r, f).pc \in {"idle", "sweep"}
BY DEF Watermarked, RunsOK, RunType, Anomalies!Without, Anomalies!Idle, Working

LEMMA SkipKeeps ==
  ASSUME Anomalies!Parameters, Watermarked, NEW r \in Runs, Anomalies!Skip(r)
  PROVE  Watermarked'
<1> DEFINE f == Anomalies!Min(run[r].keys)
<1>1. Anomalies!Fail \/ UNCHANGED errors BY DEF Anomalies!Skip
<1>2. Anomalies!TypeOK'
  BY <1>1, FailsCounted DEF Watermarked, Anomalies!TypeOK, Anomalies!Skip
<1>3. UNCHANGED model /\ run' = [run EXCEPT ![r] = Anomalies!Without(r, f)]
  BY DEF Anomalies!Skip
<1> HIDE DEF f
<1> QED BY <1>2, <1>3, WithoutRests, QuietStep DEF Working, Learning

(* The measures a run reads are those of some file: its own, or the one whose *)
(* measures the metrics of the bundle name.                                   *)
LEMMA ReadKeeps ==
  ASSUME Anomalies!Parameters, Watermarked, NEW r \in Runs, Anomalies!Read(r)
  PROVE  Watermarked'
<1> DEFINE f == Anomalies!Min(run[r].keys)
<1>1. Anomalies!Fail \/ UNCHANGED errors BY DEF Anomalies!Read
<1>2. Anomalies!TypeOK'
  BY <1>1, FailsCounted DEF Watermarked, Anomalies!TypeOK, Anomalies!Read
<1>3. run[r] \in RunType /\ UNCHANGED model /\ f \in Files
  BY DEF Watermarked, RunsOK, Anomalies!TypeOK, Anomalies!Read
<1>4. PICK m \in {Measures[g] : g \in Files} : Anomalies!Measure(r, f, m)
  <2>1. CASE sidecars.metrics = None BY <2>1, <1>3 DEF Anomalies!Read
  <2>2. CASE sidecars.metrics # None
    <3>1. sidecars.metrics \in {Measures[g] : g \in Files}
      BY <2>2 DEF Watermarked, Anomalies!TypeOK
    <3> QED BY <2>2, <3>1, <1>3 DEF Anomalies!Read
  <2> QED BY <2>1, <2>2
<1> DEFINE taken == [run[r] EXCEPT !.key = f, !.measures = m,
                       !.pc = IF m \subseteq Measures[f] THEN "lock" ELSE "archive"]
<1>5. run' = [run EXCEPT ![r] = taken]
  BY <1>3, <1>4 DEF Anomalies!Measure, Watermarked, RunsOK, RunType
<1> HIDE DEF f
<1>6. /\ taken \in RunType /\ taken.pc \in {"lock", "archive"}
      /\ taken.key = f /\ taken.measures = m
  BY <1>3, <1>4 DEF RunType, Working
<1> HIDE DEF taken
<1> QED BY <1>2, <1>3, <1>4, <1>5, <1>6, QuietStep DEF Learning

(* The lock decides who may go on, not what the model is.                     *)
LEMMA LookAtLockKeeps ==
  ASSUME Anomalies!Parameters, Watermarked, NEW r \in Runs, Anomalies!LookAtLock(r)
  PROVE  Watermarked'
<1>1. Anomalies!Fail \/ UNCHANGED errors BY DEF Anomalies!LookAtLock
<1>2. Anomalies!TypeOK'
  BY <1>1, FailsCounted DEF Watermarked, Anomalies!TypeOK, Anomalies!LookAtLock
<1>3. run[r].pc \in Working /\ UNCHANGED model BY DEF Working, Anomalies!LookAtLock
<1>4. Anomalies!Goto(r, "archive") \/ Anomalies!Goto(r, "take") BY DEF Anomalies!LookAtLock
<1>5. {"archive", "take"} \subseteq Working \ Learning BY DEF Working, Learning
<1> QED BY <1>2, <1>3, <1>4, <1>5, GoneOn

LEMMA TakeLockKeeps ==
  ASSUME Anomalies!Parameters, Watermarked, NEW r \in Runs, Anomalies!TakeLock(r)
  PROVE  Watermarked'
<1>1. Anomalies!Fail \/ UNCHANGED errors BY DEF Anomalies!TakeLock
<1>2. Anomalies!TypeOK'
  <2>1. lock' \in [holder : Runs \cup {None}, stale : BOOLEAN]
    <3>1. [holder |-> r, stale |-> FALSE] \in [holder : Runs \cup {None}, stale : BOOLEAN]
      OBVIOUS
    <3>2. lock' = [holder |-> r, stale |-> FALSE] \/ lock' = lock BY DEF Anomalies!TakeLock
    <3> QED BY <3>1, <3>2 DEF Watermarked, Anomalies!TypeOK
  <2> QED BY <1>1, <2>1, FailsCounted DEF Watermarked, Anomalies!TypeOK, Anomalies!TakeLock
<1>3. run[r].pc \in Working /\ UNCHANGED model BY DEF Working, Anomalies!TakeLock
<1>4. Anomalies!Goto(r, "archive") \/ Anomalies!Goto(r, "load") BY DEF Anomalies!TakeLock
<1>5. {"archive", "load"} \subseteq Working \ Learning BY DEF Working, Learning
<1> QED BY <1>2, <1>3, <1>4, <1>5, GoneOn

(* A step of one run that keeps a model which has passed its points.          *)
LEMMA LearningStep ==
  ASSUME Watermarked, Anomalies!TypeOK', UNCHANGED model, NEW r \in Runs, NEW new \in RunType,
         run' = [run EXCEPT ![r] = new], new.pc \in Learning, new.key \in Files,
         new.measures \in {Measures[f] : f \in Files},
         new.state \in Anomalies!ModelType, Passed(new.state)
  PROVE  Watermarked'
<1>1. RunsOK' BY DEF Watermarked, RunsOK
<1>2. ModelsPassed' BY DEF Watermarked, RunsOK, ModelsPassed, Passed
<1> QED BY <1>1, <1>2 DEF Watermarked

(* load_state: the stored model, whoever saved it, or a new one.              *)
LEMMA LoadKeeps ==
  ASSUME Anomalies!Parameters, Watermarked, NEW r \in Runs, Anomalies!Load(r)
  PROVE  Watermarked'
<1>1. Anomalies!Fail \/ UNCHANGED errors BY DEF Anomalies!Load
<1>2. Anomalies!TypeOK'
  BY <1>1, FailsCounted DEF Watermarked, Anomalies!TypeOK, Anomalies!Load
<1>3. /\ run[r] \in RunType /\ run[r].key \in Files /\ UNCHANGED model
      /\ run[r].measures \in {Measures[f] : f \in Files}
  BY DEF Watermarked, RunsOK, Working, Anomalies!Load
<1>4. PICK state : /\ state \in Anomalies!ModelType /\ Passed(state)
                   /\ Anomalies!Begin(r, state)
  <2> DEFINE fresh == Anomalies!NewModel(run[r].measures)
  <2>1. fresh \in Anomalies!ModelType /\ Passed(fresh) BY <1>3, NewModelPassed
  <2>2. model # None => model \in Anomalies!ModelType /\ Passed(model)
    BY DEF Watermarked, Anomalies!TypeOK, ModelsPassed
  <2>3. Anomalies!Begin(r, fresh) \/ (model # None /\ Anomalies!Begin(r, model))
    BY DEF Anomalies!Load, Anomalies!Complete
  <2> HIDE DEF fresh
  <2> QED BY <2>1, <2>2, <2>3
<1> DEFINE new == [run[r] EXCEPT !.pc = "learn", !.todo = Points[run[r].key], !.state = state]
<1>5. run' = [run EXCEPT ![r] = new]
  BY <1>3, <1>4 DEF Anomalies!Begin, Watermarked, RunsOK, RunType
<1>6. Points[run[r].key] \subseteq Anomalies!AllPoints BY <1>3 DEF Anomalies!AllPoints
<1>7. /\ new \in RunType /\ new.pc \in Learning /\ new.state = state
      /\ new.key = run[r].key /\ new.measures = run[r].measures
  BY <1>3, <1>4, <1>6 DEF RunType, Working, Learning
<1> HIDE DEF new
<1> QED BY <1>2, <1>3, <1>4, <1>5, <1>7, LearningStep

LEMMA LearnKeeps ==
  ASSUME Anomalies!Parameters, Watermarked, NEW r \in Runs, Anomalies!Learn(r)
  PROVE  Watermarked'
<1>1. Anomalies!TypeOK' BY DEF Watermarked, Anomalies!TypeOK, Anomalies!Learn
<1>2. /\ run[r] \in RunType /\ run[r].key \in Files /\ run[r].pc = "learn" /\ UNCHANGED model
      /\ run[r].measures \in {Measures[f] : f \in Files}
      /\ run[r].state \in Anomalies!ModelType /\ Passed(run[r].state)
  BY DEF Watermarked, RunsOK, ModelsPassed, Working, Learning, Anomalies!Learn
<1>3. PICK p \in run[r].todo, outlier \in BOOLEAN :
        run' = [run EXCEPT ![r].todo = @ \ {p}, ![r].state = Anomalies!Evaluate(@, p, outlier),
                           ![r].dirty = @ \/ Anomalies!ToLearn(run[r].state, p)]
  BY DEF Anomalies!Learn
<1> DEFINE state == Anomalies!Evaluate(run[r].state, p, outlier)
           dirty == run[r].dirty \/ Anomalies!ToLearn(run[r].state, p)
           new == [run[r] EXCEPT !.todo = @ \ {p}, !.state = state, !.dirty = dirty]
<1>4. p \in Anomalies!AllPoints BY <1>2 DEF RunType
<1>5. state \in Anomalies!ModelType /\ Passed(state) BY <1>2, <1>4, EvaluatePasses
<1>6. run' = [run EXCEPT ![r] = new] BY <1>2, <1>3 DEF Watermarked, RunsOK, RunType
<1>7. dirty \in BOOLEAN OBVIOUS
<1> HIDE DEF state, dirty
<1>8. /\ new \in RunType /\ new.pc \in Learning /\ new.state = state
      /\ new.key = run[r].key /\ new.measures = run[r].measures
  BY <1>2, <1>5, <1>7 DEF RunType, Learning
<1> HIDE DEF new
<1> QED BY <1>1, <1>2, <1>5, <1>6, <1>8, LearningStep

LEMMA MisfitKeeps ==
  ASSUME Anomalies!Parameters, Watermarked, NEW r \in Runs, Anomalies!Misfit(r)
  PROVE  Watermarked'
<1>1. Anomalies!TypeOK' BY DEF Watermarked, Anomalies!TypeOK, Anomalies!Misfit
<1>2. run[r].pc \in Working /\ UNCHANGED model BY DEF Working, Learning, Anomalies!Misfit
<1>3. Anomalies!Goto(r, "release") /\ "release" \in Working \ Learning
  BY DEF Working, Learning, Anomalies!Misfit
<1> QED BY <1>1, <1>2, <1>3, GoneOn

(* A run whose verdicts count gives its model up.                             *)
LEMMA NothingNewKeeps ==
  ASSUME Anomalies!Parameters, Watermarked, NEW r \in Runs, Anomalies!NothingNew(r)
  PROVE  Watermarked'
<1> DEFINE new == [run[r] EXCEPT !.pc = "release", !.scored = TRUE]
<1>1. Anomalies!TypeOK' BY DEF Watermarked, Anomalies!TypeOK, Anomalies!NothingNew
<1>2. /\ run[r] \in RunType /\ run[r].pc \in Working /\ UNCHANGED model
  BY DEF Watermarked, RunsOK, Working, Learning, Anomalies!NothingNew, Anomalies!Learned
<1>3. run' = [run EXCEPT ![r] = new]
  BY <1>2 DEF Anomalies!NothingNew, Watermarked, RunsOK, RunType
<1>4. /\ new \in RunType /\ new.pc = "release"
      /\ new.key = run[r].key /\ new.measures = run[r].measures
  BY <1>2 DEF RunType, Working
<1> HIDE DEF new
<1> QED BY <1>1, <1>2, <1>3, <1>4, QuietStep DEF Watermarked, RunsOK, Learning

(* The sidecars name the measures of a file; the run keeps its model for the  *)
(* last of the three.                                                         *)
LEMMA SaveSidecarKeeps ==
  ASSUME Anomalies!Parameters, Watermarked, NEW r \in Runs, run[r].pc \in Learning,
         NEW name \in {"columns", "metrics"}, NEW next \in Learning,
         Anomalies!SaveSidecar(r, name, next)
  PROVE  Watermarked'
<1>1. /\ run[r] \in RunType /\ run[r].key \in Files /\ UNCHANGED model
      /\ run[r].measures \in {Measures[f] : f \in Files}
      /\ run[r].state \in Anomalies!ModelType /\ Passed(run[r].state)
  BY DEF Watermarked, RunsOK, ModelsPassed, Working, Anomalies!SaveSidecar
<1>2. Anomalies!Fail \/ UNCHANGED errors BY DEF Anomalies!SaveSidecar
<1>3. Anomalies!TypeOK'
  <2>1. \/ sidecars' = [sidecars EXCEPT ![name] = run[r].measures]
        \/ sidecars' = sidecars
    BY DEF Anomalies!SaveSidecar
  <2>2. sidecars' \in [{"columns", "metrics"} -> {None} \cup {Measures[f] : f \in Files}]
    BY <1>1, <2>1 DEF Watermarked, Anomalies!TypeOK
  <2> QED
    BY <1>2, <2>2, FailsCounted DEF Watermarked, Anomalies!TypeOK, Anomalies!SaveSidecar
<1>4. CASE Anomalies!Goto(r, next)
  <2> DEFINE new == [run[r] EXCEPT !.pc = next]
  <2>1. run' = [run EXCEPT ![r] = new] BY <1>4 DEF Anomalies!Goto
  <2>2. /\ new \in RunType /\ new.pc \in Learning /\ new.state = run[r].state
        /\ new.key = run[r].key /\ new.measures = run[r].measures
    BY <1>1 DEF RunType, Working
  <2> HIDE DEF new
  <2> QED BY <1>1, <1>3, <2>1, <2>2, LearningStep
<1>5. CASE Anomalies!Goto(r, "release")
  <2>1. run[r].pc \in Working /\ "release" \in Working \ Learning BY DEF Working, Learning
  <2> QED BY <1>1, <1>3, <1>5, <2>1, GoneOn
<1> QED BY <1>4, <1>5 DEF Anomalies!SaveSidecar

LEMMA SaveColumnsKeeps ==
  ASSUME Anomalies!Parameters, Watermarked, NEW r \in Runs, Anomalies!SaveColumns(r)
  PROVE  Watermarked'
BY SaveSidecarKeeps DEF Anomalies!SaveColumns, Anomalies!Learned, Learning

LEMMA SaveMetricsKeeps ==
  ASSUME Anomalies!Parameters, Watermarked, NEW r \in Runs, Anomalies!SaveMetrics(r)
  PROVE  Watermarked'
BY SaveSidecarKeeps DEF Anomalies!SaveMetrics, Learning

(* What is saved has passed its points, so the bundle has.                    *)
LEMMA SaveModelKeeps ==
  ASSUME Anomalies!Parameters, Watermarked, NEW r \in Runs, Anomalies!SaveModel(r)
  PROVE  Watermarked'
<1>1. /\ run[r] \in RunType /\ run[r].key \in Files /\ run[r].pc \in Working
      /\ run[r].measures \in {Measures[f] : f \in Files}
      /\ run[r].state \in Anomalies!ModelType /\ Passed(run[r].state)
  BY DEF Watermarked, RunsOK, ModelsPassed, Working, Learning, Anomalies!SaveModel
<1>2. Anomalies!Fail \/ UNCHANGED errors BY DEF Anomalies!SaveModel
<1>3. Anomalies!TypeOK'
  BY <1>1, <1>2, FailsCounted DEF Watermarked, Anomalies!TypeOK, Anomalies!SaveModel
<1>4. CASE model' = run[r].state /\ run' = [run EXCEPT ![r].pc = "release", ![r].scored = TRUE]
  <2> DEFINE new == [run[r] EXCEPT !.pc = "release", !.scored = TRUE]
  <2>1. run' = [run EXCEPT ![r] = new] BY <1>1, <1>4 DEF Watermarked, RunsOK, RunType
  <2>2. /\ new \in RunType /\ new.pc = "release"
        /\ new.key = run[r].key /\ new.measures = run[r].measures
    BY <1>1 DEF RunType, Working
  <2> HIDE DEF new
  <2>3. RunsOK' BY <1>1, <2>1, <2>2 DEF Watermarked, RunsOK, Learning
  <2>4. ModelsPassed'
    BY <1>1, <1>4, <2>1, <2>2 DEF Watermarked, RunsOK, ModelsPassed, Passed, Learning
  <2> QED BY <1>3, <2>3, <2>4 DEF Watermarked
<1>5. CASE UNCHANGED model /\ Anomalies!Goto(r, "release")
  <2>1. "release" \in Working \ Learning BY DEF Working, Learning
  <2> QED BY <1>1, <1>3, <1>5, <2>1, GoneOn
<1> QED BY <1>4, <1>5 DEF Anomalies!SaveModel

LEMMA ReleaseKeeps ==
  ASSUME Anomalies!Parameters, Watermarked, NEW r \in Runs, Anomalies!Release(r)
  PROVE  Watermarked'
<1>1. Anomalies!Fail \/ UNCHANGED errors BY DEF Anomalies!Release
<1>2. Anomalies!TypeOK'
  <2>1. lock' \in [holder : Runs \cup {None}, stale : BOOLEAN]
    <3>1. [holder |-> None, stale |-> FALSE] \in [holder : Runs \cup {None}, stale : BOOLEAN]
      OBVIOUS
    <3>2. lock' = [holder |-> None, stale |-> FALSE] \/ lock' = lock BY DEF Anomalies!Release
    <3> QED BY <3>1, <3>2 DEF Watermarked, Anomalies!TypeOK
  <2> QED BY <1>1, <2>1, FailsCounted DEF Watermarked, Anomalies!TypeOK, Anomalies!Release
<1>3. run[r].pc \in Working /\ UNCHANGED model BY DEF Working, Anomalies!Release
<1>4. Anomalies!Goto(r, "archive") /\ "archive" \in Working \ Learning
  BY DEF Working, Learning, Anomalies!Release
<1> QED BY <1>2, <1>3, <1>4, GoneOn

LEMMA ArchiveKeeps ==
  ASSUME Anomalies!Parameters, Watermarked, NEW r \in Runs, Anomalies!Archive(r)
  PROVE  Watermarked'
<1>1. Anomalies!Fail \/ UNCHANGED errors BY DEF Anomalies!Archive
<1>2. run[r].pc \in Working /\ UNCHANGED model BY DEF Working, Anomalies!Archive
<1>3. Anomalies!TypeOK'
  <2>1. run[r].key \in Files BY <1>2 DEF Watermarked, RunsOK
  <2>2. processed' \in [Files -> {None, "scored", "unscored"}]
    BY <2>1 DEF Watermarked, Anomalies!TypeOK, Anomalies!Archive
  <2> QED BY <1>1, <2>2, FailsCounted DEF Watermarked, Anomalies!TypeOK, Anomalies!Archive
<1>4. CASE Anomalies!Goto(r, "delete")
  <2>1. "delete" \in Working \ Learning BY DEF Working, Learning
  <2> QED BY <1>2, <1>3, <1>4, <2>1, GoneOn
<1>5. CASE run' = [run EXCEPT ![r] = Anomalies!Following(r)]
  BY <1>2, <1>3, <1>5, WithoutRests, QuietStep DEF Working, Learning, Anomalies!Following
<1> QED BY <1>4, <1>5 DEF Anomalies!Archive

LEMMA DeleteOriginalKeeps ==
  ASSUME Anomalies!Parameters, Watermarked, NEW r \in Runs, Anomalies!DeleteOriginal(r)
  PROVE  Watermarked'
<1>1. Anomalies!Fail \/ UNCHANGED errors BY DEF Anomalies!DeleteOriginal
<1>2. Anomalies!TypeOK'
  <2>1. pending' \subseteq Files
    BY DEF Watermarked, Anomalies!TypeOK, Anomalies!DeleteOriginal
  <2> QED
    BY <1>1, <2>1, FailsCounted DEF Watermarked, Anomalies!TypeOK, Anomalies!DeleteOriginal
<1>3. UNCHANGED model /\ run' = [run EXCEPT ![r] = Anomalies!Following(r)]
  BY DEF Anomalies!DeleteOriginal
<1> QED BY <1>2, <1>3, WithoutRests, QuietStep DEF Working, Learning, Anomalies!Following

(* A killed run takes what it had learned with it.                            *)
LEMMA KillKeeps ==
  ASSUME Anomalies!Parameters, Watermarked, NEW r \in Runs, Anomalies!Kill(r)
  PROVE  Watermarked'
<1>1. Anomalies!TypeOK'
  BY DEF Anomalies!Parameters, Watermarked, Anomalies!TypeOK, Anomalies!Kill
<1>2. UNCHANGED model /\ run' = [run EXCEPT ![r] = Anomalies!Idle] BY DEF Anomalies!Kill
<1>3. Anomalies!Idle \in RunType /\ Anomalies!Idle.pc = "idle"
  BY DEF RunType, Anomalies!Idle, Working
<1> QED BY <1>1, <1>2, <1>3, QuietStep DEF Working, Learning

(* Every step keeps the models behind their watermarks.                       *)
LEMMA NextWatermarked ==
  ASSUME Anomalies!Parameters
  PROVE  Watermarked /\ [Anomalies!Next]_Anomalies!vars => Watermarked'
<1> SUFFICES ASSUME Watermarked, [Anomalies!Next]_Anomalies!vars PROVE Watermarked' OBVIOUS
<1>1. CASE UNCHANGED Anomalies!vars
  BY <1>1 DEF Anomalies!vars, Watermarked, Anomalies!TypeOK, RunsOK, ModelsPassed, Passed
<1>2. CASE Anomalies!Expire
  <2>1. Anomalies!TypeOK' BY <1>2 DEF Watermarked, Anomalies!TypeOK, Anomalies!Expire
  <2>2. UNCHANGED <<model, run>> BY <1>2 DEF Anomalies!Expire
  <2> QED BY <2>1, <2>2 DEF Watermarked, RunsOK, ModelsPassed, Passed
<1>3. ASSUME NEW r \in Runs, Anomalies!Step(r) PROVE Watermarked'
  BY <1>3, SweepKeeps, SkipKeeps, ReadKeeps, LookAtLockKeeps, TakeLockKeeps, LoadKeeps,
     LearnKeeps, MisfitKeeps, NothingNewKeeps, SaveColumnsKeeps, SaveMetricsKeeps,
     SaveModelKeeps, ReleaseKeeps, ArchiveKeeps, DeleteOriginalKeeps DEF Anomalies!Step
<1>4. ASSUME NEW r \in Runs, Anomalies!Kill(r) PROVE Watermarked' BY <1>4, KillKeeps
<1> QED BY <1>1, <1>2, <1>3, <1>4 DEF Anomalies!Next

(* At every step the bundle, and the model of every run, has passed each      *)
(* point it learned.                                                          *)
THEOREM WatermarksKept == ASSUME Anomalies!Parameters PROVE Anomalies!Spec => []Watermarked
BY InitWatermarked, NextWatermarked, PTL DEF Anomalies!Spec

(* core.evaluate_batch: the stored model learned no point twice, for any      *)
(* number of runs, files and points, whichever runs overlap in spite of the   *)
(* lock, are killed or meet errors of the storage.                            *)
THEOREM PointsLearnedOnce ==
  ASSUME Anomalies!Parameters
  PROVE  Anomalies!Spec => []Anomalies!LearnedOnce
<1>1. Watermarked => Anomalies!LearnedOnce
  BY DEF Watermarked, ModelsPassed, Passed, Anomalies!LearnedOnce
<1> QED BY <1>1, WatermarksKept, PTL

-----------------------------------------------------------------------------
(* The importation of files.                                               *)
CONSTANTS Imports, Nobody, Contents, Faults
VARIABLES stored, status, steps, entities, broker, realtime, fate
Importing == INSTANCE DataImportation

\* A job before and after the file is parsed, and what it has done of its notifications.
Uploaded(i) == i \in Imports /\ file[i] \in Contents /\ file[i].format # "other"
Tried(i, n) == \E e \in fate : e[1] = <<i, n>>
Stored(i, mine) == {i} \X mine \subseteq series \cap realtime
Treated(i, m) == m.rows # {} /\ m.owned =>
  Stored(i, m.rows) \/ <<<<i, m.first>>, "failed">> \in fate
Early(j) ==
  /\ j.pc \in {"created", "download", "parse", "failed"}
  /\ j = [pc |-> j.pc, imp |-> j.imp, broken |-> j.broken]
  /\ Uploaded(j.imp)
Late(j) ==
  /\ j.pc \in {"next", "insert", "publish", "series", "realtime", "finish"}
  /\ j = [pc |-> j.pc, imp |-> j.imp, broken |-> j.broken, todo |-> j.todo]
  /\ Uploaded(j.imp) /\ j.broken \in BOOLEAN
  /\ j.todo \subseteq Importing!Parsed(file[j.imp])
  /\ \A m \in Importing!Parsed(file[j.imp]) \ j.todo :
       Tried(j.imp, m.first) /\ (~j.broken => Treated(j.imp, m))
  /\ j.pc \in {"insert", "publish", "series", "realtime"} => j.todo # {}
  /\ j.pc = "finish" => j.todo = {}
Halfway(w) ==
  job[w].pc = "realtime" => {job[w].imp} \X Importing!One(w).rows \subseteq series
Completed(i) ==
  Uploaded(i) /\ \A m \in Importing!Parsed(file[i]) : Treated(i, m)

ImportInv ==
  /\ job = [w \in Workers |-> job[w]]
  /\ status = [i \in Imports |-> status[i]] /\ file = [i \in Imports |-> file[i]]
  /\ \A i \in queue : i \in Imports /\ file[i] \in Contents
  /\ \A w \in Workers : (job[w] = Importing!Idle \/ Early(job[w]) \/ Late(job[w])) /\ Halfway(w)
  /\ \A i \in Imports : status[i] = "completed" => Completed(i)
  /\ Importing!KeptUntilTried

\* An uploaded file is not the absence of one.
LEMMA FilesAreSomething ==
  ASSUME Importing!ImportationAssumption, NEW f \in Contents PROVE f # <<>>
<1>1. f \in [format : Importing!Formats, owned : BOOLEAN, rows : Seq(Importing!Row)]
  BY DEF Importing!ImportationAssumption, Importing!IsFile
<1>2. DOMAIN f = {"format", "owned", "rows"} BY <1>1
<1>3. DOMAIN <<>> = {} OBVIOUS
<1> QED BY <1>2, <1>3

\* A set of numbers that is not empty has a least one.
LEMMA LeastNumber ==
  ASSUME NEW S \in SUBSET Nat, S # {}
  PROVE  Importing!Min(S) \in S /\ \A k \in S : Importing!Min(S) <= k
<1>1. PICK m \in S : \A k \in S : ~ (<<k, m>> \in OpToRel(<, Nat))
  BY NatLessThanWellFounded, WFMin
<1>2. ASSUME NEW k \in S PROVE m <= k
  <2>1. ~ (k < m) BY <1>1, Zenon DEF OpToRel
  <2> QED BY <2>1
<1> QED BY <1>2 DEF Importing!Min

\* The rows that a parser keeps are rows of the file.
LEMMA KeptRows ==
  ASSUME Importing!ImportationAssumption, NEW f \in Contents, f.format # "other"
  PROVE  /\ Importing!Kept(f) \subseteq DOMAIN f.rows /\ DOMAIN f.rows \subseteq Nat
         /\ f.format \in {"csv", "geojson", "kml", "jsonld"}
<1>1. f \in [format : Importing!Formats, owned : BOOLEAN, rows : Seq(Importing!Row)]
  BY DEF Importing!ImportationAssumption, Importing!IsFile
<1>2. DOMAIN f.rows \subseteq Nat /\ f.format \in {"csv", "geojson", "kml", "jsonld"}
  BY <1>1 DEF Importing!Formats
<1>3. Importing!Kept(f) \subseteq DOMAIN f.rows
  BY <1>2
  DEF Importing!Kept, Importing!TableRows, Importing!Placemarks, Importing!Bodies,
      Importing!Named
<1> QED BY <1>2, <1>3

\* A row that a parser keeps belongs to the notification of a first row.
LEMMA FirstOfGroup ==
  ASSUME Importing!ImportationAssumption, NEW f \in Contents, f.format # "other",
         NEW n \in Importing!Kept(f)
  PROVE  \E k \in Importing!Firsts(f) :
         k \in Importing!Group(f, n) /\ n \in Importing!Group(f, k)
             /\ Importing!Key(f, k) = Importing!Key(f, n)
<1>1. Importing!Group(f, n) \in SUBSET Nat /\ n \in Importing!Group(f, n)
  BY KeptRows DEF Importing!Group
<1> DEFINE k == Importing!Min(Importing!Group(f, n))
<1>2. k \in Importing!Group(f, n) BY <1>1, LeastNumber
<1>3. k \in Importing!Kept(f) /\ Importing!Key(f, k) = Importing!Key(f, n)
  BY <1>2 DEF Importing!Group
<1>4. Importing!Group(f, k) = Importing!Group(f, n) BY <1>3 DEF Importing!Group
<1>5. k \in Importing!Firsts(f) BY <1>3, <1>4 DEF Importing!Firsts
<1> QED BY <1>1, <1>2, <1>3, <1>4, <1>5

\* A sound row is in a notification that names its organization.
LEMMA SoundRowParsed ==
  ASSUME Importing!ImportationAssumption, NEW f \in Contents, f.format # "other",
         NEW n \in DOMAIN f.rows, Importing!Sound(f, n)
  PROVE  \E m \in Importing!Parsed(f) :
         n \in m.rows /\ m.owned /\ m.first \in Importing!Group(f, n)
<1>1. /\ f.rows[n].of # Nobody /\ f.rows[n].at = "good" /\ f.rows[n].typed
      /\ f.rows[n].filled /\ Importing!Owner(f, n) = "both"
  BY DEF Importing!Sound
<1>2. n \in Importing!Named(f) BY <1>1 DEF Importing!Named
<1>3. n \in Importing!Kept(f)
  BY <1>1, <1>2, KeptRows
  DEF Importing!Kept, Importing!TableRows, Importing!Placemarks, Importing!Bodies
<1>4. n \in Importing!Read(f) BY <1>1, <1>3 DEF Importing!Read
<1>5. PICK k \in Importing!Firsts(f) :
        k \in Importing!Group(f, n) /\ n \in Importing!Group(f, k)
            /\ Importing!Key(f, k) = Importing!Key(f, n)
  BY <1>3, FirstOfGroup
<1>6. f.rows[k].of = f.rows[n].of
  <2>1. CASE f.format = "csv" BY <1>5, <2>1 DEF Importing!Key
  <2>2. CASE f.format \in {"geojson", "kml"} BY <1>5, <2>2 DEF Importing!Key
  <2>3. CASE f.format = "jsonld" BY <1>5, <2>3 DEF Importing!Key
  <2> QED BY <2>1, <2>2, <2>3, KeptRows
<1>7. k \in DOMAIN f.rows BY <1>5, KeptRows DEF Importing!Group
<1>8. Importing!Owner(f, k) = "both" BY <1>6, <1>7 DEF Importing!Sound
<1> DEFINE m == [first |-> k, of |-> f.rows[k].of, owned |-> Importing!Owner(f, k) = "both",
                 rows |-> Importing!Group(f, k) \cap Importing!Read(f)]
<1>9. m \in Importing!Parsed(f) BY <1>5 DEF Importing!Parsed
<1>10. m.first = k /\ m.rows = Importing!Group(f, k) \cap Importing!Read(f) OBVIOUS
<1>11. m.owned BY <1>8
<1> HIDE DEF m
<1> QED BY <1>4, <1>5, <1>9, <1>10, <1>11

\* The next notification is one of those left.
LEMMA NextIsOne ==
  ASSUME Importing!ImportationAssumption, NEW w, Late(job[w]), job[w].todo # {}
  PROVE  Importing!One(w) \in job[w].todo
<1> DEFINE todo == job[w].todo  numbers == {m.first : m \in todo}
<1>1. PICK f : f = file[job[w].imp] OBVIOUS
<1>2. f \in Contents /\ f.format # "other" /\ todo \subseteq Importing!Parsed(f)
  BY <1>1 DEF Late, Uploaded
<1>3. \A m \in Importing!Parsed(f) : m.first \in Nat
  BY <1>2, KeptRows DEF Importing!Parsed, Importing!Firsts
<1>4. numbers \in SUBSET Nat /\ numbers # {} BY <1>2, <1>3
<1>5. PICK n \in todo : n.first = Importing!Min(numbers) BY <1>4, LeastNumber
<1>6. \A m \in todo : n.first <= m.first BY <1>4, <1>5, LeastNumber
<1> QED BY <1>5, <1>6 DEF Importing!One

\* Nothing has been uploaded at the start.
LEMMA ImportStarts == Importing!Init => ImportInv
<1> SUFFICES ASSUME Importing!Init PROVE ImportInv OBVIOUS
<1>1. \A w \in Workers : job[w] = Importing!Idle /\ job[w].pc = "idle"
  BY DEF Importing!Init, Importing!Idle
<1>2. Importing!KeptUntilTried BY DEF Importing!Init, Importing!KeptUntilTried
<1> QED BY <1>1, <1>2 DEF Importing!Init, ImportInv, Halfway

\* The properties follow from the invariant.
LEMMA SoundFollows ==
  ASSUME Importing!ImportationAssumption
  PROVE  ImportInv => Importing!ImportSound
<1> SUFFICES ASSUME ImportInv, NEW i \in Imports, status[i] = "completed",
                    NEW n \in DOMAIN file[i].rows, Importing!Sound(file[i], n)
             PROVE  \/ <<i, n>> \in series \cap realtime
                    \/ \E m \in Importing!Group(file[i], n) : <<<<i, m>>, "failed">> \in fate
  BY DEF ImportInv, Importing!ImportSound, Importing!GoodRowsSaved
<1>1. Completed(i) /\ Uploaded(i) BY DEF ImportInv, Completed
<1>2. PICK m \in Importing!Parsed(file[i]) :
        n \in m.rows /\ m.owned /\ m.first \in Importing!Group(file[i], n)
  BY <1>1, SoundRowParsed DEF Uploaded
<1>3. Stored(i, m.rows) \/ <<<<i, m.first>>, "failed">> \in fate
  BY <1>1, <1>2 DEF Completed, Treated
<1> QED BY <1>2, <1>3 DEF Stored

\* What is stored, saved and ended stays so.
Grows ==
  /\ series \subseteq series' /\ realtime \subseteq realtime' /\ fate \subseteq fate'
  /\ \A i \in Imports : file[i] \in Contents => file'[i] = file[i]

\* What has been done of a notification stays done.
LEMMA StaysTrue ==
  ASSUME Grows
  PROVE  /\ \A i, n : Tried(i, n) => Tried(i, n)'
         /\ \A i, m : Treated(i, m) => Treated(i, m)'
         /\ \A i : Uploaded(i) => Uploaded(i)' /\ file'[i] = file[i]
         /\ \A i : Completed(i) => Completed(i)'
<1>1. \A i, n : Tried(i, n) => Tried(i, n)' BY DEF Grows, Tried
<1>2. \A i, m : Treated(i, m) => Treated(i, m)' BY DEF Grows, Treated, Stored
<1>3. \A i : Uploaded(i) => Uploaded(i)' /\ file'[i] = file[i] BY DEF Grows, Uploaded
<1>4. ASSUME NEW i, Completed(i) PROVE Completed(i)'
  <2>1. Uploaded(i) /\ Uploaded(i)' /\ file'[i] = file[i] BY <1>3, <1>4 DEF Completed
  <2>2. \A m \in Importing!Parsed(file[i]) : Treated(i, m)' BY <1>2, <1>4 DEF Completed
  <2>3. \A m \in Importing!Parsed(file[i])' : Treated(i, m)' BY <2>1, <2>2
  <2> QED BY <2>1, <2>3 DEF Completed
<1> QED BY <1>1, <1>2, <1>3, <1>4

\* A job that a step does not touch stays where its place says.
LEMMA JobStays ==
  ASSUME Grows, NEW v, job'[v] = job[v],
         job[v] = Importing!Idle \/ Early(job[v]) \/ Late(job[v]), Halfway(v)
  PROVE  (job[v] = Importing!Idle \/ Early(job[v]) \/ Late(job[v]))' /\ Halfway(v)'
<1>1. CASE job[v] = Importing!Idle BY <1>1 DEF Halfway, Importing!Idle
<1>2. CASE Early(job[v])
  <2>1. Uploaded(job[v].imp)' BY <1>2, StaysTrue DEF Early
  <2>2. Early(job[v])' BY <1>2, <2>1 DEF Early
  <2>3. job[v].pc # "realtime" BY <1>2 DEF Early
  <2> QED BY <2>2, <2>3 DEF Halfway
<1>3. CASE Late(job[v])
  <2>1. Uploaded(job[v].imp)' /\ file'[job[v].imp] = file[job[v].imp]
    BY <1>3, StaysTrue DEF Late
  <2>2. \A m \in Importing!Parsed(file[job[v].imp]) \ job[v].todo :
          Tried(job[v].imp, m.first)' /\ (~job[v].broken => Treated(job[v].imp, m)')
    BY <1>3, StaysTrue DEF Late
  <2>3. Late(job[v])' BY <1>3, <2>1, <2>2 DEF Late
  <2>4. Halfway(v)' BY DEF Halfway, Grows, Importing!One
  <2> QED BY <2>3, <2>4
<1> QED BY <1>1, <1>2, <1>3

\* A step of one job.
LEMMA OneJobSteps ==
  ASSUME ImportInv, Grows, UNCHANGED file, queue' \subseteq queue,
         NEW w \in Workers, NEW new, job' = [job EXCEPT ![w] = new],
         new = Importing!Idle \/ Early(new)' \/ Late(new)', Halfway(w)',
         status' = [i \in Imports |-> status'[i]],
         \A i \in Imports : status'[i] = "completed" =>
           status[i] = "completed" \/ Completed(i),
         \A i \in stored \ stored' : \A n \in Importing!Firsts(file[i]) : Tried(i, n)
  PROVE  ImportInv'
<1>1. /\ job' = [v \in Workers |-> job'[v]] /\ job'[w] = new
      /\ \A v \in Workers : v # w => job'[v] = job[v]
  BY DEF ImportInv
<1>2. ASSUME NEW v \in Workers
      PROVE  (job[v] = Importing!Idle \/ Early(job[v]) \/ Late(job[v]))' /\ Halfway(v)'
  <2>1. CASE v = w BY <1>1, <2>1
  <2>2. CASE v # w BY <1>1, <2>2, JobStays DEF ImportInv
  <2> QED BY <2>1, <2>2
<1>3. \A i \in Imports : status'[i] = "completed" => Completed(i)'
  BY StaysTrue DEF ImportInv
<1>4. \A i \in queue' : i \in Imports /\ file'[i] \in Contents BY DEF ImportInv
<1>5. Importing!KeptUntilTried'
  <2> SUFFICES ASSUME NEW i \in Imports, file[i] # <<>>, i \notin stored', NEW n \in Importing!Firsts(file[i])
               PROVE  Tried(i, n)'
    BY DEF Importing!KeptUntilTried, Tried
  <2>1. Tried(i, n) BY DEF ImportInv, Importing!KeptUntilTried, Tried
  <2> QED BY <2>1, StaysTrue
<1> QED BY <1>1, <1>2, <1>3, <1>4, <1>5 DEF ImportInv

\* An upload is stored as its task is enqueued.
LEMMA UploadKeeps ==
  ASSUME Importing!ImportationAssumption, ImportInv, NEW i \in Imports, NEW f \in Contents,
         Importing!Upload(i, f)
  PROVE  ImportInv'
<1>1. /\ file[i] = <<>> /\ file' = [file EXCEPT ![i] = f]
      /\ stored' = stored \cup {i} /\ queue' = queue \cup {i}
      /\ UNCHANGED <<job, status, series, realtime, fate>>
  BY DEF Importing!Upload
<1>2. Grows BY <1>1, FilesAreSomething DEF Grows, ImportInv
<1>3. file' = [x \in Imports |-> file'[x]] /\ file'[i] = f BY <1>1 DEF ImportInv
<1>4. \A x \in Imports : x # i => file'[x] = file[x] BY <1>1 DEF ImportInv
<1>5. \A w \in Workers : (job[w] = Importing!Idle \/ Early(job[w]) \/ Late(job[w]))' /\ Halfway(w)'
  BY <1>1, <1>2, JobStays DEF ImportInv
<1>6. \A x \in Imports : status'[x] = "completed" => Completed(x)'
  BY <1>1, <1>2, StaysTrue DEF ImportInv
<1>7. \A x \in queue' : x \in Imports /\ file'[x] \in Contents
  BY <1>1, <1>3, <1>4 DEF ImportInv
<1>8. Importing!KeptUntilTried'
  <2> SUFFICES ASSUME NEW x \in Imports, file'[x] # <<>>, x \notin stored',
                      NEW n \in Importing!Firsts(file'[x])
               PROVE  Tried(x, n)'
    BY DEF Importing!KeptUntilTried, Tried
  <2>1. x # i /\ x \notin stored /\ file'[x] = file[x] BY <1>1, <1>4
  <2>2. Tried(x, n) BY <2>1 DEF ImportInv, Importing!KeptUntilTried, Tried
  <2> QED BY <1>2, <2>2, StaysTrue
<1> QED BY <1>1, <1>3, <1>5, <1>6, <1>7, <1>8 DEF ImportInv

\* A task that is taken has its file, and a parser for it.
LEMMA TakeKeeps ==
  ASSUME ImportInv, NEW w \in Workers, NEW i \in Imports, Importing!Take(w, i)
  PROVE  ImportInv'
<1>1. /\ i \in queue /\ queue' = queue \ {i}
      /\ UNCHANGED <<file, stored, series, realtime, fate>>
  BY DEF Importing!Take
<1>2. Grows BY <1>1 DEF Grows
<1>3. CASE file[i].format = "other"
  <2>1. UNCHANGED <<job, status>> BY <1>3 DEF Importing!Take
  <2>2. \A v \in Workers : (job[v] = Importing!Idle \/ Early(job[v]) \/ Late(job[v]))'
        /\ Halfway(v)'
    BY <1>2, <2>1, JobStays DEF ImportInv
  <2>3. \A x \in Imports : status'[x] = "completed" => Completed(x)'
    BY <1>2, <2>1, StaysTrue DEF ImportInv
  <2> QED BY <1>1, <2>1, <2>2, <2>3 DEF ImportInv, Importing!KeptUntilTried
<1>4. CASE file[i].format # "other"
  <2>1. PICK new : new = [pc |-> "created", imp |-> i, broken |-> FALSE] OBVIOUS
  <2>2. job' = [job EXCEPT ![w] = new] /\ status' = [status EXCEPT ![i] = "queued"]
    BY <1>4, <2>1 DEF Importing!Take
  <2>3. Early(new)' BY <1>1, <1>4, <2>1 DEF Early, Uploaded, ImportInv
  <2>4. /\ status' = [x \in Imports |-> status'[x]]
        /\ \A x \in Imports : status'[x] = "completed" => status[x] = "completed"
    BY <2>2 DEF ImportInv
  <2>5. job'[w] = new BY <2>2 DEF ImportInv
  <2>6. Halfway(w)' BY <2>1, <2>5 DEF Halfway
  <2> QED BY <1>1, <1>2, <2>2, <2>3, <2>4, <2>6, OneJobSteps
<1> QED BY <1>3, <1>4

\* A worker that goes on with the same job.
LEMMA GoesOn ==
  ASSUME ImportInv, NEW w \in Workers, NEW pc, Importing!Goto(w, pc)
  PROVE  /\ Early(job[w]) =>
              job' = [job EXCEPT ![w] = [pc |-> pc, imp |-> job[w].imp, broken |-> job[w].broken]]
         /\ Late(job[w]) =>
              job' = [job EXCEPT ![w] = [pc |-> pc, imp |-> job[w].imp, broken |-> job[w].broken,
                                         todo |-> job[w].todo]]
<1>1. job' = [job EXCEPT ![w] = [job[w] EXCEPT !.pc = pc]] BY DEF Importing!Goto
<1>2. ASSUME Early(job[w])
      PROVE  [job[w] EXCEPT !.pc = pc] = [pc |-> pc, imp |-> job[w].imp, broken |-> job[w].broken]
  <2>1. PICK a, b, c : job[w] = [pc |-> a, imp |-> b, broken |-> c] BY <1>2 DEF Early
  <2> QED BY <2>1
<1>3. ASSUME Late(job[w])
      PROVE  [job[w] EXCEPT !.pc = pc] = [pc |-> pc, imp |-> job[w].imp, broken |-> job[w].broken,
                                         todo |-> job[w].todo]
  <2>1. PICK a, b, c, d : job[w] = [pc |-> a, imp |-> b, broken |-> c, todo |-> d]
    BY <1>3 DEF Late
  <2> QED BY <2>1
<1> QED BY <1>1, <1>2, <1>3

\* A worker that is done with a notification.
LEMMA NotificationEnds ==
  ASSUME Importing!ImportationAssumption, ImportInv, Grows, NEW w \in Workers,
         NEW broken \in BOOLEAN,
         Late(job[w]), job[w].todo # {}, Importing!Onward(w, broken), UNCHANGED <<file, stored, queue, status>>,
         NEW i, i = Importing!Of(w), NEW item, item = Importing!One(w), Tried(i, item.first)',
         job[w].broken => broken, ~broken => Treated(i, item)'
  PROVE  ImportInv'
<1>1. PICK rest : rest = job[w].todo \ {Importing!One(w)} OBVIOUS
<1>2. i = Importing!Of(w) OBVIOUS
<1>3. PICK new : new = [pc |-> "next", imp |-> i, broken |-> broken, todo |-> rest] OBVIOUS
<1>4. job' = [job EXCEPT ![w] = new]
  <2>1. PICK a, b, c, d : job[w] = [pc |-> a, imp |-> b, broken |-> c, todo |-> d] BY DEF Late
  <2>2. d = job[w].todo /\ b = i BY <2>1, <1>2 DEF Importing!Of
  <2>3. [[[job[w] EXCEPT !.pc = "next"] EXCEPT !.todo = rest] EXCEPT !.broken = broken] = new
    <3>1. PICK r1 : r1 = [job[w] EXCEPT !.pc = "next"] OBVIOUS
    <3>2. r1 = [pc |-> "next", imp |-> b, broken |-> c, todo |-> d] BY <2>1, <3>1
    <3>3. PICK r2 : r2 = [r1 EXCEPT !.todo = rest] OBVIOUS
    <3>4. r2 = [pc |-> "next", imp |-> b, broken |-> c, todo |-> rest] BY <3>2, <3>3
    <3>5. [r2 EXCEPT !.broken = broken] = new BY <3>4, <2>2, <1>3
    <3> QED BY <3>1, <3>3, <3>5
  <2>4. job' = [job EXCEPT ![w] = [[[job[w] EXCEPT !.pc = "next"] EXCEPT !.todo = rest]
                                     EXCEPT !.broken = broken]]
    <3>1. job' = [job EXCEPT ![w].pc = "next", ![w].todo = @ \ {Importing!One(w)}, ![w].broken = broken]
      BY DEF Importing!Onward
    <3>2. job = [v \in Workers |-> job[v]] BY DEF ImportInv
    <3>3. PICK k1 : k1 = [job EXCEPT ![w].pc = "next"] OBVIOUS
    <3>4. k1[w] = [job[w] EXCEPT !.pc = "next"] /\ k1 = [v \in Workers |-> k1[v]]
      BY <3>2, <3>3
    <3>5. k1[w].todo = job[w].todo BY <3>4, <2>1
    <3>6. PICK k2 : k2 = [k1 EXCEPT ![w].todo = rest] OBVIOUS
    <3>7. k2[w] = [k1[w] EXCEPT !.todo = rest] /\ k2 = [v \in Workers |-> k2[v]]
      BY <3>4, <3>6
    <3>8. job' = [k2 EXCEPT ![w].broken = broken] BY <3>1, <3>3, <3>5, <3>6, <1>1
    <3>9. job' = [v \in Workers |-> IF v = w THEN [k2[w] EXCEPT !.broken = broken] ELSE job[v]]
      BY <3>2, <3>3, <3>4, <3>6, <3>7, <3>8
    <3> QED BY <3>2, <3>4, <3>7, <3>9
  <2> QED BY <2>3, <2>4
<1>5. new.pc = "next" /\ new.imp = i /\ new.broken = broken /\ new.todo = rest BY <1>3
<1>6. Uploaded(i) /\ Uploaded(i)' /\ file'[i] = file[i]
  BY <1>2, StaysTrue DEF Late, Importing!Of
<1>7. Importing!One(w) \in job[w].todo BY NextIsOne
<1>8. ASSUME NEW m \in Importing!Parsed(file[i]) \ rest
      PROVE  Tried(i, m.first)' /\ (~broken => Treated(i, m)')
  <2>1. CASE m = item BY <2>1
  <2>2. CASE m # item
    <3>1. m \in Importing!Parsed(file[i]) \ job[w].todo BY <1>1, <2>2
    <3>2. Tried(i, m.first) /\ (~job[w].broken => Treated(i, m))
      BY <1>2, <3>1 DEF Late, Importing!Of
    <3> QED BY <3>2, StaysTrue
  <2> QED BY <2>1, <2>2
<1>9. rest \subseteq Importing!Parsed(file[i]) BY <1>1, <1>2 DEF Late, Importing!Of
<1>10. Late(new)'
  BY <1>3, <1>5, <1>6, <1>8, <1>9 DEF Late
<1>11. job'[w] = new BY <1>4 DEF ImportInv
<1>12. Halfway(w)' BY <1>5, <1>11 DEF Halfway
<1> QED BY <1>4, <1>10, <1>12, OneJobSteps DEF ImportInv

\* What the place of a worker says of its job.
LEMMA WhichJob ==
  ASSUME ImportInv, NEW w \in Workers
  PROVE  /\ job[w].pc \in {"created", "download", "parse", "failed"} => Early(job[w])
         /\ job[w].pc \in {"next", "insert", "publish", "series", "realtime", "finish"} =>
              Late(job[w])
<1>1. job[w] = Importing!Idle \/ Early(job[w]) \/ Late(job[w]) BY DEF ImportInv
<1>2. job[w] = Importing!Idle => job[w].pc = "idle" BY DEF Importing!Idle
<1>3. Early(job[w]) => job[w].pc \in {"created", "download", "parse", "failed"} BY DEF Early
<1>4. Late(job[w]) => job[w].pc \in {"next", "insert", "publish", "series", "realtime", "finish"}
  BY DEF Late
<1> QED BY <1>1, <1>2, <1>3, <1>4

\* A worker that goes on without anything saved, before the file is parsed.
LEMMA EarlyGoesOn ==
  ASSUME ImportInv, NEW w \in Workers, Early(job[w]), NEW pc \in {"download", "parse",
         "failed"},
         Importing!Goto(w, pc), Importing!Stays, UNCHANGED stored,
         status' = [i \in Imports |-> status'[i]],
         \A i \in Imports : status'[i] = "completed" => status[i] = "completed"
  PROVE  ImportInv'
<1>1. Grows BY DEF Grows, Importing!Stays
<1>2. PICK i, b : i = job[w].imp /\ b = job[w].broken OBVIOUS
<1>3. PICK new : new = [pc |-> pc, imp |-> i, broken |-> b] OBVIOUS
<1>4. job' = [job EXCEPT ![w] = new] BY <1>2, <1>3, GoesOn
<1>5. Uploaded(i)' BY <1>1, <1>2, StaysTrue DEF Early
<1>6. Early(new)' BY <1>3, <1>5 DEF Early
<1>7. job'[w] = new BY <1>4 DEF ImportInv
<1>8. Halfway(w)' BY <1>3, <1>7 DEF Halfway
<1> QED BY <1>1, <1>4, <1>6, <1>8, OneJobSteps DEF Importing!Stays

\* The background job and its first step start.
LEMMA StartKeeps == ASSUME ImportInv, NEW w \in Workers, Importing!Start(w) PROVE ImportInv'
<1>1. Early(job[w]) BY WhichJob DEF Importing!Start, Importing!At
<1>2. PICK i : i = Importing!Of(w) OBVIOUS
<1>3. status' = [status EXCEPT ![i] = "running"] BY <1>2 DEF Importing!Start
<1>4. /\ status' = [x \in Imports |-> status'[x]]
      /\ \A x \in Imports : status'[x] = "completed" => status[x] = "completed"
  BY <1>3 DEF ImportInv
<1> QED BY <1>1, <1>4, EarlyGoesOn DEF Importing!Start

\* The download saves nothing.
LEMMA DownloadKeeps ==
  ASSUME ImportInv, NEW w \in Workers, Importing!Download(w)
  PROVE  ImportInv'
<1>1. Early(job[w]) BY WhichJob DEF Importing!Download, Importing!At
<1>2. Importing!Goto(w, "parse") \/ Importing!Goto(w, "failed") BY DEF Importing!Download
<1>3. Importing!Stays /\ UNCHANGED <<stored, status>> BY DEF Importing!Download
<1> QED BY <1>1, <1>2, <1>3, EarlyGoesOn DEF ImportInv

\* The notifications left at first are all those of the file.
LEMMA ParseKeeps == ASSUME ImportInv, NEW w \in Workers, Importing!Parse(w) PROVE ImportInv'
<1>1. Early(job[w]) BY WhichJob DEF Importing!Parse, Importing!At
<1>2. PICK f : f = file[Importing!Of(w)] OBVIOUS
<1>3. Importing!Stays /\ UNCHANGED <<stored, status>> BY DEF Importing!Parse
<1>4. CASE Importing!Refused(f)
  <2>1. Importing!Goto(w, "failed") BY <1>2, <1>4 DEF Importing!Parse
  <2> QED BY <1>1, <1>3, <2>1, EarlyGoesOn DEF ImportInv
<1>5. CASE ~Importing!Refused(f)
  <2>1. PICK i : i = job[w].imp OBVIOUS
  <2>2. PICK whole : whole = Importing!Parsed(f) OBVIOUS
  <2>3. PICK new : new = [pc |-> "next", imp |-> i, broken |-> FALSE, todo |-> whole] OBVIOUS
  <2>4. job' = [job EXCEPT ![w] = new] BY <1>2, <1>5, <2>1, <2>2, <2>3 DEF Importing!Parse
  <2>5. Grows BY <1>3 DEF Grows, Importing!Stays
  <2>6. Uploaded(i)' /\ file'[i] = f
    BY <1>1, <1>2, <2>1, <2>5, StaysTrue DEF Early, Importing!Of
  <2>7. Importing!Parsed(file[i])' = whole BY <2>2, <2>6
  <2>8. /\ new.pc = "next" /\ new.imp = i /\ new.todo = whole /\ new.broken = FALSE
        /\ new = [pc |-> new.pc, imp |-> new.imp, broken |-> new.broken, todo |-> new.todo]
    BY <2>3
  <2>9. Late(new)' BY <2>6, <2>7, <2>8 DEF Late
  <2>10. job'[w] = new BY <2>4 DEF ImportInv
  <2>11. Halfway(w)' BY <2>8, <2>10 DEF Halfway
  <2> QED BY <1>3, <2>4, <2>5, <2>9, <2>11, OneJobSteps DEF Importing!Stays, ImportInv
<1> QED BY <1>4, <1>5

\* A worker that goes to another part of the same notification.
LEMMA SameNotification ==
  ASSUME ImportInv, Grows, NEW w \in Workers, Late(job[w]), job[w].todo # {},
         NEW pc \in {"insert", "publish", "series", "realtime"}, Importing!Goto(w, pc),
         UNCHANGED <<file, stored, queue, status>>,
         NEW i, i = Importing!Of(w), NEW mine, mine = Importing!One(w).rows,
         pc = "realtime" => {i} \X mine \subseteq series'
  PROVE  ImportInv'
<1>1. PICK b, todo : b = job[w].broken /\ todo = job[w].todo OBVIOUS
<1>2. PICK new : new = [pc |-> pc, imp |-> i, broken |-> b, todo |-> todo] OBVIOUS
<1>3. job' = [job EXCEPT ![w] = new] BY <1>1, <1>2, GoesOn DEF Importing!Of
<1>4. /\ new.pc = pc /\ new.imp = i /\ new.todo = todo /\ new.broken = b
      /\ new = [pc |-> new.pc, imp |-> new.imp, broken |-> new.broken, todo |-> new.todo]
  BY <1>2
<1>5. /\ Uploaded(i)' /\ file'[i] = file[i] /\ b \in BOOLEAN
      /\ todo \subseteq Importing!Parsed(file[i])
      /\ \A m \in Importing!Parsed(file[i]) \ todo : Tried(i, m.first) /\ (~b =>
           Treated(i, m))
  BY <1>1, StaysTrue DEF Late, Importing!Of
<1>6. \A m \in Importing!Parsed(file[i]) \ todo : Tried(i, m.first)' /\ (~b => Treated(i, m)')
  BY <1>5, StaysTrue
<1>7. Late(new)' BY <1>1, <1>4, <1>5, <1>6 DEF Late
<1>8. job'[w] = new BY <1>3 DEF ImportInv
<1>9. Importing!One(w)' = Importing!One(w) BY <1>1, <1>4, <1>8 DEF Importing!One
<1>10. Halfway(w)' BY <1>4, <1>8, <1>9 DEF Halfway
<1> QED BY <1>3, <1>7, <1>10, OneJobSteps DEF ImportInv

\* How a notification ends is remembered.
LEMMA EndsTried ==
  ASSUME NEW w, NEW how, Importing!Ended(w, how), NEW i, i = Importing!Of(w), NEW item,
         item = Importing!One(w)
  PROVE  Tried(i, item.first)' /\ fate \subseteq fate' /\ <<<<i, item.first>>, how>> \in fate'
<1>1. PICK e : e = <<<<i, item.first>>, how>> OBVIOUS
<1>2. e[1] = <<i, item.first>> BY <1>1
<1>3. fate' = fate \cup {e} BY <1>1 DEF Importing!Ended
<1>4. e \in fate' BY <1>3
<1>5. Tried(i, item.first)' BY <1>2, <1>4 DEF Tried
<1> QED BY <1>1, <1>3, <1>4, <1>5

\* A notification without values or organization is passed over.
LEMMA LookUpKeeps ==
  ASSUME Importing!ImportationAssumption, ImportInv, NEW w \in Workers, Importing!LookUp(w)
  PROVE  ImportInv'
<1>1. Late(job[w]) /\ job[w].todo # {} BY WhichJob DEF Importing!LookUp, Importing!At
<1>2. PICK i, item : i = Importing!Of(w) /\ item = Importing!One(w) OBVIOUS
<1>3. UNCHANGED <<file, stored, queue, status, series, realtime>>
  BY DEF Importing!LookUp, Importing!Others
<1>4. job[w].broken \in BOOLEAN BY <1>1 DEF Late
<1>5. CASE Importing!One(w).rows = {} /\ Importing!Onward(w, job[w].broken)
      /\ Importing!Ended(w, "skipped")
  <2>1. Tried(i, item.first)' /\ Grows
    BY <1>2, <1>3, <1>5, EndsTried DEF Grows
  <2>2. Treated(i, item)' BY <1>2, <1>5 DEF Treated
  <2> QED BY <1>1, <1>2, <1>3, <1>4, <1>5, <2>1, <2>2, NotificationEnds
<1>6. CASE Importing!One(w).rows # {} /\ ~Importing!One(w).owned
      /\ Importing!Onward(w, job[w].broken) /\ Importing!Ended(w, "unowned")
  <2>1. Tried(i, item.first)' /\ Grows
    BY <1>2, <1>3, <1>6, EndsTried DEF Grows
  <2>2. Treated(i, item)' BY <1>2, <1>6 DEF Treated
  <2> QED BY <1>1, <1>2, <1>3, <1>4, <1>6, <2>1, <2>2, NotificationEnds
<1>7. CASE Importing!Onward(w, TRUE) /\ Importing!Ended(w, "session")
  <2>1. Tried(i, item.first)' /\ Grows
    BY <1>2, <1>3, <1>7, EndsTried DEF Grows
  <2> QED BY <1>1, <1>2, <1>3, <1>4, <1>7, <2>1, NotificationEnds
<1>8. CASE Importing!Goto(w, IF Importing!One(w).of \in entities THEN "series" ELSE "insert")
      /\ UNCHANGED fate
  <2>1. Grows BY <1>3, <1>8 DEF Grows
  <2>2. Importing!Goto(w, "series") \/ Importing!Goto(w, "insert") BY <1>8
  <2>3. PICK mine : mine = Importing!One(w).rows OBVIOUS
  <2> QED BY <1>1, <1>2, <1>3, <2>1, <2>2, <2>3, SameNotification
<1> QED BY <1>5, <1>6, <1>7, <1>8 DEF Importing!LookUp

\* Only a job whose session breaks goes on without the notification of a sound row.
LEMMA InsertKeeps ==
  ASSUME Importing!ImportationAssumption, ImportInv, NEW w \in Workers, Importing!Insert(w)
  PROVE  ImportInv'
<1>1. Late(job[w]) BY WhichJob DEF Importing!Insert, Importing!At
<1>2. job[w].todo # {} BY <1>1 DEF Late, Importing!Insert, Importing!At
<1>3. PICK i, item, mine : i = Importing!Of(w) /\ item = Importing!One(w)
      /\ mine = Importing!One(w).rows OBVIOUS
<1>4. UNCHANGED <<file, stored, queue, status, series, realtime>>
  BY DEF Importing!Insert, Importing!Others
<1>5. CASE Importing!Onward(w, TRUE) /\ Importing!Ended(w, "session")
  <2>1. Tried(i, item.first)' /\ Grows
    BY <1>3, <1>4, <1>5, EndsTried DEF Grows
  <2> QED BY <1>1, <1>2, <1>3, <1>4, <1>5, <2>1, NotificationEnds
<1>6. CASE Importing!Goto(w, "publish") /\ UNCHANGED fate
  <2>1. Grows BY <1>4, <1>6 DEF Grows
  <2> QED BY <1>1, <1>2, <1>3, <1>4, <1>6, <2>1, SameNotification
<1> QED BY <1>5, <1>6 DEF Importing!Insert

\* The Context Broker is told of the entity or not.
LEMMA PublishKeeps ==
  ASSUME ImportInv, NEW w \in Workers, Importing!Publish(w) PROVE ImportInv'
<1>1. Late(job[w]) BY WhichJob DEF Importing!Publish, Importing!At
<1>2. job[w].todo # {} BY <1>1 DEF Late, Importing!Publish, Importing!At
<1>3. PICK i, mine : i = Importing!Of(w) /\ mine = Importing!One(w).rows OBVIOUS
<1>4. UNCHANGED <<file, stored, queue, status, series, realtime, fate>>
  BY DEF Importing!Publish, Importing!Others
<1>5. Importing!Goto(w, "series") BY DEF Importing!Publish
<1>6. Grows BY <1>4 DEF Grows
<1> QED BY <1>1, <1>2, <1>3, <1>4, <1>5, <1>6, SameNotification

\* The rows are in the time series, or their notification has failed.
LEMMA SaveSeriesKeeps ==
  ASSUME Importing!ImportationAssumption, ImportInv, NEW w \in Workers,
         Importing!SaveSeries(w)
  PROVE  ImportInv'
<1>1. Late(job[w]) BY WhichJob DEF Importing!SaveSeries, Importing!At
<1>2. job[w].todo # {} BY <1>1 DEF Late, Importing!SaveSeries, Importing!At
<1>3. PICK i, item, mine : i = Importing!Of(w) /\ item = Importing!One(w) /\ mine = item.rows
  OBVIOUS
<1>4. UNCHANGED <<file, stored, queue, status, realtime>>
  BY DEF Importing!SaveSeries, Importing!Others
<1>5. job[w].broken \in BOOLEAN BY <1>1 DEF Late
<1>6. CASE series' = series \cup Importing!Rows(w) /\ Importing!Goto(w, "realtime")
      /\ UNCHANGED fate
  <2>1. Grows BY <1>4, <1>6 DEF Grows
  <2>2. {i} \X mine \subseteq series' BY <1>3, <1>6 DEF Importing!Rows
  <2> QED BY <1>1, <1>2, <1>3, <1>4, <1>6, <2>1, <2>2, SameNotification
<1>7. CASE UNCHANGED series /\ Importing!Onward(w, job[w].broken) /\ Importing!Ended(w, "failed")
  <2>1. Tried(i, item.first)' /\ Grows
    BY <1>3, <1>4, <1>7, EndsTried DEF Grows
  <2>2. Treated(i, item)' BY <1>3, <1>7 DEF Treated, Importing!Ended
  <2> QED BY <1>1, <1>2, <1>3, <1>4, <1>5, <1>7, <2>1, <2>2, NotificationEnds
<1> QED BY <1>6, <1>7 DEF Importing!SaveSeries

\* The rows are in both stores, or their notification has failed.
LEMMA SaveRealtimeKeeps ==
  ASSUME Importing!ImportationAssumption, ImportInv, NEW w \in Workers,
         Importing!SaveRealtime(w)
  PROVE  ImportInv'
<1>1. Late(job[w]) BY WhichJob DEF Importing!SaveRealtime, Importing!At
<1>2. job[w].todo # {} BY <1>1 DEF Late, Importing!SaveRealtime, Importing!At
<1>3. PICK i, item : i = Importing!Of(w) /\ item = Importing!One(w) OBVIOUS
<1>4. UNCHANGED <<file, stored, queue, status, series>>
  BY DEF Importing!SaveRealtime, Importing!Others
<1>5. job[w].broken \in BOOLEAN /\ Importing!Onward(w, job[w].broken)
  BY <1>1 DEF Late, Importing!SaveRealtime
<1>6. CASE realtime' = realtime \cup Importing!Rows(w) /\ Importing!Ended(w, "saved")
  <2>1. Tried(i, item.first)' /\ Grows
    BY <1>3, <1>4, <1>6, EndsTried DEF Grows
  <2>2. {i} \X item.rows \subseteq series
    BY <1>3 DEF ImportInv, Halfway, Importing!SaveRealtime, Importing!At, Importing!Of
  <2>3. {i} \X item.rows \subseteq series' \cap realtime'
    BY <1>3, <1>4, <1>6, <2>2 DEF Importing!Rows
  <2>4. Treated(i, item)' BY <2>3 DEF Treated, Stored
  <2> QED BY <1>1, <1>2, <1>3, <1>4, <1>5, <2>1, <2>4, NotificationEnds
<1>7. CASE UNCHANGED realtime /\ Importing!Ended(w, "failed")
  <2>1. Tried(i, item.first)' /\ Grows
    BY <1>3, <1>4, <1>7, EndsTried DEF Grows
  <2>2. Treated(i, item)' BY <1>3, <1>7 DEF Treated, Importing!Ended
  <2> QED BY <1>1, <1>2, <1>3, <1>4, <1>5, <2>1, <2>2, NotificationEnds
<1> QED BY <1>6, <1>7 DEF Importing!SaveRealtime

\* The file is removed when every notification has been tried.
LEMMA CleanKeeps ==
  ASSUME Importing!ImportationAssumption, ImportInv, NEW w \in Workers, Importing!Clean(w)
  PROVE  ImportInv'
<1>1. Late(job[w]) /\ job[w].todo = {} BY WhichJob DEF Importing!Clean, Importing!At
<1>2. PICK i, b : i = Importing!Of(w) /\ b = job[w].broken OBVIOUS
<1>3. Importing!Stays /\ UNCHANGED status BY DEF Importing!Clean
<1>4. Grows BY <1>3 DEF Grows, Importing!Stays
<1>5. PICK new : new = [pc |-> "finish", imp |-> i, broken |-> b, todo |-> {}] OBVIOUS
<1>6. job' = [job EXCEPT ![w] = new]
  BY <1>1, <1>2, <1>5, GoesOn DEF Importing!Of, Importing!Clean
<1>7. /\ new.pc = "finish" /\ new.imp = i /\ new.todo = {} /\ new.broken = b
      /\ new = [pc |-> new.pc, imp |-> new.imp, broken |-> new.broken, todo |-> new.todo]
  BY <1>5
<1>8. /\ Uploaded(i) /\ Uploaded(i)' /\ file'[i] = file[i] /\ b \in BOOLEAN
      /\ \A m \in Importing!Parsed(file[i]) : Tried(i, m.first) /\ (~b => Treated(i, m))
  BY <1>1, <1>2, <1>4, StaysTrue DEF Late, Importing!Of
<1>9. \A m \in Importing!Parsed(file[i]) : Tried(i, m.first)' /\ (~b => Treated(i, m)')
  BY <1>4, <1>8, StaysTrue
<1>10. Late(new)' BY <1>7, <1>8, <1>9 DEF Late
<1>11. \A n \in Importing!Firsts(file[i]) : Tried(i, n)
  <2> SUFFICES ASSUME NEW n \in Importing!Firsts(file[i]) PROVE Tried(i, n) OBVIOUS
  <2>1. PICK f : f = file[i] OBVIOUS
  <2>2. PICK m : m = [first |-> n, of |-> f.rows[n].of, owned |-> Importing!Owner(f, n) = "both",
                      rows |-> Importing!Group(f, n) \cap Importing!Read(f)]
    OBVIOUS
  <2>3. m \in Importing!Parsed(f) BY <2>1, <2>2 DEF Importing!Parsed
  <2>4. m.first = n BY <2>2
  <2> QED BY <1>8, <2>1, <2>3, <2>4
<1>12. \A x \in stored \ stored' : x = i BY <1>2 DEF Importing!Clean
<1>13. job'[w] = new BY <1>6 DEF ImportInv
<1>14. Halfway(w)' BY <1>7, <1>13 DEF Halfway
<1> QED
  BY <1>3, <1>4, <1>6, <1>10, <1>11, <1>12, <1>14, OneJobSteps DEF Importing!Stays, ImportInv

\* A worker that has ended its job.
LEMMA BecomesIdle ==
  ASSUME ImportInv, NEW w \in Workers, job' = [job EXCEPT ![w] = Importing!Idle],
         Importing!Stays, UNCHANGED stored,
         status' = [i \in Imports |-> status'[i]],
         \A i \in Imports : status'[i] = "completed" =>
           status[i] = "completed" \/ Completed(i)
  PROVE  ImportInv'
<1>1. Grows BY DEF Grows, Importing!Stays
<1>2. job'[w] = Importing!Idle BY DEF ImportInv
<1>3. Halfway(w)' BY <1>2 DEF Halfway, Importing!Idle
<1>4. PICK new : new = Importing!Idle OBVIOUS
<1> QED BY <1>1, <1>3, <1>4, OneJobSteps DEF Importing!Stays

\* A job completes only in a session that works, and then nothing was lost.
LEMMA CompleteKeeps ==
  ASSUME ImportInv, NEW w \in Workers, Importing!Complete(w)
  PROVE  ImportInv'
<1>1. Late(job[w]) BY WhichJob DEF Importing!Complete, Importing!At
<1>2. job[w].todo = {} BY <1>1 DEF Late, Importing!Complete, Importing!At
<1>3. job' = [job EXCEPT ![w] = Importing!Idle] /\ Importing!Stays /\ UNCHANGED stored
  BY DEF Importing!Complete
<1>4. PICK i : i = Importing!Of(w) OBVIOUS
<1>5. CASE job[w].broken
  <2>1. UNCHANGED status BY <1>5 DEF Importing!Complete
  <2> QED BY <1>3, <2>1, BecomesIdle DEF ImportInv
<1>6. CASE ~job[w].broken
  <2>1. status' = [status EXCEPT ![i] = "completed"] BY <1>4, <1>6 DEF Importing!Complete
  <2>2. Completed(i) BY <1>1, <1>2, <1>4, <1>6 DEF Completed, Late, Importing!Of
  <2>3. /\ status' = [x \in Imports |-> status'[x]]
        /\ \A x \in Imports : status'[x] = "completed" => status[x] = "completed" \/ x = i
    BY <2>1 DEF ImportInv
  <2> QED BY <1>3, <2>2, <2>3, BecomesIdle
<1> QED BY <1>5, <1>6

\* A job that fails keeps its file.
LEMMA FailKeeps == ASSUME ImportInv, NEW w \in Workers, Importing!Fail(w) PROVE ImportInv'
<1>1. job' = [job EXCEPT ![w] = Importing!Idle] /\ Importing!Stays /\ UNCHANGED stored
  BY DEF Importing!Fail
<1>2. PICK i : i = Importing!Of(w) OBVIOUS
<1>3. status' = [status EXCEPT ![i] = "failed"] BY <1>2 DEF Importing!Fail
<1>4. /\ status' = [x \in Imports |-> status'[x]]
      /\ \A x \in Imports : status'[x] = "completed" => status[x] = "completed"
  BY <1>3 DEF ImportInv
<1> QED BY <1>1, <1>4, BecomesIdle

\* A job that is killed keeps its file.
LEMMA KillImportKeeps ==
  ASSUME ImportInv, NEW w \in Workers, Importing!Kill(w)
  PROVE  ImportInv'
<1>1. job' = [job EXCEPT ![w] = Importing!Idle] /\ Importing!Stays /\ UNCHANGED <<stored, status>>
  BY DEF Importing!Kill
<1> QED BY <1>1, BecomesIdle DEF ImportInv

\* A step of something else.
LEMMA ImportsUntouched ==
  ASSUME ImportInv, UNCHANGED <<file, stored, queue, job, status, series, realtime, fate>>
  PROVE  ImportInv'
<1>1. Grows BY DEF Grows
<1>2. \A v \in Workers : (job[v] = Importing!Idle \/ Early(job[v]) \/ Late(job[v]))' /\ Halfway(v)'
  BY <1>1, JobStays DEF ImportInv
<1>3. \A x \in Imports : status'[x] = "completed" => Completed(x)'
  BY <1>1, StaysTrue DEF ImportInv
<1> QED BY <1>2, <1>3 DEF ImportInv, Importing!KeptUntilTried

\* Every step keeps the invariant.
LEMMA ImportSteps ==
  ASSUME Importing!ImportationAssumption, ImportInv, [Importing!Next]_Importing!vars
  PROVE  ImportInv'
<1>1. CASE \E i \in Imports, f \in Contents : Importing!Upload(i, f) BY <1>1, UploadKeeps
<1>2. ASSUME NEW w \in Workers, Importing!Step(w) PROVE ImportInv'
  BY <1>2, StartKeeps, DownloadKeeps, ParseKeeps, LookUpKeeps, InsertKeeps, PublishKeeps,
     SaveSeriesKeeps, SaveRealtimeKeeps, CleanKeeps, CompleteKeeps, FailKeeps DEF Importing!Step
<1>3. ASSUME NEW w \in Workers, Importing!Kill(w) \/ \E i \in Imports : Importing!Take(w, i)
      PROVE  ImportInv'
  BY <1>3, KillImportKeeps, TakeKeeps
<1>4. CASE \E e \in Entities : Importing!Notified(e)
  BY <1>4, ImportsUntouched DEF Importing!Notified, Importing!Others
<1>5. CASE UNCHANGED Importing!vars BY <1>5, ImportsUntouched DEF Importing!vars
<1> QED BY <1>1, <1>2, <1>3, <1>4, <1>5 DEF Importing!Next

\* DataImportationJob: in every reachable state each job knows which notifications of
\* its file are left, and has tried every other; unless its session broke, it has saved
\* every other that has values and an organization or knows that it failed.
THEOREM ImportInvariance ==
  ASSUME Importing!ImportationAssumption
  PROVE  Importing!Spec => []ImportInv
<1>1. Importing!Init => ImportInv BY ImportStarts
<1>2. ImportInv /\ [Importing!Next]_Importing!vars => ImportInv' BY ImportSteps
<1> QED BY <1>1, <1>2, PTL DEF Importing!Spec

\* DataImportationJob: an import that says "completed" has every sound row in both
\* stores unless a store refused its notification, and a stored file is removed only when
\* each of its notifications has been tried; for any workers, files, entities and faults.
THEOREM ImportsSound ==
  ASSUME Importing!ImportationAssumption
  PROVE  Importing!Spec => []Importing!ImportSound
<1>1. ImportInv => Importing!ImportSound BY SoundFollows
<1> QED BY <1>1, ImportInvariance, PTL
=============================================================================
