--------------------------- MODULE InactivityCheck ---------------------------
(***************************************************************************)
(* One inactivity alarm: nobody notifies that a measure does not arrive,   *)
(* so a periodic task looks at the age of the last reports.  The pass of   *)
(* each hour is looked up in the table of executions, recorded there and   *)
(* then made, in separate steps of any of the workers; schedulers that     *)
(* overlap publish several passes in an hour.  Time is counted in ticks,   *)
(* Hour ticks to the hour; ages are kept instead of instants.              *)
(***************************************************************************)
EXTENDS Integers, FiniteSets

CONSTANTS
  Workers,   \* processes of the queue of the check
  Schedulers, \* schedulers that run at a time
  Entities,  \* the entities, or their measures, of the conditions
  Hour,      \* ticks in an hour
  Timeout,   \* timeout_s of the conditions, in ticks
  MaxLag,    \* bound on the ticks a pass takes until it reads the reports
  MaxQueued, \* bound on the regular passes published and not yet taken
  MaxForced, \* bound on the passes asked for with force
  MaxKills   \* bound on the processes killed in the middle of a pass

InactivityAssumption ==
  /\ Hour \in Nat \ {0} /\ Timeout \in Nat /\ MaxQueued \in Nat \ {0}
  /\ MaxLag \in Nat /\ MaxForced \in Nat /\ MaxKills \in Nat

VARIABLES
  function, \* alarms.function
  minute,   \* ticks since the hour began
  due,      \* due[s]: ticks until scheduler s publishes the next pass
  queue,    \* passes published and not yet taken
  rows,     \* executions recorded for the current hour
  age,      \* age[e]: ticks since the last report, Never, or beyond Timeout
  task,     \* task[w]: the pass worker w makes
  up,       \* alarms.up
  passes,   \* history: passes[w]: regular passes of the hour worker w made
  racers,   \* history: the workers with a regular pass of the hour looked up
            \* and not made when its first execution was recorded
  spent     \* forced passes and kills so far

vars == <<function, minute, due, queue, rows, age, task, up, passes, racers,
          spent>>

Silent == Timeout + MaxLag + 1
Never == Silent + 1
Ages == 0 .. Never

Idle == [pc |-> "idle"]
Pass == [pc : {"looked"}, lag : 0 .. MaxLag, force : BOOLEAN, found : BOOLEAN, current : BOOLEAN]
Running == [pc : {"recorded"}, lag : 0 .. MaxLag]
Updating == [pc : {"built"}, up : BOOLEAN, active : BOOLEAN]

TypeOK ==
  /\ function \in {"AND", "OR", "XOR"}
  /\ minute \in 0 .. Hour - 1 /\ due \in [Schedulers -> 0 .. Hour]
  /\ queue \in [force : {0, 1}, regular : 0 .. MaxQueued]
  /\ rows \in 0 .. Cardinality(Workers)
  /\ age \in [Entities -> Ages]
  /\ task \in [Workers -> {Idle} \cup Pass \cup Running \cup Updating]
  /\ up \in BOOLEAN
  /\ passes \in [Workers -> Nat] /\ racers \subseteq Workers
  /\ spent \in [forced : 0 .. MaxForced, kills : 0 .. MaxKills]

Init ==
  /\ function \in {"AND", "OR", "XOR"}
  /\ minute \in 0 .. Hour - 1 /\ due \in [Schedulers -> 0 .. Hour]
  /\ queue = [force |-> 0, regular |-> 0]
  /\ rows = 0 /\ passes = [w \in Workers |-> 0] /\ racers = {}
  /\ age = [e \in Entities |-> Never]
  /\ task = [w \in Workers |-> Idle]
  /\ up = FALSE
  /\ spent = [forced |-> 0, kills |-> 0]

-----------------------------------------------------------------------------

Older(a) == IF a < Silent THEN a + 1 ELSE a

\* The instant of a pass is taken when it begins and the reports are read
\* later: what is reported meanwhile has no age yet.
Tick ==
  LET ends == minute = Hour - 1 IN
  /\ \A s \in Schedulers : due[s] > 0 \/ queue.regular = MaxQueued
  /\ \A w \in Workers : task[w].pc \in {"looked", "recorded"} => task[w].lag < MaxLag
  /\ minute' = (minute + 1) % Hour
  /\ due' = [s \in Schedulers |-> IF due[s] = 0 THEN 0 ELSE due[s] - 1]
  /\ age' = [e \in Entities |-> Older(age[e])]
  /\ rows' = IF ends THEN 0 ELSE rows
  /\ passes' = IF ends THEN [w \in Workers |-> 0] ELSE passes
  /\ racers' = IF ends THEN {} ELSE racers
  /\ task' = [w \in Workers |->
       CASE task[w].pc = "looked" -> [task[w] EXCEPT !.current = @ /\ ~ends, !.lag = @ + 1]
         [] task[w].pc = "recorded" -> [task[w] EXCEPT !.lag = @ + 1]
         [] OTHER -> task[w]]
  /\ UNCHANGED <<function, queue, up, spent>>

\* setup_periodic_alarm_tasks: an interval, not an hour of the clock.
Beat(s) ==
  /\ due[s] = 0 /\ queue.regular < MaxQueued
  /\ queue' = [queue EXCEPT !.regular = @ + 1]
  /\ due' = [due EXCEPT ![s] = Hour]
  /\ UNCHANGED <<function, minute, rows, age, task, up, passes, racers, spent>>

\* Someone publishes the task with force.
Force ==
  /\ spent.forced < MaxForced /\ queue.force = 0
  /\ queue' = [queue EXCEPT !.force = 1]
  /\ spent' = [spent EXCEPT !.forced = @ + 1]
  /\ UNCHANGED <<function, minute, due, rows, age, task, up, passes, racers>>

\* get_etl_execution_with_specific_params, with the date cut to the hour.
Found == rows > 0

\* Mutant of LookUp: an execution found does not end the task.
LookUpIgnored(w, kind) ==
  /\ task[w] = Idle /\ queue[kind] > 0
  /\ queue' = [queue EXCEPT ![kind] = @ - 1]
  /\ task' = [task EXCEPT ![w] =
       [pc |-> "looked", lag |-> 0, force |-> kind = "force", found |-> Found, current |-> TRUE]]
  /\ UNCHANGED <<function, minute, due, rows, age, up, passes, racers, spent>>

\* check_inactivity_alarms: the lookup, after which a pass already recorded
\* is skipped unless forced.
LookUp(w, kind) ==
  /\ task[w] = Idle /\ queue[kind] > 0
  /\ queue' = [queue EXCEPT ![kind] = @ - 1]
  /\ task' = IF Found /\ kind = "regular" THEN task
             ELSE [task EXCEPT ![w] = [pc |-> "looked", lag |-> 0, force |-> kind = "force",
                                       found |-> Found, current |-> TRUE]]
  /\ UNCHANGED <<function, minute, due, rows, age, up, passes, racers, spent>>

\* A regular pass of the hour that was looked up and not yet recorded.
InRace(w) == task[w].pc = "looked" /\ task[w].current /\ ~task[w].force

\* create_etl_execution, before the alarms are looked at.
Record(w) ==
  /\ task[w].pc = "looked"
  /\ LET t == task[w] IN
     /\ rows' = IF ~t.found /\ t.current THEN rows + 1 ELSE rows
     /\ passes' = IF ~t.force /\ t.current THEN [passes EXCEPT ![w] = @ + 1] ELSE passes
     /\ racers' = IF rows = 0 /\ rows' > 0 THEN {v \in Workers : InRace(v)} ELSE racers
     /\ task' = [task EXCEPT ![w] = [pc |-> "recorded", lag |-> t.lag]]
  /\ UNCHANGED <<function, minute, due, queue, age, up, spent>>

\* Mutant of Expired: an entity that never reported counts as silent.
ExpiredEver(a, lag) == a - lag > Timeout

\* InactivityAlarmActivator.activated: who never reported does not count.
Expired(a, lag) == a # Never /\ a - lag > Timeout

\* LogicSequenceActivator, over the conditions of the alarm.
Combine(true) ==
  CASE function = "AND" -> true = Entities
    [] function = "OR"  -> true # {}
    [] function = "XOR" -> Cardinality(true) % 2 = 1

\* InactivityAlarmsJob and __build_inactivity_alarms: the alarm row and the
\* last reports.
Build(w) ==
  /\ task[w].pc = "recorded"
  /\ task' = [task EXCEPT ![w] = [pc |-> "built", up |-> up, 
                                     active |-> Combine({e \in Entities : Expired(age[e], @.lag)})]]
  /\ UNCHANGED <<function, minute, due, queue, rows, age, up, passes, racers, spent>>

\* BasicAlarm.update
Update(w) ==
  /\ task[w].pc = "built"
  /\ up' = IF task[w].up # task[w].active THEN task[w].active ELSE up
  /\ task' = [task EXCEPT ![w] = Idle]
  /\ UNCHANGED <<function, minute, due, queue, rows, age, passes, racers, spent>>

\* The process dies, or the alarm cannot be built: an error that is logged.
Killed(w) ==
  /\ task[w] # Idle /\ spent.kills < MaxKills
  /\ task' = [task EXCEPT ![w] = Idle]
  /\ spent' = [spent EXCEPT !.kills = @ + 1]
  /\ UNCHANGED <<function, minute, due, queue, rows, age, up, passes, racers>>

\* The entity reports: a row of entity_properties with a newer timestamp.
Report(e) ==
  /\ age' = [age EXCEPT ![e] = 0]
  /\ UNCHANGED <<function, minute, due, queue, rows, task, up, passes, racers, spent>>

Step(w) == LookUp(w, "regular") \/ LookUp(w, "force") \/ Record(w) \/ Build(w) \/ Update(w)

Next ==
  \/ Tick \/ Force
  \/ \E s \in Schedulers : Beat(s)
  \/ \E w \in Workers : Step(w) \/ Killed(w)
  \/ \E e \in Entities : Report(e)

Spec == Init /\ [][Next]_vars

\* The clock, the schedulers and the workers go on.
FairSpec ==
  /\ Spec /\ WF_vars(Tick)
  /\ \A s \in Schedulers : WF_vars(Beat(s))
  /\ \A w \in Workers : WF_vars(Step(w))

-----------------------------------------------------------------------------
(* Properties.                                                             *)

\* "La ejecucion queda registrada por hora para que dos programadores
\* solapados no la repitan" (check_inactivity_alarms): an hour has one pass that
\* was not forced.  Two workers that look before either records break it (see the
\* README): no run checks it.
OncePerHour ==
  \A v, w \in Workers : passes[v] + (IF v = w THEN 0 ELSE passes[w]) <= 1

\* What the code does keep, however many schedulers and workers overlap: once
\* the hour has an execution, the only regular passes are those under way when
\* it was recorded, one for each worker that had looked; a message that comes
\* later repeats nothing.
OnlyRacersRepeat == \A w \in Workers : passes[w] <= IF w \in racers THEN 1 ELSE 0

\* The alarm follows the silence: once the same entities stay silent for good
\* and the others go on reporting, it ends in the state their combination
\* gives, although passes are skipped, forced, killed or out of step with the
\* hours.
GoneSilent == {e \in Entities : age[e] \in (Timeout + 1) .. Silent}
AlarmSettles ==
  <>[][GoneSilent' = GoneSilent]_vars => <>[](up = Combine(GoneSilent))

=============================================================================
