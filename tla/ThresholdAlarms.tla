--------------------------- MODULE ThresholdAlarms ---------------------------
(***************************************************************************)
(* One threshold alarm with a condition on each measure of Measures, which *)
(* entities report in notifications.  Every notification enqueues an       *)
(* AlarmsJob once its values are in the time series.  The job takes the    *)
(* alarm, completes the values with the series, decides, stores the new    *)
(* state and runs the actions of the transition.                           *)
(***************************************************************************)
EXTENDS Integers, Sequences, FiniteSets

CONSTANTS
  Workers,   \* processes that run alarm jobs
  Measures,  \* the measures the conditions of the alarm name
  Alarms,    \* the configurations of the alarm to check
  Value,     \* the values of a measure, as numbers
  MaxTime,   \* bound on the clock
  MaxReports \* bound on the notifications

VARIABLES
  alarm,    \* its function, its conditions and the channels of its actions
  clock,
  series,   \* the time series: the values of every notification
  queue,    \* notifications that wait for an AlarmsJob
  up,       \* alarms.up
  job,      \* job[w]: the job of worker w
  alert,    \* history: the last transition whose actions were started
  clean     \* history: no overlap, kill, failed read or late notification

vars == <<alarm, clock, series, queue, up, job, alert, clean>>

Time == 0 .. MaxTime
Triggers == {"UP", "DOWN"}
Channels == {"notification", "email", "http_push", "entity_command"}
Notification == [m : Measures, ts : Time, v : Value]

\* period: the instants within the time scopes of the condition.
Condition ==
  [op : {"eq", "ne", "gt", "lt", "ge", "le", "between", "not_between"},
   a : Value, b : Value, period : SUBSET Time]
AlarmConfig ==
  [function : {"AND", "OR", "XOR"}, conditions : [Measures -> Condition],
   actions : [Triggers -> SUBSET Channels]]

AlarmAssumption ==
  /\ MaxTime \in Nat /\ MaxReports \in Nat
  /\ Alarms \subseteq AlarmConfig

Idle == [pc |-> "idle"]

TypeOK ==
  /\ alarm \in Alarms
  /\ clock \in Time
  /\ series \subseteq Notification /\ queue \subseteq series
  /\ up \in BOOLEAN
  /\ \A w \in Workers : job[w].pc \in {"idle", "loaded", "decided", "acting"}
  /\ alert \in Triggers
  /\ clean \in BOOLEAN

Init ==
  /\ alarm \in Alarms
  /\ clock = 0
  /\ series = {} /\ queue = {}
  /\ up = FALSE /\ alert = "DOWN"
  /\ job = [w \in Workers |-> Idle]
  /\ clean = TRUE

-----------------------------------------------------------------------------
(* The decision.                                                           *)

\* OPERATOR_FUNCTIONS, once the operands have been made numbers.
Holds(c, x) ==
  CASE c.op = "eq" -> x = c.a
    [] c.op = "ne" -> x # c.a
    [] c.op = "gt" -> x > c.a
    [] c.op = "lt" -> x < c.a
    [] c.op = "ge" -> x >= c.a
    [] c.op = "le" -> x <= c.a
    [] c.op = "between" -> c.a <= x /\ x <= c.b
    [] c.op = "not_between" -> x < c.a \/ x > c.b

\* LogicSequenceActivator: the reduction of the conditions that have a value,
\* none of which is FALSE.
Combine(function, results) ==
  LET true == {m \in DOMAIN results : results[m]} IN
  CASE function = "AND" -> true # {} /\ true = DOMAIN results
    [] function = "OR"  -> true # {}
    [] function = "XOR" -> Cardinality(true) % 2 = 1

\* BasicAlarmBuilder.build and its activators: outside its period, by the
\* timestamp of the notification, a condition does not hold; without a value
\* it is left out.
Activated(values, ts) ==
  Combine(alarm.function,
    [m \in DOMAIN values |->
       ts \in alarm.conditions[m].period /\ Holds(alarm.conditions[m], values[m])])

\* __get_not_updated_measures asks for the two last values up to the
\* notification and keeps the newest one strictly before it.
Previous(ts, m) ==
  {e \in series : e.m = m /\ e.ts < ts /\ \A d \in series : d.m = m /\ d.ts < ts => d.ts <= e.ts}

\* The values of the job: its own measure from the notification, the others
\* from the series, or none of them if the series cannot be read.
Values(n, readable) ==
  LET known == {n.m} \cup {m \in Measures : readable /\ Previous(n.ts, m) # {}} IN
  [m \in known |-> IF m = n.m THEN n.v ELSE (CHOOSE e \in Previous(n.ts, m) : TRUE).v]

-----------------------------------------------------------------------------
(* The job.                                                                *)

Busy == \E w \in Workers : job[w] # Idle

\* AlarmsJob.handle and get_related_basic_alarms: the row of the alarm.
Load(w, n) ==
  /\ job[w] = Idle
  /\ queue' = queue \ {n}
  /\ job' = [job EXCEPT ![w] = [pc |-> "loaded", n |-> n, up |-> up]]
  /\ clean' = (clean /\ ~Busy /\ \A e \in series \ queue : e.ts < n.ts)
  /\ UNCHANGED <<alarm, clock, series, up, alert>>

\* The rest of the build: the series, which may fail, and the activators.
Decide(w, readable) ==
  /\ job[w].pc = "loaded"
  /\ job' = [job EXCEPT ![w] = [pc |-> "decided", up |-> @.up,
                                active |-> Activated(Values(@.n, readable), @.n.ts)]]
  /\ clean' = (clean /\ readable)
  /\ UNCHANGED <<alarm, clock, series, queue, up, alert>>

Trigger(active) == IF active THEN "UP" ELSE "DOWN"

\* get_alarm_actions: the actions of the transition, channel by channel.
Actions(active) ==
  LET Of(channel) == IF channel \in alarm.actions[Trigger(active)] THEN <<channel>> ELSE <<>>
  IN  Of("notification") \o Of("email") \o Of("http_push") \o Of("entity_command")

\* Mutant of Update: the state the job had read is not compared.
UpdateAlways(w) ==
  /\ job[w].pc = "decided"
  /\ LET active == job[w].active IN
     /\ up' = active
     /\ alert' = Trigger(active)
     /\ job' = [job EXCEPT ![w] = [pc |-> "acting", log |-> <<>>, left |-> Actions(active)]]
  /\ UNCHANGED <<alarm, clock, series, queue, clean>>

\* BasicAlarm.update: without a transition nothing else happens; with one the
\* state is committed and then the actions start.
Update(w) ==
  /\ job[w].pc = "decided"
  /\ LET active == job[w].active IN
     IF job[w].up = active
     THEN job' = [job EXCEPT ![w] = Idle] /\ UNCHANGED <<up, alert>>
     ELSE /\ up' = active
          /\ alert' = Trigger(active)
          /\ job' = [job EXCEPT ![w] = [pc |-> "acting", log |-> <<>>, left |-> Actions(active)]]
  /\ UNCHANGED <<alarm, clock, series, queue, clean>>

\* How a sender ends: Telegram, SMS or WhatsApp, ...
MessageSent == {"ok", "not_configured", "error"}

\* ... the mail server, which also needs an addressee, ...
EmailSent == {"ok", "not_configured", "error"}

\* ... or the HTTP push, which needs a list of destinations that has its own.
PushSent == {"ok", "not_configured", "not_allowed", "error"}

\* NotificationAction.run tells no failure from another.
NotificationLog(outcome) == IF outcome = "ok" THEN {"info"} ELSE {"error"}

\* EmailAction.run warns when the channel is not configured.
EmailLog(outcome) ==
  CASE outcome = "ok" -> {"info"} [] outcome = "not_configured" -> {"warning"}
    [] OTHER -> {"error"}

\* HttpPushAction.run does too, and a destination not allowed is an error.
PushLog(outcome) ==
  CASE outcome = "ok" -> {"info"} [] outcome = "not_configured" -> {"warning"}
    [] OTHER -> {"error"}

\* EntityCommandAction.run: no commands, or those sent and those that failed.
CommandLogs == {{"warning"}, {"info"}, {"error"}, {"info", "error"}}

Logs(channel) ==
  CASE channel = "notification" -> {NotificationLog(o) : o \in MessageSent}
    [] channel = "email" -> {EmailLog(o) : o \in EmailSent}
    [] channel = "http_push" -> {PushLog(o) : o \in PushSent}
    [] channel = "entity_command" -> CommandLogs

\* One action and the lines it logs; its failure does not reach the others.
Act(w, log) ==
  /\ job[w].pc = "acting" /\ job[w].left # <<>>
  /\ log \in Logs(Head(job[w].left))
  /\ job' = [job EXCEPT ![w].left = Tail(@), ![w].log = Append(@, Head(job[w].left))]
  /\ UNCHANGED <<alarm, clock, series, queue, up, alert, clean>>

Finish(w) ==
  /\ job[w].pc = "acting" /\ job[w].left = <<>>
  /\ job' = [job EXCEPT ![w] = Idle]
  /\ UNCHANGED <<alarm, clock, series, queue, up, alert, clean>>

\* The time limit of the task, or a restart: the message was acknowledged.
Kill(w) ==
  /\ job[w] # Idle
  /\ job' = [job EXCEPT ![w] = Idle]
  /\ clean' = FALSE
  /\ UNCHANGED <<alarm, clock, series, queue, up, alert>>

\* An entity reports a value: the row, then the job.
Report(m, v) ==
  /\ Cardinality(series) < MaxReports
  /\ \A e \in series : e.m = m => e.ts < clock
  /\ series' = series \cup {[m |-> m, ts |-> clock, v |-> v]}
  /\ queue' = queue \cup {[m |-> m, ts |-> clock, v |-> v]}
  /\ UNCHANGED <<alarm, clock, up, job, alert, clean>>

Tick ==
  /\ clock < MaxTime
  /\ clock' = clock + 1
  /\ UNCHANGED <<alarm, series, queue, up, job, alert, clean>>

Next ==
  \/ Tick
  \/ \E m \in Measures, v \in Value : Report(m, v)
  \/ \E w \in Workers :
       \/ \E n \in queue : Load(w, n)
       \/ \E readable \in BOOLEAN : Decide(w, readable)
       \/ Update(w) \/ Finish(w) \/ Kill(w)
       \/ \E log \in SUBSET {"info", "warning", "error"} : Act(w, log)

Spec == Init /\ [][Next]_vars

-----------------------------------------------------------------------------
(* Properties.                                                             *)

\* The last value of every measure that has one, and the decision on them.
Latest ==
  [m \in {e.m : e \in series} |->
     (CHOOSE e \in series : e.m = m /\ \A d \in series : d.m = m => d.ts <= e.ts).v]
Newest == CHOOSE t \in Time : (\E e \in series : e.ts = t) /\ \A e \in series : e.ts <= t

\* Nobody is told twice in a row that the alarm went up, or down, unless jobs
\* overlapped or died: the comparison with a state read earlier is enough
\* while jobs run one at a time.
Alternates ==
  \A w \in Workers : (job[w].pc = "decided" /\ job'[w].pc = "acting" /\ clean)
       => alert' # alert

\* An action that fails stops none of the others: when a job ends by itself
\* after a transition, the log has one line for each of its actions.
EveryActionTried ==
  \A w \in Workers :
    (job[w].pc = "acting" /\ job'[w] = Idle /\ clean')
      => {job[w].log[i] : i \in DOMAIN job[w].log} = alarm.actions[alert]

\* Both: each change of the alarm is told once and through all its channels.
AlertsSound == [][Alternates /\ EveryActionTried]_vars

=============================================================================
