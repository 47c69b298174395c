----------------------------- MODULE EtlSchedule -----------------------------
(***************************************************************************)
(* The scheduling of the crowd ETLs.  A task for all the users cuts the    *)
(* range it is asked for into windows and enqueues a job for each window   *)
(* and user; each job is looked up in etl_executions by its parameters,    *)
(* recorded there and executed, in separate steps.  Dates are days from    *)
(* the first of a month; the hourly ETLs use the same rules with hours.    *)
(***************************************************************************)
EXTENDS Integers, Sequences, FiniteSets

CONSTANTS
  Workers,      \* processes that run the jobs
  Users,        \* administrators of an organization
  Kinds,        \* ETLs to schedule
  MonthLengths, \* lengths of the months of the calendar
  FirstWeekday, \* weekday of day 0, 0 for Monday
  Ranges,       \* ranges of days that may be asked for, as pairs
  MaxAsked      \* bound on the requests

ScheduleAssumption ==
  /\ MonthLengths \in Seq(1 .. 31) /\ FirstWeekday \in 0 .. 6 /\ MaxAsked \in Nat

VARIABLES
  asked,      \* requests so far, and the windows each was cut into
  all,        \* the task for all the users that is running
  version,    \* version[u]: the entities user u may read, 0 for none
  queue,      \* jobs published
  executions, \* parameters in etl_executions
  task,       \* task[w]: the job worker w runs
  runs,       \* history: the jobs executed, one record for each time
  unsafe      \* history: whether jobs raced or were killed, or a task failed

vars == <<asked, all, version, queue, executions, task, runs, unsafe>>

-----------------------------------------------------------------------------
(* The calendar.                                                           *)

Months == DOMAIN MonthLengths
First[m \in 1 .. Len(MonthLengths) + 1] == IF m = 1 THEN 0 ELSE First[m - 1] + MonthLengths[m - 1]
Days == 0 .. First[Len(MonthLengths) + 1]

Month(d) == CHOOSE m \in 1 .. Len(MonthLengths) + 1 : First[m] <= d /\ \A k \in m + 1 .. Len(MonthLengths) + 1 : First[k] > d
DayOfMonth(d) == d - First[Month(d)] + 1
Weekday(d) == (d + FirstWeekday) % 7

Window(kind, from, to) == [kind |-> kind, from |-> from, to |-> to]

\* A loop from start while before end, by the steps of Step.
Loop(kind, start, end, Step(_)) ==
  LET from[d \in Days] == IF d >= end THEN {} ELSE {Window(kind, d, Step(d))} \cup
                            (IF Step(d) \in Days THEN from[Step(d)] ELSE {})
  IN  from[start]

\* ProcessVisitorsAll.__start_jobs: unit after unit (hours in the code).
VisitorWindows(start, end) == Loop("visitors", start, end, LAMBDA d : d + 1)

\* CrowdFlowsMunicipalityAll.__start_jobs
FlowWindows(start, end) == Loop("flows", start, end, LAMBDA d : d + 1)

\* DataCacheCrowdAll.__start_jobs
CacheWindows(start, end) == Loop("cache", start, end, LAMBDA d : d + 1)

\* CrowdClassificationAll.__start_jobs: weeks, from a Wednesday only; the
\* last one may end later than asked.
WeekWindows(start, end) ==
  IF Weekday(start) # 2 THEN {} ELSE Loop("weekly", start, end, LAMBDA d : d + 7)

\* 31 days later, on the first of the month.
NextMonth(d) == IF d + 31 \in Days THEN First[Month(d + 31)] ELSE First[Len(MonthLengths) + 1]

\* CrowdClassificationOneUser.generate_jobs: whole months, both ends cut to
\* the first of their month.
MonthWindows(start, end) ==
  Loop("monthly", First[Month(start)], First[Month(end)], NextMonth)

\* get_period_start_from_end
PeriodStart(mode, end) ==
  CASE mode = "Daily" -> end - 1
    [] mode = "Weekly" -> end - 7
    [] mode = "Biweekly" -> end - 14
    [] mode = "Monthly" -> First[Month(end) - 1]

\* CrowdUniqueVisitorsAll.start_jobs: day after day, and at the end of each
\* week, half month and month the period that ends there.
UniqueWindows(start, end) ==
  LET ends == start + 1 .. end
      Modes(d) == {"Daily"} \cup (IF Weekday(d) = 0 THEN {"Weekly"} ELSE {})
                    \cup (IF DayOfMonth(d) = 1 THEN {"Monthly", "Biweekly"} ELSE {})
                    \cup (IF DayOfMonth(d) = 16 THEN {"Biweekly"} ELSE {})
  IN  UNION {{Window(m, PeriodStart(m, d), d) : m \in Modes(d)} : d \in ends}

Windows(kind, start, end) ==
  CASE kind = "visitors" -> VisitorWindows(start, end)
    [] kind = "flows"    -> FlowWindows(start, end)
    [] kind = "cache"    -> CacheWindows(start, end)
    [] kind = "weekly"   -> IF start > end THEN {} ELSE WeekWindows(start, end)
    [] kind = "monthly"  -> IF start > end THEN {} ELSE MonthWindows(start, end)
    [] kind = "unique"   -> IF start > end THEN {} ELSE UniqueWindows(start, end)

-----------------------------------------------------------------------------

Idle == [pc |-> "idle"]

TypeOK ==
  /\ Len(asked) <= MaxAsked
  /\ all.pc \in {"idle", "running"}
  /\ version \in [Users -> 0 .. 2]
  /\ \A j \in queue : j.user \in Users /\ j.n \in DOMAIN asked
  /\ \A e \in executions : e.user \in Users
  /\ \A w \in Workers : task[w].pc \in {"idle", "looked", "recorded"}
  /\ unsafe \in BOOLEAN

Init ==
  /\ asked = <<>> /\ all = Idle
  /\ version \in [Users -> {0, 1}]
  /\ queue = {} /\ executions = {}
  /\ task = [w \in Workers |-> Idle]
  /\ runs = {} /\ unsafe = FALSE

\* A request of /publish, or the task of the scheduler; organization narrows
\* the users down to one administrator.
Ask(kind, range, force, users) ==
  /\ all = Idle /\ Len(asked) < MaxAsked
  /\ asked' = Append(asked, [kind |-> kind, start |-> range[1], end |-> range[2],
                             windows |-> Windows(kind, range[1], range[2])])
  /\ all' = [pc |-> "running", users |-> users, force |-> force]
  /\ UNCHANGED <<version, queue, executions, task, runs, unsafe>>

\* handle, for one user: __start_jobs, unless no entity can be read.
StartJobs(u) ==
  /\ all.pc = "running" /\ u \in all.users
  /\ all' = [all EXCEPT !.users = @ \ {u}]
  /\ queue' = queue \cup
       (IF version[u] = 0 THEN {}
        ELSE {[n |-> Len(asked), user |-> u, entities |-> version[u], window |-> x,
               force |-> all.force] : x \in asked[Len(asked)].windows})
  /\ UNCHANGED <<asked, version, executions, task, runs, unsafe>>

EndAll ==
  /\ all.pc = "running" /\ all.users = {}
  /\ all' = Idle
  /\ UNCHANGED <<asked, version, queue, executions, task, runs, unsafe>>

\* An exception is logged and the users that are left get nothing.
AllFails ==
  /\ all.pc = "running" /\ all.users # {}
  /\ all' = Idle /\ unsafe' = TRUE
  /\ UNCHANGED <<asked, version, queue, executions, task, runs>>

\* The permissions of a user change between two requests.
Grant(u) ==
  /\ version[u] < 2
  /\ version' = [version EXCEPT ![u] = @ + 1]
  /\ UNCHANGED <<asked, all, queue, executions, task, runs, unsafe>>

\* request.model_dump(): the whole request, with its entities and its force.
Params(j) == [user |-> j.user, entities |-> j.entities, window |-> j.window, force |-> j.force]

\* Mutant of LookUp: found or not, the ETL is executed.
LookUpIgnored(w, j) ==
  /\ task[w] = Idle
  /\ queue' = queue \ {j}
  /\ task' = [task EXCEPT ![w] = [pc |-> "looked", job |-> j, found |-> Params(j) \in executions]]
  /\ unsafe' = (unsafe \/ \E v \in Workers : task[v].pc = "looked" /\ Params(task[v].job) = Params(j))
  /\ UNCHANGED <<asked, all, version, executions, runs>>

\* The job looks for its parameters; found, it ends unless it is forced.
LookUp(w, j) ==
  /\ task[w] = Idle
  /\ queue' = queue \ {j}
  /\ task' = IF Params(j) \in executions /\ ~j.force THEN task
             ELSE [task EXCEPT ![w] = [pc |-> "looked", job |-> j,
                                       found |-> Params(j) \in executions]]
  /\ unsafe' = (unsafe \/ \E v \in Workers : task[v].pc = "looked" /\ Params(task[v].job) = Params(j))
  /\ UNCHANGED <<asked, all, version, executions, runs>>

\* create_etl_execution, if there was none.
Record(w) ==
  /\ task[w].pc = "looked"
  /\ executions' = executions \cup {Params(task[w].job)}
  /\ task' = [task EXCEPT ![w] = [pc |-> "recorded", job |-> @.job]]
  /\ UNCHANGED <<asked, all, version, queue, runs, unsafe>>

\* execute_once, which may end in -1: the record stays.
Execute(w) ==
  /\ task[w].pc = "recorded"
  /\ runs' = runs \cup {task[w].job}
  /\ task' = [task EXCEPT ![w] = Idle]
  /\ UNCHANGED <<asked, all, version, queue, executions, unsafe>>

\* The process is killed; the record stays.
Killed(w) ==
  /\ task[w] # Idle
  /\ task' = [task EXCEPT ![w] = Idle]
  /\ unsafe' = TRUE
  /\ UNCHANGED <<asked, all, version, queue, executions, runs>>

Next ==
  \/ \E k \in Kinds, r \in Ranges, f \in BOOLEAN, us \in {Users} \cup {{u} : u \in Users} :
       Ask(k, r, f, us)
  \/ \E u \in Users : StartJobs(u) \/ Grant(u)
  \/ EndAll \/ AllFails
  \/ \E w \in Workers : Record(w) \/ Execute(w) \/ Killed(w) \/ \E j \in queue : LookUp(w, j)

Spec == Init /\ [][Next]_vars

-----------------------------------------------------------------------------
(* Properties.                                                             *)

\* The windows of a request leave no day of the range out and take none
\* twice, although months differ in length and both ends are cut: all of the
\* range for hours and days, from its Wednesday for weeks, whole months.
WindowsTile ==
  \A i \in DOMAIN asked :
    LET r == asked[i]
        Covers(d) == {x \in r.windows : x.kind # "Biweekly" /\ x.from <= d /\ d < x.to}
        Of(mode) == {x \in r.windows : x.kind = mode}
    IN  /\ \A d \in Days : \A x, y \in Covers(d) : x.kind = y.kind => x = y
        /\ r.kind \in {"visitors", "flows", "cache"} =>
             \A d \in Days : (r.start <= d /\ d < r.end) <=> Covers(d) # {}
        /\ r.kind = "weekly" /\ Weekday(r.start) = 2 =>
             \A d \in Days : (r.start <= d /\ d < r.end) => Covers(d) # {}
        /\ r.kind = "monthly" =>
             \A x \in r.windows : DayOfMonth(x.from) = 1 /\ Month(x.to) = Month(x.from) + 1
        /\ r.kind = "unique" =>
             \A m \in Months : First[m] >= r.start /\ First[m + 1] <= r.end =>
               /\ \A d \in First[m] .. First[m + 1] - 1 : \E x \in Covers(d) : x.kind = "Monthly"
               /\ \A d \in First[m] .. First[m + 1] - 1 : \E x \in Covers(d) : x.kind = "Daily"

\* Every window asked for is executed once for the same entities, and every
\* time it is forced, unless two workers looked it up together, one was killed
\* or the task for all the users failed: however requests overlap.
ExecutedOnce ==
  ~unsafe =>
    /\ \A a, b \in runs : ~a.force /\ Params(a) = Params(b) => a = b
    /\ \A e \in executions :
         \/ \E r \in runs : [user |-> r.user, entities |-> r.entities,
                             window |-> r.window, force |-> r.force] = e
         \/ \E w \in Workers : task[w].pc = "recorded" /\ Params(task[w].job) = e

\* A day of a range belongs to one window, and that window runs once.
WindowsOnce == WindowsTile /\ ExecutedOnce

=============================================================================
