---------------------------- MODULE RealtimeRows ----------------------------
(***************************************************************************)
(* The rows of one entity in the realtime database: its properties and one *)
(* of its commands with the pending mark.  Realtime jobs, one for each     *)
(* notification and many at a time, apply what the entity reports; the     *)
(* management API and the actions of the alarms send the command and then  *)
(* mark it pending.                                                        *)
(*                                                                         *)
(* The sessions of the worker do not autoflush: a job reads everything     *)
(* first and writes at its commit only the columns that differ from what   *)
(* it had loaded.  Nothing makes a row unique, so the rows of a property   *)
(* and of the command are sequences and a query takes the first.           *)
(***************************************************************************)
EXTENDS Integers, Sequences

CONSTANTS
  Workers,    \* processes that run realtime jobs (WORKER_CONCURRENCY)
  Values,     \* values of the command
  MaxTime,    \* bound on the clock
  MaxSends,   \* bound on the commands sent
  MaxReports, \* bound on the notifications with measures or command lists
  None        \* no value

RealtimeAssumption == MaxTime \in Nat /\ MaxSends \in Nat /\ MaxReports \in Nat

VARIABLES
  one,      \* whether the entity is a LibeliumOne
  clock,
  queue,    \* notifications that wait for a realtime job
  job,      \* job[w]: the realtime job of worker w
  rows,     \* rows[p]: the entity_properties rows of property p
  cmds,     \* the entity_commands rows of the command
  sender,   \* sender[s]: the value s has sent and not marked yet
  sent,     \* commands sent so far
  told,     \* commands whose status the IoT Agent has written in the broker
  reports,  \* notifications of the entity so far
  past      \* history: whether writers overlapped or a list came late; the
            \* newest timestamp applied to each property

stores == <<rows, cmds>>
counts == <<sent, told, reports>>
vars == <<one, clock, queue, job, stores, sender, counts, past>>

Time == 0 .. MaxTime
Senders == {"api", "alarm"}
Lists == SUBSET {"c"}

\* prop: the property it carries; status: that of the command, if it comes.
Notification ==
  [ts : Time, prop : {"measure", "commands", "none"}, list : Lists,
   status : {"none", "PENDING", "SENT"}, value : Values \cup {None}]

\* marked is history: when the mark was last raised or changed.
CommandRow ==
  [available : BOOLEAN, pending : BOOLEAN, value : Values \cup {None},
   statusTs : Time, updated : Time, marked : Time]
PropertyRow == [ts : Time, list : Lists]

Idle == [pc |-> "idle"]
Nothing == [p \in {"measure", "commands"} |-> -1]

TypeOK ==
  /\ one \in BOOLEAN /\ clock \in Time
  /\ queue \subseteq Notification
  /\ \A w \in Workers : job[w].pc \in {"idle", "loaded", "selected"}
  /\ \A p \in {"measure", "commands"} : \A i \in DOMAIN rows[p] : rows[p][i] \in PropertyRow
  /\ \A i \in DOMAIN cmds : cmds[i] \in CommandRow
  /\ sender \in [Senders -> Values \cup {None}]
  /\ sent \in 0 .. MaxSends /\ told \in 0 .. sent /\ reports \in 0 .. MaxReports

Init ==
  /\ one \in BOOLEAN
  /\ clock = 0
  /\ queue = {}
  /\ job = [w \in Workers |-> Idle]
  /\ rows = [p \in {"measure", "commands"} |-> <<>>]
  /\ cmds = <<>>
  /\ sender = [s \in Senders |-> None]
  /\ sent = 0 /\ told = 0 /\ reports = 0
  /\ past = [raced |-> FALSE, late |-> FALSE, newest |-> Nothing]

Tick ==
  /\ clock < MaxTime
  /\ clock' = clock + 1
  /\ UNCHANGED <<one, queue, job, stores, sender, counts, past>>

-----------------------------------------------------------------------------
(* The realtime job: _EntityNotificationData_to_EntityValues gives one     *)
(* value per attribute and update_entity handles them in order.            *)

First(seq, default) == IF seq = <<>> THEN default ELSE seq[1]

NewCommand == [available |-> FALSE, pending |-> FALSE, value |-> None,
               statusTs |-> 0, updated |-> 0, marked |-> 0]

\* History: a writer starts, or writes, while a job is at work.
Race == IF \E v \in Workers : job[v] # Idle
        THEN [raced |-> TRUE, late |-> TRUE, newest |-> Nothing] ELSE past

\* The SELECTs of the handlers.
Load(w, n) ==
  /\ job[w] = Idle
  /\ queue' = queue \ {n}
  /\ job' = [job EXCEPT ![w] =
       [pc |-> "loaded", n |-> n, cmd |-> cmds,
        prop |-> IF n.prop = "none" THEN <<>> ELSE rows[n.prop]]]
  /\ past' = Race
  /\ UNCHANGED <<one, clock, stores, sender, counts>>

\* Mutant of OlderMarks: the age of the mark is not compared.
OlderMarksAny(ts) == {i \in DOMAIN cmds : cmds[i].pending}

\* update_all_entity_command_status_to_pending: the marks older than the
\* newest property of the notification.
OlderMarks(ts) == {i \in DOMAIN cmds : cmds[i].pending /\ cmds[i].updated < ts}

Select(w) ==
  /\ job[w].pc = "loaded"
  /\ job' = [job EXCEPT ![w] =
       [pc |-> "selected", n |-> @.n, cmd |-> @.cmd, prop |-> @.prop, seen |-> cmds,
        older |-> IF @.n.prop = "none" THEN {} ELSE OlderMarks(@.n.ts)]]
  /\ UNCHANGED <<one, clock, queue, stores, sender, counts, past>>

\* process_commands_property_update: what the list adds or removes with
\* respect to the stored list changes, whatever the timestamps.
Availability(j, row) ==
  IF j.n.prop # "commands" \/ First(j.prop, [list |-> {}]).list = j.n.list THEN row
  ELSE [row EXCEPT !.available = "c" \in j.n.list]

\* process_command_update, with the interpreter of the type of the entity:
\* only LibeliumOne has one.  Setting the mark does not look at timestamps.
CommandStatus(j, row) ==
  IF j.n.status = "none" THEN row
  ELSE [row EXCEPT !.pending = one /\ j.n.status = "PENDING",
                   !.value = IF one THEN j.n.value ELSE @,
                   !.statusTs = IF @ < j.n.ts THEN j.n.ts ELSE @]

\* An UPDATE writes the columns that changed, and updated_at.
Write(current, loaded, new) ==
  IF new = loaded THEN current
  ELSE [[f \in DOMAIN current |-> IF new[f] # loaded[f] THEN new[f] ELSE current[f]]
         EXCEPT !.updated = clock]

\* History: a row that is pending and was not, or has another value.
Marked(before, after) ==
  [i \in DOMAIN after |->
     IF after[i].pending /\ (i \notin DOMAIN before \/ before[i] # after[i])
     THEN [after[i] EXCEPT !.marked = clock] ELSE after[i]]

\* Mutant of StoreProperty: the newest row does not win.
StorePropertyAlways(j, stored) ==
  LET row == [ts |-> j.n.ts, list |-> j.n.list] IN
  IF j.prop = <<>> THEN Append(stored, row) ELSE [stored EXCEPT ![1] = row]

\* update_entity_property: skipped unless newer than the row it loaded.
StoreProperty(j, stored) ==
  LET row == [ts |-> j.n.ts, list |-> j.n.list] IN
  IF j.prop = <<>> THEN Append(stored, row)
  ELSE IF j.prop[1].ts >= j.n.ts THEN stored
  ELSE [stored EXCEPT ![1] = row]

\* update_entity_command and the marks to clear.  A missing row is added.
StoreCommand(j) ==
  LET loaded == First(j.cmd, NewCommand)
      new    == CommandStatus(j, Availability(j, loaded))
      Cleared(i, row) == IF i \in j.older THEN [row EXCEPT !.pending = FALSE, !.value = None]
                                           ELSE row
      old == [i \in DOMAIN cmds |->
                IF j.cmd # <<>> /\ i = 1 THEN Write(cmds[1], loaded, Cleared(1, new))
                ELSE Write(cmds[i], cmds[i], Cleared(i, cmds[i]))]
  IN  IF j.cmd = <<>> /\ (j.n.status # "none" \/ new # loaded)
      THEN Append(old, [new EXCEPT !.updated = clock])
      ELSE old

\* The commit of the job.
Commit(w) ==
  LET j == job[w] IN
  /\ j.pc = "selected"
  /\ rows' = IF j.n.prop = "none" THEN rows
             ELSE [rows EXCEPT ![j.n.prop] = StoreProperty(j, @)]
  /\ cmds' = Marked(cmds, StoreCommand(j))
  /\ job' = [job EXCEPT ![w] = Idle]
  /\ past' = IF past.raced \/ j.n.prop = "none" THEN past
             ELSE [past EXCEPT
               !.late = @ \/ (j.n.prop = "commands" /\ past.newest["commands"] >= j.n.ts),
               !.newest[j.n.prop] = IF @ < j.n.ts THEN j.n.ts ELSE @]
  /\ UNCHANGED <<one, clock, queue, sender, counts>>

\* update_entity logs the error, rolls back and acknowledges the message.
Abandon(w) ==
  /\ job[w].pc = "selected"
  /\ job' = [job EXCEPT ![w] = Idle]
  /\ UNCHANGED <<one, clock, queue, stores, sender, counts, past>>

-----------------------------------------------------------------------------
(* The senders of the command.                                             *)

Available == \E i \in DOMAIN cmds : cmds[i].available

\* sendCommands checks the availability; the action of an alarm does not.
Send(s, v) ==
  /\ sender[s] = None /\ sent < MaxSends
  /\ s = "api" => Available
  /\ sent' = sent + 1
  /\ sender' = [sender EXCEPT ![s] = v]
  /\ UNCHANGED <<one, clock, queue, job, stores, told, reports, past>>

\* The mark of sendCommands: updated_at is always written.
MarkByApi ==
  /\ sender["api"] # None /\ cmds # <<>>
  /\ cmds' = Marked(cmds, [cmds EXCEPT ![1] =
       [@ EXCEPT !.pending = TRUE, !.value = sender["api"], !.updated = clock]])
  /\ sender' = [sender EXCEPT !["api"] = None]
  /\ past' = Race
  /\ UNCHANGED <<one, clock, queue, job, rows, counts>>

\* __mark_pending goes through update_entity_command: a row that already says
\* so is left as it is, with its updated_at.
MarkByAlarm ==
  /\ sender["alarm"] # None
  /\ cmds' = Marked(cmds,
       IF cmds = <<>>
       THEN <<[NewCommand EXCEPT !.pending = TRUE, !.value = sender["alarm"],
                                 !.statusTs = clock, !.updated = clock]>>
       ELSE [cmds EXCEPT ![1] =
              Write(@, @, [@ EXCEPT !.pending = TRUE, !.value = sender["alarm"]])])
  /\ sender' = [sender EXCEPT !["alarm"] = None]
  /\ past' = Race
  /\ UNCHANGED <<one, clock, queue, job, rows, counts>>

\* The mark fails and the sending is not undone.
MarkFails(s) ==
  /\ sender[s] # None
  /\ sender' = [sender EXCEPT ![s] = None]
  /\ UNCHANGED <<one, clock, queue, job, stores, counts, past>>

\* The IoT Agent writes the answer of fiware-manager as status of the command.
Tell(v) ==
  /\ told < sent
  /\ told' = told + 1
  /\ queue' = queue \cup {[ts |-> clock, prop |-> "none", list |-> {},
                           status |-> "PENDING", value |-> v]}
  /\ UNCHANGED <<one, clock, job, stores, sender, sent, reports, past>>

\* The entity reports a measure, also with the status of an executed command,
\* or the list of its commands.
Report(prop, list, status) ==
  /\ reports < MaxReports
  /\ status = "SENT" => told > 0
  /\ reports' = reports + 1
  /\ queue' = queue \cup {[ts |-> clock, prop |-> prop, list |-> list,
                           status |-> status, value |-> None]}
  /\ UNCHANGED <<one, clock, job, stores, sender, sent, told, past>>

-----------------------------------------------------------------------------

Next ==
  \/ Tick
  \/ \E w \in Workers : Select(w) \/ Commit(w) \/ Abandon(w) \/ \E n \in queue : Load(w, n)
  \/ \E s \in Senders : MarkFails(s) \/ \E v \in Values : Send(s, v)
  \/ MarkByApi \/ MarkByAlarm
  \/ \E v \in Values : Tell(v)
  \/ Report("measure", {}, "none") \/ Report("measure", {}, "SENT")
  \/ \E list \in Lists : Report("commands", list, "none")

Spec == Init /\ [][Next]_vars

-----------------------------------------------------------------------------
(* Properties.                                                             *)

\* The row a query takes is that of the newest notification applied, unless
\* two writers of the entity overlapped (update_entity_property reads and writes
\* in two steps and inserts without a unique index).
NewestWins ==
  \A p \in {"measure", "commands"} :
    ~past.raced =>
      /\ Len(rows[p]) <= 1
      /\ First(rows[p], [ts |-> -1]).ts = past.newest[p]

\* The command is available exactly when the stored list names it, unless
\* writers overlapped or a list older than one already applied came after it.
AvailableIffListed ==
  ~past.raced /\ ~past.late =>
    (Available <=> "c" \in First(rows["commands"], [list |-> {}]).list)

\* A job lowers a mark with a report only if the report was taken after the
\* mark was last raised, or it was raised again after the job looked for
\* marks: a measure taken before the command does not count as its answer.
OnlyNewerReports ==
     \A w \in Workers : \A i \in DOMAIN cmds :
       (/\ job[w] # Idle /\ job'[w] = Idle /\ job[w].n.status = "none"
        /\ cmds[i].pending /\ ~cmds'[i].pending)
       => job[w].n.ts > cmds[i].marked \/ cmds[i] # job[w].seen[i]
MarkOutlivesOldReports == [][OnlyNewerReports]_vars

\* Both: what a query finds is what was last notified.
RowsCurrent == NewestWins /\ AvailableIffListed

=============================================================================
