------------------------- MODULE OutConnectorHealth -------------------------
(***************************************************************************)
(* The health of one out connector: the jobs that send through it          *)
(* (OutConnectorJob, one per notification, many at a time), the count of   *)
(* failures, the deactivation, and the requests of the management API that *)
(* activate, deactivate or delete it.                                      *)
(*                                                                         *)
(* Each crud call is one transaction.  The ORMs write only the columns     *)
(* that differ from the row they loaded, so the loaded row is part of the  *)
(* state.  The code only compares retries with 0 and NumMaxRetries and an  *)
(* instant with the window, so the count stops at NumMaxRetries and an     *)
(* instant is its age, which stops at Window: time and jobs are unbounded. *)
(***************************************************************************)
EXTENDS OutConnectorParameters

VARIABLES
  status,   \* out_connectors.status; "deleted": the row is gone
  retries,  \* out_connectors.retries
  lastAge,  \* age of out_connectors.last_connection; Window if null
  broker,   \* whether the external MQTT broker can be reached
  pc,       \* pc[w]: where worker w is in OutConnectorJob.handle
  row,      \* row[w]: status and retries of the row worker w has loaded
  stamp,    \* stamp[w]: age of the instant the success of w will store
  apc,      \* apc[a]: "idle", or the status request a is about to save
  arow,     \* arow[a]: the row request a has loaded
  kills,    \* jobs killed so far
  streak,   \* failed sends since the last confirmed one
  okAge     \* age of the last send the broker confirmed

rowVars   == <<status, retries, lastAge>>
jobVars   == <<pc, row, stamp>>
adminVars == <<apc, arow>>
history   == <<streak, okAge>>
vars == <<rowVars, broker, jobVars, adminVars, kills, history>>

Count == 0 .. NumMaxRetries
Age   == 0 .. Window
Rows  == [status : {"active", "inactive"}, retries : Count]
Requests == {"active", "inactive"}

More(c)  == IF c < NumMaxRetries THEN c + 1 ELSE c
Older(a) == IF a < Window THEN a + 1 ELSE a

TypeOK ==
  /\ status \in {"active", "inactive", "deleted"}
  /\ retries \in Count
  /\ lastAge \in Age
  /\ broker \in {"up", "down"}
  /\ pc \in [Workers -> {"idle", "sending", "reset", "now", "connect", "failed", "check", "deactivate"}]
  /\ row \in [Workers -> Rows]
  /\ stamp \in [Workers -> Age]
  /\ apc \in [Admins -> Requests \cup {"idle"}]
  /\ arow \in [Admins -> Rows]
  /\ kills \in 0 .. MaxKills
  /\ streak \in Count
  /\ okAge \in Age

Init ==
  /\ status = "active" /\ retries = 0 /\ lastAge = Window
  /\ broker = "up"
  /\ pc = [w \in Workers |-> "idle"]
  /\ row = [w \in Workers |-> [status |-> "active", retries |-> 0]]
  /\ stamp = [w \in Workers |-> 0]
  /\ apc = [a \in Admins |-> "idle"]
  /\ arow = [a \in Admins |-> [status |-> "active", retries |-> 0]]
  /\ kills = 0
  /\ streak = 0 /\ okAge = Window

-----------------------------------------------------------------------------
(* The job.                                                                *)

Exists == status # "deleted"
Stored == [status |-> status, retries |-> retries]

Goto(w, label) == pc' = [pc EXCEPT ![w] = label]

\* Mutant of Start: the status of the queued copy is trusted.
StartUnchecked(w) ==
  /\ pc[w] = "idle"
  /\ Exists
  /\ Goto(w, "sending")
  /\ row' = [row EXCEPT ![w] = Stored]
  /\ UNCHANGED <<rowVars, broker, stamp, adminVars, kills, history>>

\* handle reads the connector afresh; a missing or inactive one is skipped.
Start(w) ==
  /\ pc[w] = "idle"
  /\ status = "active"
  /\ Goto(w, "sending")
  /\ row' = [row EXCEPT ![w] = Stored]
  /\ UNCHANGED <<rowVars, broker, stamp, adminVars, kills, history>>

NothingToSend(w) ==
  /\ pc[w] = "sending"
  /\ Goto(w, "idle")
  /\ UNCHANGED <<rowVars, broker, row, stamp, adminVars, kills, history>>

\* Mutant of SendOk: the count is never reset.
SendOkKeepsCount(w) ==
  /\ pc[w] = "sending"
  /\ broker = "up"
  /\ Goto(w, "now")
  /\ streak' = 0
  /\ okAge' = 0
  /\ UNCHANGED <<rowVars, broker, row, stamp, adminVars, kills>>

\* The broker confirms every message.  The count the job loaded before it
\* sent decides whether there is something to reset.
SendOk(w) ==
  /\ pc[w] = "sending"
  /\ broker = "up"
  /\ Goto(w, IF row[w].retries > 0 THEN "reset" ELSE "now")
  /\ streak' = 0
  /\ okAge' = 0
  /\ UNCHANGED <<rowVars, broker, row, stamp, adminVars, kills>>

SendFails(w) ==
  /\ pc[w] = "sending"
  /\ Goto(w, "failed")
  /\ streak' = More(streak)
  /\ UNCHANGED <<rowVars, broker, row, stamp, adminVars, kills, okAge>>

\* update_out_connector(retries = 0); on a deleted row it raises.
Reset(w) ==
  /\ pc[w] = "reset"
  /\ IF Exists THEN retries' = 0 /\ Goto(w, "now") ELSE Goto(w, "idle") /\ UNCHANGED retries
  /\ UNCHANGED <<status, lastAge, broker, row, stamp, adminVars, kills, history>>

\* datetime.now(), the argument of the next call.
TakeNow(w) ==
  /\ pc[w] = "now"
  /\ Goto(w, "connect")
  /\ stamp' = [stamp EXCEPT ![w] = 0]
  /\ UNCHANGED <<rowVars, broker, row, adminVars, kills, history>>

\* Mutant of Connect: last_connection is written whatever is stored.
ConnectAlways(w) ==
  /\ pc[w] = "connect"
  /\ Goto(w, "idle")
  /\ lastAge' = stamp[w]
  /\ UNCHANGED <<status, retries, broker, row, stamp, adminVars, kills, history>>

\* update_out_connector_last_connection_if_newer
Connect(w) ==
  /\ pc[w] = "connect"
  /\ Goto(w, "idle")
  /\ lastAge' = IF Exists /\ stamp[w] < lastAge THEN stamp[w] ELSE lastAge
  /\ UNCHANGED <<status, retries, broker, row, stamp, adminVars, kills, history>>

\* Mutant of CountFailure: a failed attempt also counts as a connection.
CountFailureConnects(w) ==
  /\ pc[w] = "failed"
  /\ IF Exists THEN retries' = More(retries) /\ lastAge' = 0 /\ Goto(w, "check")
               ELSE Goto(w, "idle") /\ UNCHANGED <<retries, lastAge>>
  /\ UNCHANGED <<status, broker, row, stamp, adminVars, kills, history>>

\* update_out_connector_retries: an atomic increment.
CountFailure(w) ==
  /\ pc[w] = "failed"
  /\ IF Exists THEN retries' = More(retries) /\ Goto(w, "check")
               ELSE Goto(w, "idle") /\ UNCHANGED retries
  /\ UNCHANGED <<status, lastAge, broker, row, stamp, adminVars, kills, history>>

\* The row is loaded again.  Too few failures or a recent success: nothing.
Check(w) ==
  /\ pc[w] = "check"
  /\ IF Exists /\ retries >= NumMaxRetries /\ lastAge >= Window
     THEN Goto(w, "deactivate") /\ row' = [row EXCEPT ![w] = Stored]
     ELSE Goto(w, "idle") /\ UNCHANGED row
  /\ UNCHANGED <<rowVars, broker, stamp, adminVars, kills, history>>

\* Mutant of Deactivate: the connector is marked with the error status.
DeactivateAsError(w) ==
  /\ pc[w] = "deactivate"
  /\ Goto(w, "idle")
  /\ status' = IF Exists /\ row[w].status = "active" THEN "error" ELSE status
  /\ retries' = IF Exists THEN 0 ELSE retries
  /\ UNCHANGED <<lastAge, broker, row, stamp, adminVars, kills, history>>

\* update_out_connector(status = inactive, retries = 0)
Deactivate(w) ==
  /\ pc[w] = "deactivate"
  /\ Goto(w, "idle")
  /\ status' = IF Exists /\ row[w].status = "active" THEN "inactive" ELSE status
  /\ retries' = IF Exists THEN 0 ELSE retries
  /\ UNCHANGED <<lastAge, broker, row, stamp, adminVars, kills, history>>

\* The job is killed and its message, acked on delivery, is gone.
Kill(w) ==
  /\ pc[w] # "idle"
  /\ kills < MaxKills
  /\ kills' = kills + 1
  /\ Goto(w, "idle")
  /\ UNCHANGED <<rowVars, broker, row, stamp, adminVars, history>>

-----------------------------------------------------------------------------
(* The management API and the environment.                                 *)

\* OutConnectorController.updateStatus loads the connector ...
AdminLoad(a, request) ==
  /\ apc[a] = "idle"
  /\ Exists
  /\ apc' = [apc EXCEPT ![a] = request]
  /\ arow' = [arow EXCEPT ![a] = Stored]
  /\ UNCHANGED <<rowVars, broker, jobVars, kills, history>>

\* ... and saves the columns that differ from what it loaded.
AdminSave(a) ==
  /\ apc[a] # "idle"
  /\ apc' = [apc EXCEPT ![a] = "idle"]
  /\ status' = IF Exists /\ apc[a] # arow[a].status THEN apc[a] ELSE status
  /\ retries' = IF Exists /\ apc[a] = "active" /\ arow[a].retries # 0 THEN 0 ELSE retries
  /\ UNCHANGED <<lastAge, broker, jobVars, arow, kills, history>>

\* OutConnectorController.destroy
Delete ==
  /\ Admins # {}
  /\ Exists
  /\ status' = "deleted"
  /\ UNCHANGED <<retries, lastAge, broker, jobVars, adminVars, kills, history>>

Tick ==
  /\ lastAge' = Older(lastAge)
  /\ okAge' = Older(okAge)
  /\ stamp' = [w \in Workers |-> IF pc[w] = "connect" THEN Older(stamp[w]) ELSE stamp[w]]
  /\ UNCHANGED <<status, retries, broker, pc, row, adminVars, kills, streak>>

BrokerChanges ==
  /\ broker' \in {"up", "down"} \ {broker}
  /\ UNCHANGED <<rowVars, jobVars, adminVars, kills, history>>

-----------------------------------------------------------------------------

JobStep(w) ==
  \/ NothingToSend(w) \/ SendOk(w) \/ SendFails(w) \/ Reset(w) \/ TakeNow(w)
  \/ Connect(w) \/ CountFailure(w) \/ Check(w) \/ Deactivate(w)

Next ==
  \/ \E w \in Workers : Start(w) \/ JobStep(w) \/ Kill(w)
  \/ \E a \in Admins : AdminSave(a) \/ \E request \in Requests : AdminLoad(a, request)
  \/ Delete \/ Tick \/ BrokerChanges

Spec == Init /\ [][Next]_vars

\* Data keeps arriving for an active connector and each of its jobs has
\* something to send now and then; the processes run; time passes.
Fairness ==
  /\ WF_vars(Tick)
  /\ \A w \in Workers :
       WF_vars(Start(w)) /\ WF_vars(JobStep(w)) /\ SF_vars(SendOk(w) \/ SendFails(w))

FairSpec == Spec /\ Fairness

-----------------------------------------------------------------------------
(* Properties.                                                             *)

\* No worker still has a confirmed send to register.
AllRegistered == \A w \in Workers : pc[w] \notin {"reset", "now", "connect"}

\* When every success has been registered, last_connection is at least as
\* recent as the last send the broker confirmed: a slow job never puts an
\* older instant back.
LastConnectionIsLatest ==
  Exists /\ kills = 0 /\ AllRegistered => lastAge <= okAge

\* A deactivated or deleted connector stops: no send starts, only the ones in
\* flight end.
NoSendStarts ==
  status # "active" => \A w \in Workers : pc'[w] = "sending" => pc[w] = "sending"
StopsSending == [][NoSendStarts]_vars

DeactivatedBy(w) ==
  pc[w] = "deactivate" /\ status = "active" /\ status' = "inactive"

\* "Si un conector falla NUM_MAX_RETRIES veces seguidas": a job deactivates the
\* connector only after that many failures in a row (at a moment when no success
\* is on its way to the database).
ConsecutiveFailures ==
  [][\A w \in Workers :
       DeactivatedBy(w) /\ AllRegistered => streak >= NumMaxRetries]_vars

\* One job at a time deactivates the connector only after NUM_MAX_RETRIES
\* failures in a row and with no confirmed send within the window, however
\* successes, failures, requests of the API and the clock alternate.
Justified ==
  \A w \in Workers : DeactivatedBy(w) => streak >= NumMaxRetries /\ okAge >= Window
DeactivationJustified == [][Justified]_vars

\* "Activating clears the failure count, so a connector the worker deactivated
\* after repeated failures starts again from zero" (OutConnectorController).
ActivationStartsFromZero ==
  [][\A a \in Admins :
       (apc[a] = "active" /\ apc'[a] = "idle" /\ arow[a].status = "inactive" /\ Exists)
         => retries' = 0]_vars

\* A connector whose broker is gone for good does not stay active for ever,
\* whatever jobs overlap and whatever they had read.
SendsInVain == broker = "down" /\ status = "active"
EventuallyDeactivated == []<>~SendsInVain

=============================================================================
