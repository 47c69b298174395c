---------------------- MODULE OutConnectorHealth_proofs ----------------------
(***************************************************************************)
(* Proofs of the safety properties of OutConnectorHealth that hold for any *)
(* number of overlapping jobs and requests.                                *)
(***************************************************************************)
EXTENDS OutConnectorHealth, TLAPS

LEMMA MoreType == \A c \in Count : More(c) \in Count
BY HealthAssumption DEF More, Count

LEMMA OlderType == \A a \in Age : Older(a) \in Age
BY HealthAssumption DEF Older, Age

\* Ages grow together: an instant never overtakes an older one.
LEMMA OlderMonotone == \A a, b \in Age : a <= b => Older(a) <= Older(b)
BY HealthAssumption DEF Older, Age

LEMMA ZeroType == 0 \in Count /\ 0 \in Age /\ Window \in Age
BY HealthAssumption DEF Count, Age

LEMMA InitType == Init => TypeOK
BY ZeroType, HealthAssumption DEF Init, TypeOK, Rows

LEMMA NextType == TypeOK /\ [Next]_vars => TypeOK'
<1> SUFFICES ASSUME TypeOK, [Next]_vars PROVE TypeOK' OBVIOUS
<1> USE ZeroType, MoreType, OlderType, HealthAssumption DEF TypeOK, rowVars, history, Requests
<1>1. CASE UNCHANGED vars BY <1>1 DEF vars, jobVars, adminVars
<1>2. ASSUME NEW w \in Workers, Start(w) PROVE TypeOK'
  <2>1. Stored \in Rows BY <1>2 DEF Start, Stored, Rows
  <2> QED BY <1>2, <2>1 DEF Start, Goto, adminVars
<1>3. ASSUME NEW w \in Workers, JobStep(w) PROVE TypeOK'
  <2>1. CASE NothingToSend(w) BY <2>1 DEF NothingToSend, Goto, adminVars
  <2>2. CASE SendOk(w) BY <2>2 DEF SendOk, Goto, adminVars
  <2>3. CASE SendFails(w) BY <2>3 DEF SendFails, Goto, adminVars
  <2>4. CASE Reset(w) BY <2>4 DEF Reset, Goto, adminVars
  <2>5. CASE TakeNow(w) BY <2>5 DEF TakeNow, Goto, adminVars
  <2>6. CASE Connect(w) BY <2>6 DEF Connect, Goto, adminVars
  <2>7. CASE CountFailure(w) BY <2>7 DEF CountFailure, Goto, adminVars
  <2>8. CASE Check(w)
    <3>1. Exists => Stored \in Rows BY DEF Exists, Stored, Rows
    <3> QED BY <2>8, <3>1 DEF Check, Goto, adminVars
  <2>9. CASE Deactivate(w) BY <2>9 DEF Deactivate, Goto, adminVars
  <2> QED BY <1>3, <2>1, <2>2, <2>3, <2>4, <2>5, <2>6, <2>7, <2>8, <2>9 DEF JobStep
<1>4. ASSUME NEW w \in Workers, Kill(w) PROVE TypeOK'
  BY <1>4 DEF Kill, Goto, adminVars
<1>5. ASSUME NEW a \in Admins, AdminSave(a) PROVE TypeOK'
  BY <1>5 DEF AdminSave, jobVars
<1>6. ASSUME NEW a \in Admins, NEW request \in Requests, AdminLoad(a, request) PROVE TypeOK'
  <2>1. Stored \in Rows BY <1>6 DEF AdminLoad, Exists, Stored, Rows
  <2> QED BY <1>6, <2>1 DEF AdminLoad, jobVars
<1>7. CASE Delete BY <1>7 DEF Delete, jobVars, adminVars
<1>8. CASE Tick BY <1>8 DEF Tick, adminVars
<1>9. CASE BrokerChanges BY <1>9 DEF BrokerChanges, jobVars, adminVars
<1> QED BY <1>1, <1>2, <1>3, <1>4, <1>5, <1>6, <1>7, <1>8, <1>9 DEF Next

\* Every reachable state is type correct: the count never leaves its range and
\* no job is in a step the code does not have.
THEOREM TypeCorrect == Spec => []TypeOK
BY InitType, NextType, PTL DEF Spec

-----------------------------------------------------------------------------
(* The last connection.                                                    *)

\* Worker w still has the instant of a confirmed send to write, and it is not
\* older than the last confirmed send.
WillRegister(w) ==
  \/ pc[w] \in {"reset", "now"}
  \/ pc[w] = "connect" /\ stamp[w] <= okAge

\* LastConnectionIsLatest, also while successes wait to be registered.
LatestIsKnown ==
  Exists /\ kills = 0 => lastAge <= okAge \/ \E w \in Workers : WillRegister(w)

\* A step that changes neither the ages nor the other workers, and lets w keep
\* what it owes, keeps LatestIsKnown.
LEMMA KnownStays ==
  ASSUME TypeOK, LatestIsKnown, NEW w \in Workers, UNCHANGED <<lastAge, okAge, stamp, kills>>,
         Exists' => Exists,
         \A v \in Workers \ {w} : pc'[v] = pc[v],
         Exists /\ pc[w] \in {"reset", "now", "connect"} => pc'[w] = pc[w]
  PROVE  LatestIsKnown'
<1> SUFFICES ASSUME Exists', kills = 0, ~ lastAge <= okAge
             PROVE  \E v \in Workers : WillRegister(v)'
  BY DEF LatestIsKnown
<1>1. PICK v \in Workers : WillRegister(v) BY DEF LatestIsKnown
<1>2. pc'[v] = pc[v] BY <1>1 DEF WillRegister
<1> QED BY <1>1, <1>2 DEF WillRegister

LEMMA NextLatest == TypeOK /\ LatestIsKnown /\ [Next]_vars => LatestIsKnown'
<1> SUFFICES ASSUME TypeOK, LatestIsKnown, [Next]_vars PROVE LatestIsKnown' OBVIOUS
<1> USE DEF rowVars, history, jobVars, adminVars
<1>1. CASE UNCHANGED vars
  BY <1>1 DEF vars, LatestIsKnown, WillRegister, Exists
<1>2. ASSUME NEW w \in Workers, Start(w) PROVE LatestIsKnown'
  BY <1>2, KnownStays DEF Start, Goto, TypeOK, Exists
<1>3. ASSUME NEW w \in Workers, JobStep(w) PROVE LatestIsKnown'
  <2>1. CASE NothingToSend(w)
    BY <2>1, KnownStays DEF NothingToSend, Goto, TypeOK, Exists
  <2>2. CASE SendOk(w)
    <3>1. pc'[w] \in {"reset", "now"} BY <2>2 DEF SendOk, Goto, TypeOK
    <3> QED BY <3>1 DEF LatestIsKnown, WillRegister
  <2>3. CASE SendFails(w)
    BY <2>3, KnownStays DEF SendFails, Goto, TypeOK, Exists
  <2>4. CASE Reset(w)
    <3>1. CASE Exists
      <4>1. pc'[w] = "now" BY <2>4, <3>1 DEF Reset, Goto, TypeOK
      <4> QED BY <4>1 DEF LatestIsKnown, WillRegister
    <3>2. CASE ~ Exists BY <2>4, <3>2 DEF Reset, LatestIsKnown, Exists
    <3> QED BY <3>1, <3>2
  <2>5. CASE TakeNow(w)
    <3>1. pc'[w] = "connect" /\ stamp'[w] <= okAge'
      BY <2>5 DEF TakeNow, Goto, TypeOK, Age
    <3> QED BY <3>1 DEF LatestIsKnown, WillRegister
  <2>6. CASE Connect(w)
    <3> SUFFICES ASSUME Exists, kills = 0, ~ lastAge' <= okAge
                 PROVE  \E v \in Workers : WillRegister(v)'
      BY <2>6 DEF Connect, LatestIsKnown, Exists
    <3>1. lastAge' <= lastAge /\ lastAge' <= stamp[w]
      BY <2>6, HealthAssumption DEF Connect, TypeOK, Age
    <3>2. ~ lastAge <= okAge /\ ~ stamp[w] <= okAge
      BY <3>1, <2>6, HealthAssumption DEF Connect, TypeOK, Age
    <3>3. PICK v \in Workers : WillRegister(v) BY <3>2 DEF LatestIsKnown
    <3>4. v # w BY <3>2, <3>3, <2>6 DEF WillRegister, Connect
    <3>5. pc'[v] = pc[v] BY <3>4, <2>6 DEF Connect, Goto, TypeOK
    <3> QED BY <3>3, <3>5, <2>6 DEF WillRegister, Connect
  <2>7. CASE CountFailure(w)
    BY <2>7, KnownStays DEF CountFailure, Goto, TypeOK, Exists
  <2>8. CASE Check(w)
    BY <2>8, KnownStays DEF Check, Goto, TypeOK, Exists
  <2>9. CASE Deactivate(w)
    BY <2>9, KnownStays DEF Deactivate, Goto, TypeOK, Exists
  <2> QED BY <1>3, <2>1, <2>2, <2>3, <2>4, <2>5, <2>6, <2>7, <2>8, <2>9 DEF JobStep
<1>4. ASSUME NEW w \in Workers, Kill(w) PROVE LatestIsKnown'
  BY <1>4, HealthAssumption DEF Kill, LatestIsKnown, TypeOK
<1>5. ASSUME NEW a \in Admins, AdminSave(a) PROVE LatestIsKnown'
  <2>1. Exists' => Exists BY <1>5 DEF AdminSave, Exists
  <2> QED BY <1>5, <2>1 DEF AdminSave, LatestIsKnown, WillRegister
<1>6. ASSUME NEW a \in Admins, NEW request \in Requests, AdminLoad(a, request) PROVE LatestIsKnown'
  BY <1>6 DEF AdminLoad, LatestIsKnown, WillRegister, Exists
<1>7. CASE Delete BY <1>7 DEF Delete, LatestIsKnown, Exists
<1>8. CASE Tick
  <2> SUFFICES ASSUME Exists, kills = 0, ~ lastAge' <= okAge'
               PROVE  \E v \in Workers : WillRegister(v)'
    BY <1>8 DEF Tick, LatestIsKnown, Exists
  <2>1. ~ lastAge <= okAge BY <1>8, OlderMonotone DEF Tick, TypeOK
  <2>2. PICK v \in Workers : WillRegister(v) BY <2>1 DEF LatestIsKnown
  <2>3. pc[v] = "connect" => stamp'[v] <= okAge'
    BY <1>8, <2>2, OlderMonotone DEF Tick, TypeOK, WillRegister
  <2> QED BY <1>8, <2>2, <2>3 DEF Tick, WillRegister
<1>9. CASE BrokerChanges
  BY <1>9 DEF BrokerChanges, LatestIsKnown, WillRegister, Exists
<1> QED BY <1>1, <1>2, <1>3, <1>4, <1>5, <1>6, <1>7, <1>8, <1>9 DEF Next

\* While no job was killed and no success waits to be registered,
\* last_connection is as recent as the last confirmed send, however many jobs
\* overlap: the comparison in the UPDATE is enough without any lock.
THEOREM LatestConnection == Spec => []LastConnectionIsLatest
<1>1. Init => LatestIsKnown
  BY HealthAssumption DEF Init, LatestIsKnown
<1>2. LatestIsKnown => LastConnectionIsLatest
  BY DEF LatestIsKnown, LastConnectionIsLatest, AllRegistered, WillRegister
<1> QED BY <1>1, <1>2, InitType, NextType, NextLatest, PTL DEF Spec

-----------------------------------------------------------------------------

\* A send starts only in a step that finds the row active.
LEMMA NextStops ==
  ASSUME TypeOK, [Next]_vars, status # "active", NEW w \in Workers, pc'[w] = "sending"
  PROVE  pc[w] = "sending"
<1>1. CASE UNCHANGED vars BY <1>1 DEF vars, jobVars
<1>2. ASSUME NEW v \in Workers, Start(v) PROVE FALSE BY <1>2 DEF Start
<1>3. ASSUME NEW v \in Workers, JobStep(v) PROVE pc[w] = "sending"
  BY <1>3 DEF JobStep, NothingToSend, SendOk, SendFails, Reset, TakeNow, Connect, CountFailure,
              Check, Deactivate, Goto, TypeOK
<1>4. ASSUME NEW v \in Workers, Kill(v) PROVE pc[w] = "sending" BY <1>4 DEF Kill, Goto, TypeOK
<1>5. ASSUME NEW a \in Admins, AdminSave(a) PROVE pc[w] = "sending"
  BY <1>5 DEF AdminSave, jobVars
<1>6. ASSUME NEW a \in Admins, NEW request \in Requests, AdminLoad(a, request)
      PROVE  pc[w] = "sending"
  BY <1>6 DEF AdminLoad, jobVars
<1>7. CASE Delete \/ Tick \/ BrokerChanges
  BY <1>7 DEF Delete, Tick, BrokerChanges, jobVars
<1> QED BY <1>1, <1>2, <1>3, <1>4, <1>5, <1>6, <1>7 DEF Next

\* A deactivated or deleted connector starts no send, whatever copies of its
\* row jobs and requests hold.
THEOREM InactiveStops == Spec => StopsSending
<1>1. TypeOK /\ [Next]_vars =>
        [status # "active" => \A w \in Workers : pc'[w] = "sending" => pc[w] = "sending"]_vars
  BY NextStops
<1> QED BY <1>1, TypeCorrect, PTL DEF Spec, StopsSending, NoSendStarts

-----------------------------------------------------------------------------
(* One job at a time, and none killed: what a deactivation stands on.      *)

OneJob == MaxKills = 0 /\ \A v, w \in Workers : v = w

\* While the row exists its count is at most the streak of failures, less the
\* one still to be counted and except where a success is about to reset it; a job
\* that found nothing to reset will find nothing; and a job that deactivates has
\* seen enough failures and no recent success.
CountBehind(w) ==
  /\ pc[w] \notin {"reset", "failed"} => retries <= streak
  /\ pc[w] = "failed" => More(retries) <= streak
  /\ pc[w] = "sending" /\ row[w].retries = 0 => retries = 0
Ready(w) == pc[w] = "deactivate" => streak >= NumMaxRetries /\ okAge >= Window

Grounded == \A w \in Workers : Exists => CountBehind(w) /\ Ready(w)

LEMMA MoreMonotone == \A a, b \in Count : a <= b => More(a) <= More(b) /\ b <= More(b)
BY HealthAssumption DEF More, Count

LEMMA NextGrounded ==
  ASSUME OneJob
  PROVE  TypeOK /\ LatestIsKnown /\ Grounded /\ [Next]_vars => Grounded'
<1> SUFFICES ASSUME TypeOK, LatestIsKnown, Grounded, [Next]_vars, NEW w \in Workers, Exists'
             PROVE  CountBehind(w)' /\ Ready(w)'
  BY DEF Grounded
<1>1. /\ retries \in Int /\ retries >= 0 /\ retries <= NumMaxRetries
      /\ streak \in Int /\ streak >= 0 /\ streak <= NumMaxRetries
      /\ okAge \in Int /\ okAge <= Window /\ lastAge \in Int
      /\ row[w].retries \in Int /\ row[w].retries >= 0
      /\ pc \in [Workers -> {"idle", "sending", "reset", "now", "connect", "failed", "check",
                             "deactivate"}]
      /\ NumMaxRetries \in Int /\ Window \in Int
  BY HealthAssumption DEF TypeOK, Count, Age, Rows
<1>2. Exists => CountBehind(w) /\ Ready(w) BY DEF Grounded
<1>3. \A v \in Workers : v = w BY DEF OneJob
<1> USE DEF CountBehind, Ready, rowVars, history, jobVars, adminVars
<1>4. CASE UNCHANGED vars BY <1>2, <1>4 DEF vars, Exists, More
<1>5. CASE Start(w) BY <1>1, <1>2, <1>5 DEF Start, Stored, Goto, Exists, TypeOK
<1>6. CASE JobStep(w)
  <2>1. CASE NothingToSend(w) BY <1>1, <1>2, <2>1 DEF NothingToSend, Goto, Exists
  <2>2. CASE SendOk(w) BY <1>1, <1>2, <2>2 DEF SendOk, Goto, Exists
  <2>3. CASE SendFails(w)
    <3>1. More(retries) <= More(streak)
      BY <1>2, <2>3, MoreMonotone DEF TypeOK, SendFails, Exists
    <3> QED BY <1>1, <2>3, <3>1 DEF SendFails, Goto, More, Exists
  <2>4. CASE Reset(w) BY <1>1, <1>2, <2>4 DEF Reset, Goto, Exists
  <2>5. CASE TakeNow(w) BY <1>1, <1>2, <2>5 DEF TakeNow, Goto, Exists
  <2>6. CASE Connect(w) BY <1>1, <1>2, <2>6 DEF Connect, Goto, Exists
  <2>7. CASE CountFailure(w) BY <1>1, <1>2, <2>7 DEF CountFailure, Goto, Exists
  <2>8. CASE Check(w)
    <3>1. kills = 0 BY HealthAssumption DEF OneJob, TypeOK
    <3>2. Exists /\ lastAge <= okAge
      BY <1>3, <2>8, <3>1 DEF Check, LatestIsKnown, WillRegister, Exists
    <3> QED BY <1>1, <1>2, <2>8, <3>2 DEF Check, Goto, Exists
  <2>9. CASE Deactivate(w) BY <1>1, <1>2, <2>9 DEF Deactivate, Goto, Exists
  <2> QED BY <1>6, <2>1, <2>2, <2>3, <2>4, <2>5, <2>6, <2>7, <2>8, <2>9 DEF JobStep
<1>7. CASE Kill(w) BY <1>7, HealthAssumption DEF Kill, OneJob, TypeOK
<1>8. ASSUME NEW a \in Admins, AdminSave(a) PROVE CountBehind(w)' /\ Ready(w)'
  <2>1. Exists /\ (retries' = 0 \/ retries' = retries) BY <1>8 DEF AdminSave, Exists
  <2>2. More(0) <= 1 /\ More(retries) \in Int BY <1>1 DEF More
  <2>3. pc[w] = "failed" => streak >= 1
    BY <1>1, <1>2, <2>1, HealthAssumption DEF More
  <2> QED BY <1>1, <1>2, <1>8, <2>1, <2>2, <2>3 DEF AdminSave, More
<1>9. ASSUME NEW a \in Admins, NEW request \in Requests, AdminLoad(a, request)
      PROVE  CountBehind(w)' /\ Ready(w)'
  BY <1>2, <1>9 DEF AdminLoad, Exists, More
<1>10. CASE Delete BY <1>10 DEF Delete, Exists
<1>11. CASE Tick BY <1>1, <1>2, <1>11 DEF Tick, Exists, Older, More
<1>12. CASE BrokerChanges BY <1>2, <1>12 DEF BrokerChanges, Exists, More
<1> QED BY <1>3, <1>4, <1>5, <1>6, <1>7, <1>8, <1>9, <1>10, <1>11, <1>12 DEF Next

\* With one job at a time and none killed, the worker deactivates the connector
\* only after NUM_MAX_RETRIES failures in a row and no confirmed send within the
\* window, whatever the requests of the API write between its reads and writes.
THEOREM JustifiedDeactivation == ASSUME OneJob PROVE Spec => DeactivationJustified
<1>1. Init => Grounded
  BY HealthAssumption DEF Init, Grounded, CountBehind, Ready
<1>2. Init => LatestIsKnown BY HealthAssumption DEF Init, LatestIsKnown
<1>3. TypeOK /\ Grounded /\ [Next]_vars => [Justified]_vars
  <2> SUFFICES ASSUME Grounded, NEW w \in Workers, DeactivatedBy(w)
               PROVE  streak >= NumMaxRetries /\ okAge >= Window
    BY DEF Justified
  <2> QED BY DEF Grounded, Ready, DeactivatedBy, Exists
<1> QED
  BY <1>1, <1>2, <1>3, InitType, NextType, NextLatest, NextGrounded, PTL
  DEF Spec, DeactivationJustified

=============================================================================
