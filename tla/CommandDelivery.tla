--------------------------- MODULE CommandDelivery ---------------------------
(***************************************************************************)
(* The way of the commands of one device through fiware-manager.  The IoT  *)
(* Agent posts each command to the notification router, which parks it in  *)
(* a document of the device; the proxy in front of the IoT Agent takes the *)
(* document when the device asks for its commands and hands them over in   *)
(* the answer.  A later command of the same name replaces a parked one.    *)
(***************************************************************************)
EXTENDS Integers

CONSTANTS
  Polls,    \* requests of the device that may overlap
  MaxSends  \* bound on the commands sent

DeliveryAssumption == MaxSends \in Nat

VARIABLES
  upper,    \* whether the identifier of the device is in upper case
  sent,     \* commands sent so far, numbered
  transit,  \* commands on their way from aether-link to fiware-manager
  parked,   \* the command in the pending_commands document, 0 if none
  poll,     \* poll[p]: where request p is, and the command in its answer
  got       \* commands the device has received

vars == <<upper, sent, transit, parked, poll, got>>

Sends == 1 .. MaxSends
Asking == [pc : {"idle", "posted", "answered"}, cmd : 0 .. MaxSends]
Waiting == [pc |-> "idle", cmd |-> 0]

TypeOK ==
  /\ upper \in BOOLEAN
  /\ sent \in 0 .. MaxSends
  /\ transit \subseteq Sends
  /\ parked \in 0 .. MaxSends
  /\ poll \in [Polls -> Asking]
  /\ got \subseteq Sends

Init ==
  /\ upper \in BOOLEAN
  /\ sent = 0
  /\ transit = {} /\ parked = 0 /\ got = {}
  /\ poll = [p \in Polls |-> Waiting]

\* update_on_context_broker, called by sendCommands and by EntityCommandAction.
Send ==
  /\ sent < MaxSends
  /\ sent' = sent + 1
  /\ transit' = transit \cup {sent'}
  /\ UNCHANGED <<upper, parked, poll, got>>

\* notify and add_new_command: an upsert that sets the value of the command.
Park(c) ==
  /\ c \in transit
  /\ transit' = transit \ {c}
  /\ parked' = c
  /\ UNCHANGED <<upper, sent, poll, got>>

\* redirect: every payload goes to the IoT Agent, whatever it answers ...
Post(p) ==
  /\ poll[p].pc = "idle"
  /\ poll' = [poll EXCEPT ![p] = [pc |-> "posted", cmd |-> 0]]
  /\ UNCHANGED <<upper, sent, transit, parked, got>>

\* ... and a request without getCmd ends there.
NoCommands(p) ==
  /\ poll[p].pc = "posted"
  /\ poll' = [poll EXCEPT ![p] = Waiting]
  /\ UNCHANGED <<upper, sent, transit, parked, got>>

\* notify stores the serial in upper case; get_ik_pending_commands looks up
\* the identifier as the device wrote it.
Found == upper /\ parked # 0

\* Mutant of Take: the document is read and not deleted.
TakeKeeps(p) ==
  /\ poll[p].pc = "posted"
  /\ Found
  /\ poll' = [poll EXCEPT ![p] = [pc |-> "answered", cmd |-> parked]]
  /\ UNCHANGED <<upper, sent, transit, parked, got>>

\* get_device_pending_commands: find_one_and_delete.
Take(p) ==
  /\ poll[p].pc = "posted"
  /\ Found
  /\ poll' = [poll EXCEPT ![p] = [pc |-> "answered", cmd |-> parked]]
  /\ parked' = 0
  /\ UNCHANGED <<upper, sent, transit, got>>

\* The answer arrives, or is lost.
Answer(p) ==
  /\ poll[p].pc = "answered"
  /\ poll' = [poll EXCEPT ![p] = Waiting]
  /\ got' \in {got, got \cup {poll[p].cmd}}
  /\ UNCHANGED <<upper, sent, transit, parked>>

Next ==
  \/ Send
  \/ \E c \in transit : Park(c)
  \/ \E p \in Polls : Post(p) \/ NoCommands(p) \/ Take(p) \/ Answer(p)

Spec == Init /\ [][Next]_vars

\* The device reports and asks for its commands again and again.
Fairness ==
  \A p \in Polls : WF_vars(Post(p)) /\ SF_vars(Take(p)) /\ WF_vars(Answer(p))

FairSpec == Spec /\ Fairness

-----------------------------------------------------------------------------
(* Properties.                                                             *)

\* No command reaches the device twice, whatever requests overlap and
\* whatever answers are lost.
AnswersNew ==
  \A p \in Polls :
    poll[p].pc = "answered" /\ poll'[p].pc = "idle" => poll[p].cmd \notin got
DeliveredOnce == [][AnswersNew]_vars

\* "so that it can be sent to the device when it reports the next time"
\* (add_new_command): a command does not stay parked while the device asks.
\* It holds for identifiers in upper case.
ParkedIsTaken == []<>(upper => parked = 0)

=============================================================================
