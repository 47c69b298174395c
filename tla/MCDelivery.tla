----------------------------- MODULE MCDelivery -----------------------------
(***************************************************************************)
(* Small instances of what is delivered at least once or at most once: the *)
(* notifications of the context broker, with fairness and with an operator *)
(* who launches the recovery job, and the commands of a device, whose      *)
(* component the module extends.  They share no state: part says which one *)
(* moves.                                                                  *)
(***************************************************************************)
EXTENDS CommandDelivery, TLC

CONSTANT
  Alone    \* the one worker that takes notifications

VARIABLES
  part,  \* the component that moves; those of the others rest
  unsent, missed, main, dlq, pc, held, tries, ent, db, stored, enqueued,
  recovery, taken, stuck, faults, blame

allVars ==
  <<part, vars,
    unsent, missed, main, dlq, pc, held, tries, ent, db, stored, enqueued,
    recovery, taken, stuck, faults, blame>>

\* Of the two notifications, one has two entities, the first of which is
\* skipped, and the other always fails.
Notifs == {"n1", "n2"}
Entities == [n \in Notifs |-> IF n = "n1" THEN 2 ELSE 1]

-----------------------------------------------------------------------------
(* The components.                                                         *)

Delivery == INSTANCE CbNotification WITH
  Notifs <- Notifs, Workers <- Alone, Size <- Entities, NumDBs <- 1,
  MaxRetries <- 1, Deletions <- {}, Expired <- {<<"n1", 1>>},
  Poison <- {<<"n2", 1>>}, CrowdFlow <- {},
  LossyFaults <- {"transform", "retry", "dlq", "kill"}, MaxFaults <- 3,
  None <- "none"

ASSUME MCDeliveryAssumption ==
  /\ DeliveryAssumption
  /\ Delivery!ConstantsAssumption

OthersCommands ==
  <<part,
    unsent, missed, main, dlq, pc, held, tries, ent, db, stored, enqueued,
    recovery, taken, stuck, faults, blame>>
StillCommands ==
  /\ unsent = 0 /\ missed = 0 /\ main = 0 /\ dlq = 0 /\ pc = 0 /\ held = 0
  /\ tries = 0 /\ ent = 0 /\ db = 0 /\ stored = 0 /\ enqueued = 0
  /\ recovery = 0 /\ taken = 0 /\ stuck = 0 /\ faults = 0 /\ blame = 0
OthersDelivery == <<part, vars>>
StillDelivery ==
  /\ Init /\ ~upper


InitAll ==
  \/ part = "commands" /\ Init /\ StillCommands
  \/ part = "delivery" /\ Delivery!Init /\ StillDelivery

NextAll ==
  \/ part = "commands" /\ Next /\ UNCHANGED OthersCommands
  \/ part = "delivery" /\ Delivery!Next /\ UNCHANGED OthersDelivery

SpecAll == InitAll /\ [][NextAll]_allVars

\* The fairness of the delivery of notifications, which its module explains.
FairnessAll ==
  /\ \A w \in Alone : WF_allVars(part = "delivery" /\ Delivery!WorkerStep(w) /\ UNCHANGED OthersDelivery)
  /\ \A n \in Notifs, r \in 0 .. 1 :
       SF_allVars(part = "delivery" /\ (\E w \in Alone : Delivery!Receive(w, n, r)) /\ UNCHANGED OthersDelivery)
  /\ \A n \in Notifs : SF_allVars(part = "delivery" /\ Delivery!RecoveryGet(n) /\ UNCHANGED OthersDelivery)
  /\ WF_allVars(part = "delivery" /\ Delivery!RecoveryStep /\ UNCHANGED OthersDelivery)
  /\ WF_allVars(part = "delivery" /\ Delivery!RecoveryStart /\ UNCHANGED OthersDelivery)

FairSpecAll == SpecAll /\ FairnessAll

-----------------------------------------------------------------------------
(* Properties: those of each component, of the states where it moves.       *)

\* Retries do not go on for ever: an accepted notification ends up stored or in
\* the DLQ, unless it is a deletion or a lossy fault hit it.
Settles ==
  \A n \in Notifs :
    (part = "delivery" /\ Delivery!Accepted(n)) ~> (part = "delivery" => Delivery!Settled(n))

\* While the operator keeps launching the recovery job, and the job ends each
\* time, the notification that can be stored is finally stored.
EventuallyStored ==
  []<>(part = "delivery" => recovery = "off") =>
    \A n \in Notifs :
      (part = "delivery" /\ Delivery!Owed(n)) ~> (part = "delivery" => Delivery!Delivered(n))

=============================================================================
