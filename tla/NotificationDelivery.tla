------------------------ MODULE NotificationDelivery ------------------------
(***************************************************************************)
(* What the ingestion of queues-consumer promises for each notification,   *)
(* without queues, workers, retries or copies: a notification is pending   *)
(* once accepted, may be parked and taken up again any number of times,    *)
(* and ends stored, discarded on purpose, or lost - for good.              *)
(***************************************************************************)
CONSTANT Notifs

VARIABLE status

Statuses == {"unsent", "pending", "parked", "stored", "discarded", "lost"}

TypeOK == status \in [Notifs -> Statuses]

Init == status = [n \in Notifs |-> "unsent"]

\* Accepted, or refused by the broker; parked and resumed; and the three ends.
Moves ==
  ({"unsent"} \X {"pending", "lost"})
  \cup {<<"pending", "parked">>, <<"parked", "pending">>}
  \cup ({"pending", "parked"} \X {"stored", "discarded", "lost"})

\* One notification moves and the others stay.
Next ==
  \E n \in Notifs :
    /\ <<status[n], status'[n]>> \in Moves
    /\ status' = [status EXCEPT ![n] = status'[n]]

Spec == Init /\ [][Next]_status

=============================================================================
