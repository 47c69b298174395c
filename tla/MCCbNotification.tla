--------------------------- MODULE MCCbNotification ---------------------------
(* Small instances of CbNotification.                                      *)
EXTENDS CbNotification, FiniteSetsExt, TLC

CONSTANTS n1, n2, n3

\* Messages of n that are or will be worked on: the copies a process removes
\* only after it published another one do not count.
Copies(n) ==
    dlq[n] + stuck[n]
  + MapThenSumSet(LAMBDA r : main[n][r], Retries)
  + Cardinality({w \in Workers : Working(w) /\ held[w] = n})
  + (IF recovery = "holding" /\ taken = n THEN 1 ELSE 0)

\* Only a fault duplicates a notification: a retry, a move to the DLQ and a
\* republication each leave exactly one live copy behind.
CopiesNeedFaults == \A n \in Notifs : Copies(n) <= 1 + faults

\* A notification of two entities and others of one; the last always fails.
Sizes     == [n \in Notifs |-> IF n = n1 THEN 2 ELSE 1]
SizeOne   == [n \in Notifs |-> 1]
FirstOfN1 == {<<n1, 1>>}
FirstOfN3 == {<<n3, 1>>}

Interchangeable == Permutations(Workers)

=============================================================================
