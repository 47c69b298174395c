------------------------ MODULE CommandDelivery_proofs -----------------------
(***************************************************************************)
(* Proofs about CommandDelivery, for any number of commands and of         *)
(* overlapping requests of the device.                                     *)
(***************************************************************************)
EXTENDS CommandDelivery, TLAPS

Answered(p) == poll[p].pc = "answered"

\* A command is in one place at most: on its way, parked, in one answer or
\* received; and each place holds commands that were sent.
Places ==
  /\ transit \subseteq 1 .. sent /\ parked \in 0 .. sent /\ got \subseteq 1 .. sent
  /\ parked \notin transit /\ parked \notin got
  /\ transit \cap got = {}

Answers ==
  \A p \in Polls : Answered(p) =>
    /\ poll[p].cmd \in 1 .. sent
    /\ poll[p].cmd # parked /\ poll[p].cmd \notin transit /\ poll[p].cmd \notin got

AnswersDiffer ==
  \A p, q \in Polls : Answered(p) /\ Answered(q) /\ poll[p].cmd = poll[q].cmd => p = q

InOnePlace == TypeOK /\ Places /\ Answers /\ AnswersDiffer

\* Nothing has been sent at the start.
LEMMA InitInOnePlace == ASSUME DeliveryAssumption PROVE Init => InOnePlace
<1> SUFFICES ASSUME Init PROVE InOnePlace OBVIOUS
<1>1. TypeOK BY DEF DeliveryAssumption, TypeOK, Init, Asking, Waiting, Sends
<1>2. Places BY DEF Places, Init
<1>3. Answers /\ AnswersDiffer BY DEF Answers, AnswersDiffer, Answered, Init, Waiting
<1> QED BY <1>1, <1>2, <1>3 DEF InOnePlace

\* A new command takes a number nothing has.
LEMMA SendKeeps ==
  ASSUME DeliveryAssumption, InOnePlace, Send PROVE InOnePlace'
<1> USE DEF InOnePlace
<1>1. sent \in Nat /\ sent' = sent + 1 /\ sent' \in 0 .. MaxSends
  BY DEF DeliveryAssumption, TypeOK, Send
<1>2. TypeOK' BY <1>1 DEF TypeOK, Send, Sends
<1>3. Places' BY <1>1 DEF Places, Send
<1>4. Answers' BY <1>1 DEF Answers, Answered, Places, Send
<1>5. AnswersDiffer' BY DEF AnswersDiffer, Answered, Send
<1> QED BY <1>2, <1>3, <1>4, <1>5

\* A command that parks leaves the way and replaces the one that was parked.
LEMMA ParkKeeps ==
  ASSUME DeliveryAssumption, InOnePlace, NEW c \in transit, Park(c) PROVE InOnePlace'
<1> USE DEF InOnePlace
<1>1. c \in 1 .. sent /\ c \notin got /\ sent \in Nat
  BY DEF DeliveryAssumption, TypeOK, Places
<1>2. TypeOK' BY <1>1 DEF TypeOK, Park, Sends
<1>3. Places' BY <1>1 DEF Places, Park
<1>4. Answers' BY DEF Answers, Answered, Park
<1>5. AnswersDiffer' BY DEF AnswersDiffer, Answered, Park
<1> QED BY <1>2, <1>3, <1>4, <1>5

\* A step of a request that does not carry a command moves none.
LEMMA QuietKeeps ==
  ASSUME InOnePlace, NEW p \in Polls, NEW r \in Asking, r.pc # "answered",
         poll' = [poll EXCEPT ![p] = r], UNCHANGED <<upper, sent, transit, parked, got>>
  PROVE  InOnePlace'
<1> USE DEF InOnePlace
<1>1. \A q \in Polls : Answered(q)' => Answered(q) /\ poll'[q] = poll[q]
  BY DEF TypeOK, Answered
<1>2. TypeOK' BY DEF TypeOK
<1>3. Places' BY DEF Places
<1>4. Answers' BY <1>1 DEF Answers
<1>5. AnswersDiffer' BY <1>1 DEF AnswersDiffer
<1> QED BY <1>2, <1>3, <1>4, <1>5

\* The command a request takes is parked no more.
LEMMA TakeKeepsPlaces ==
  ASSUME DeliveryAssumption, InOnePlace, NEW p \in Polls, Take(p) PROVE InOnePlace'
<1> USE DEF InOnePlace
<1> DEFINE taken == [pc |-> "answered", cmd |-> parked]
<1>1. taken \in Asking BY DEF TypeOK, Asking
<1>2. poll' = [poll EXCEPT ![p] = taken] /\ parked' = 0 /\ parked # 0 BY DEF Take, Found
<1>3. TypeOK' BY <1>1, <1>2 DEF DeliveryAssumption, TypeOK, Take
<1>4. Places' BY <1>2 DEF DeliveryAssumption, TypeOK, Places, Take
<1>5. poll'[p] = taken /\ \A q \in Polls \ {p} : poll'[q] = poll[q] BY <1>2 DEF TypeOK
<1>6. parked \in 1 .. sent BY <1>2 DEF DeliveryAssumption, TypeOK, Places
<1>7. Answers' BY <1>2, <1>5, <1>6 DEF Answers, Answered, Places, Take
<1>8. AnswersDiffer' BY <1>5 DEF AnswersDiffer, Answers, Answered
<1> QED BY <1>3, <1>4, <1>7, <1>8

\* The command of an answer is received or lost, and no other answer has it.
LEMMA AnswerKeeps ==
  ASSUME DeliveryAssumption, InOnePlace, NEW p \in Polls, Answer(p) PROVE InOnePlace'
<1> USE DEF InOnePlace
<1>1. poll' = [poll EXCEPT ![p] = Waiting] /\ Waiting \in Asking /\ Waiting.pc # "answered"
  BY DEF DeliveryAssumption, Answer, Waiting, Asking
<1>2. \A q \in Polls : Answered(q)' => q # p /\ Answered(q) /\ poll'[q] = poll[q]
  BY <1>1 DEF TypeOK, Answered
<1>3. Answered(p) /\ poll[p].cmd \in 1 .. sent BY DEF Answer, Answered, Answers
<1>4. poll[p].cmd \in Sends BY <1>3 DEF DeliveryAssumption, TypeOK, Sends
<1>5. TypeOK' BY <1>1, <1>4 DEF TypeOK, Answer
<1>6. Places' BY <1>3 DEF Places, Answer, Answers
<1>7. Answers' BY <1>2, <1>3 DEF Answers, AnswersDiffer, Answer
<1>8. AnswersDiffer' BY <1>2 DEF AnswersDiffer
<1> QED BY <1>5, <1>6, <1>7, <1>8

\* Every step keeps each command in one place.
LEMMA NextInOnePlace ==
  ASSUME DeliveryAssumption PROVE InOnePlace /\ [Next]_vars => InOnePlace'
<1> SUFFICES ASSUME InOnePlace, [Next]_vars PROVE InOnePlace' OBVIOUS
<1>1. CASE UNCHANGED vars
  BY <1>1 DEF vars, InOnePlace, TypeOK, Places, Answers, AnswersDiffer, Answered
<1>2. CASE Send BY <1>2, SendKeeps
<1>3. ASSUME NEW c \in transit, Park(c) PROVE InOnePlace' BY <1>3, ParkKeeps
<1>4. ASSUME NEW p \in Polls, Post(p) PROVE InOnePlace'
  <2>1. [pc |-> "posted", cmd |-> 0] \in Asking BY DEF DeliveryAssumption, Asking
  <2> QED BY <1>4, <2>1, QuietKeeps DEF Post
<1>5. ASSUME NEW p \in Polls, NoCommands(p) PROVE InOnePlace'
  <2>1. Waiting \in Asking /\ Waiting.pc # "answered"
    BY DEF DeliveryAssumption, Waiting, Asking
  <2> QED BY <1>5, <2>1, QuietKeeps DEF NoCommands
<1>6. ASSUME NEW p \in Polls, Take(p) PROVE InOnePlace' BY <1>6, TakeKeepsPlaces
<1>7. ASSUME NEW p \in Polls, Answer(p) PROVE InOnePlace' BY <1>7, AnswerKeeps
<1> QED BY <1>1, <1>2, <1>3, <1>4, <1>5, <1>6, <1>7 DEF Next

\* Each command is always in one place at most.
THEOREM CommandInOnePlace == ASSUME DeliveryAssumption PROVE Spec => []InOnePlace
BY InitInOnePlace, NextInOnePlace, PTL DEF Spec

\* find_one_and_delete: an answer never carries a command that was received, for any
\* number of overlapping requests, of commands and of lost answers.
THEOREM CommandDeliveredOnce == ASSUME DeliveryAssumption PROVE Spec => DeliveredOnce
<1>1. InOnePlace => AnswersNew BY DEF InOnePlace, Answers, Answered, AnswersNew
<1> QED BY <1>1, CommandInOnePlace, PTL DEF Spec, DeliveredOnce
=============================================================================
