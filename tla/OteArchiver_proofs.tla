------------------------- MODULE OteArchiver_proofs --------------------------
(***************************************************************************)
(* Proofs about OteArchiver, for any processes, devices, frame sizes and   *)
(* limits, with uploads that fail and processes killed at any moment.      *)
(***************************************************************************)
EXTENDS OteArchiver, FiniteSetTheorems, WellFoundedInduction, TLAPS

-----------------------------------------------------------------------------
(* The inductive invariant.  A piece is a window that has been taken: it is *)
(* being uploaded, or an object.                                            *)

Pieces  == objects \cup {held[p][f] : p \in Procs, f \in Flushers}
Real(o) == o # Nothing

InWindow(i) == \E p \in Procs, d \in Devices : i \in window[p][d].lines
InPiece(i)  == \E o \in Pieces : i \in o.lines

\* Every accepted frame is in a window, in a piece, dropped or lost, and in one
\* of them only.
Accounted ==
  \A i \in 1 .. count :
    /\ InWindow(i) \/ InPiece(i) \/ i \in dropped \/ i \in lost
    /\ InWindow(i) => ~InPiece(i) /\ i \notin dropped /\ i \notin lost
    /\ InPiece(i) => i \notin dropped /\ i \notin lost
    /\ i \in dropped => i \notin lost

\* A window holds frames of its process and device.
WindowsOK ==
  \A p \in Procs, d \in Devices :
    /\ window[p][d].lines \subseteq 1 .. count
    /\ \A i \in window[p][d].lines : owner[i] = <<p, d>>
    /\ ~window[p][d].open => window[p][d].lines = {}
    /\ window[p][d].open => window[p][d].opened <= now
    /\ pc[p].main = "exited" => ~window[p][d].open

\* What is being uploaded is not an object yet, and only one flusher has it.
SlotsOK ==
  \A p \in Procs :
    /\ pc[p].main = "exited" => pc[p].thread = "ended"
    /\ \A f \in Flushers :
         /\ pc[p][f] = "put" <=> Real(held[p][f])
         /\ Real(held[p][f]) =>
              /\ held[p][f] \notin objects
              /\ \A q \in Procs, g \in Flushers : held[q][g] = held[p][f] => q = p /\ g = f

PiecesDiffer ==
  \A o, x \in Pieces :
    Real(o) /\ Real(x) /\ o # x => o.key # x.key /\ o.lines \cap x.lines = {}

\* Why the next key of a process is new, also with the id of a process that
\* ended: it has a higher number than its own, and a later instant than those
\* of the former process, because a restart takes a tick.
BeforeAll(p, opened) ==
  opened < now /\ \A d \in Devices : window[p][d].open => opened < window[p][d].opened

PastFor(o, p) == o.key.pid = pid[p] => o.key.seq <= seq[p] \/ BeforeAll(p, o.key.opened)

KeysPast ==
  \A o \in Pieces : Real(o) =>
    /\ o.lines \subseteq 1 .. count
    /\ o.key.opened <= now
    /\ \A p \in Procs : PastFor(o, p)

\* A window is newer than the pieces of its process and device.
OlderThan(o, i, p, d) ==
  /\ \A j \in window[p][d].lines : i < j
  /\ window[p][d].open => o.key.opened <= window[p][d].opened

PiecesOlder ==
  \A o \in Pieces : \A i \in o.lines : \A p \in Procs, d \in Devices :
    owner[i] = <<p, d>> => OlderThan(o, i, p, d)

\* ObjectsInOrder, with what is being uploaded.
InOrder(o, x) ==
  \A i \in o.lines, j \in x.lines :
    owner[i] = owner[j] /\ Before(o.key, x.key) => i < j
PiecesInOrder == \A o, x \in Pieces : InOrder(o, x)

\* The frames of p that are in none of its windows were taken by it, or by the
\* processes before it, and a take takes one at least.
Out(p)   == {i \in 1 .. count : owner[i][1] = p /\ i \notin Buffered(p) /\ i \notin dropped}
SeqBound == \A p \in Procs : seq[p] <= Cardinality(Out(p))

IInv ==
  /\ TypeOK /\ SeqBound
  /\ Accounted /\ WindowsOK /\ SlotsOK
  /\ PiecesDiffer /\ KeysPast /\ PiecesOlder /\ PiecesInOrder
  /\ DropsOldest

-----------------------------------------------------------------------------
(* The operators.                                                          *)

\* The sum over no line.
LEMMA EmptyBytes == Bytes({}) = 0
BY DEF Bytes, MapThenSumSet, MapThenFoldSet

\* Min is a member of its set and no member is smaller.
LEMMA MinIsMember ==
  ASSUME NEW S \in SUBSET Nat, S # {} PROVE Min(S) \in S /\ \A k \in S : Min(S) <= k
<1>1. PICK m \in S : \A k \in S : ~ (<<k, m>> \in OpToRel(<, Nat))
  BY NatLessThanWellFounded, WFMin
<1>2. ASSUME NEW k \in S PROVE m <= k
  <2>1. <<k, m>> \notin OpToRel(<, Nat) BY <1>1
  <2>2. ~ (k < m) BY <2>1, Zenon DEF OpToRel
  <2> QED BY <2>2
<1> QED BY <1>2 DEF Min


\* KeepNewest cuts the lines at a position, and what it keeps fits in the
\* buffer, whatever the sizes of the frames.
LEMMA KeepNewestCuts ==
  ASSUME ArchiverAssumption, NEW lines \in SUBSET Frames
  PROVE  /\ \E m \in Nat : KeepNewest(lines) = {i \in lines : i >= m}
         /\ Bytes(KeepNewest(lines)) <= MaxBufferBytes
<1> DEFINE Newest(k) == {i \in lines : i >= k}
           S == {k \in 1 .. (MaxFrames + 1) : Bytes(Newest(k)) <= MaxBufferBytes}
<1>1. KeepNewest(lines) = Newest(Min(S)) BY DEF KeepNewest
<1>2. Newest(MaxFrames + 1) = {}
  <2>1. \A i \in lines : ~ (i >= MaxFrames + 1) BY DEF Frames, ArchiverAssumption
  <2> QED BY <2>1
<1>3. MaxFrames + 1 \in S
  BY <1>2, EmptyBytes DEF ArchiverAssumption
<1>4. S \in SUBSET Nat BY DEF ArchiverAssumption
<1>5. Min(S) \in S BY <1>3, <1>4, MinIsMember
<1>6. Min(S) \in Nat /\ Bytes(Newest(Min(S))) <= MaxBufferBytes BY <1>4, <1>5
<1> QED BY <1>1, <1>6

\* What is in a slot has the type of a piece.
LEMMA PieceType ==
  ASSUME TypeOK, NEW o \in Pieces PROVE o = Nothing \/ o \in Objects
BY DEF TypeOK, Pieces

\* The window of a device has the type of a window.
LEMMA WindowType ==
  ASSUME TypeOK, NEW p \in Procs, NEW d \in Devices
  PROVE  /\ window[p][d] \in Windows
         /\ window[p][d].open \in BOOLEAN
         /\ window[p][d].opened \in 0 .. MaxTime
         /\ window[p][d].lines \in SUBSET Frames
BY DEF TypeOK, Windows

\* A frame number is a natural number.
LEMMA CountType ==
  ASSUME ArchiverAssumption, TypeOK
  PROVE  /\ count \in Nat /\ MaxFrames \in Nat /\ count <= MaxFrames
         /\ now \in Nat /\ MaxTime \in Nat /\ now <= MaxTime
         /\ \A i \in 1 .. count : i \in Nat /\ i \in Frames
BY DEF ArchiverAssumption, TypeOK, Frames

\* Nothing is accepted, taken or stored at the start.
LEMMA InitIInv == ASSUME ArchiverAssumption PROVE Init => IInv
<1> SUFFICES ASSUME Init PROVE IInv OBVIOUS
<1>1. MaxFrames \in Nat /\ MaxTime \in Nat BY DEF ArchiverAssumption
<1>2. 1 .. count = {} BY DEF Init
<1>3. \A p \in Procs, f \in Flushers : held[p][f] = Nothing BY DEF Init, Empty, Flushers
<1>4. \A o \in Pieces : o = Nothing BY <1>3 DEF Pieces, Init
<1>5. Nothing.lines = {} BY DEF Nothing
<1>6. \A p \in Procs, d \in Devices :
        ~window[p][d].open /\ window[p][d].lines = {} /\ window[p][d].opened = 0
  BY DEF Init, NoWindow
<1>7. TypeOK
  <2>1. NoWindow \in Windows BY <1>1 DEF NoWindow, Windows
  <2>2. window \in [Procs -> [Devices -> Windows]] BY <2>1 DEF Init
  <2>3. held \in [Procs -> [Flushers -> {Nothing} \cup Objects]] BY DEF Init, Empty
  <2>4. todo \in [Procs -> [Flushers -> SUBSET Devices]] BY DEF Init, Idle
  <2>5. pc \in [Procs -> [main : {"serving", "join", "flush", "put", "exited"},
                       thread : {"wait", "flush", "put", "ended"}]]
    BY DEF Init, Fresh
  <2>6. owner \in [1 .. count -> Procs \X Devices] BY <1>2 DEF Init
  <2> QED BY <1>1, <2>2, <2>3, <2>4, <2>5, <2>6 DEF Init, TypeOK
<1>8. SeqBound
  <2>1. ASSUME NEW p \in Procs PROVE seq[p] <= Cardinality(Out(p))
    <3>1. Out(p) = {} BY <1>2 DEF Out
    <3>2. Cardinality(Out(p)) = 0 BY <3>1, FS_EmptySet
    <3>3. seq[p] = 0 BY DEF Init
    <3> QED BY <3>2, <3>3
  <2> QED BY <2>1 DEF SeqBound
<1>9. SlotsOK
  BY <1>3 DEF Init, SlotsOK, Fresh, Flushers, Real
<1> QED
  BY <1>2, <1>4, <1>5, <1>6, <1>7, <1>8, <1>9
  DEF IInv, Accounted, WindowsOK, PiecesDiffer, KeysPast, PiecesOlder, PiecesInOrder, InOrder,
      DropsOldest, Init, Real

-----------------------------------------------------------------------------
(* What steps have in common.                                              *)

\* A step that takes no window and at most empties some keeps the order.
LEMMA OrderStays ==
  ASSUME PiecesDiffer, PiecesOlder, PiecesInOrder, owner' = owner,
         \A o \in Pieces' : Real(o) => o \in Pieces,
         \A p \in Procs, d \in Devices :
           window'[p][d] = window[p][d] \/ window'[p][d] = NoWindow
  PROVE  PiecesDiffer' /\ PiecesOlder' /\ PiecesInOrder'
<1>1. \A o \in Pieces' : o \in Pieces \/ o.lines = {} BY DEF Real, Nothing
<1>2. PiecesDiffer' BY DEF PiecesDiffer, Real
<1>3. PiecesOlder'
  <2> SUFFICES ASSUME NEW o \in Pieces', NEW i \in o.lines, NEW p \in Procs, NEW d \in Devices,
                      owner[i] = <<p, d>>
               PROVE  OlderThan(o, i, p, d)'
    BY DEF PiecesOlder
  <2>1. o \in Pieces BY <1>1
  <2>2. OlderThan(o, i, p, d) BY <2>1 DEF PiecesOlder
  <2>3. CASE window'[p][d] = window[p][d] BY <2>2, <2>3 DEF OlderThan
  <2>4. CASE window'[p][d] = NoWindow BY <2>4 DEF OlderThan, NoWindow
  <2> QED BY <2>3, <2>4
<1>4. PiecesInOrder'
  <2> SUFFICES ASSUME NEW o \in Pieces', NEW x \in Pieces' PROVE InOrder(o, x)'
    BY DEF PiecesInOrder
  <2>1. CASE o.lines = {} \/ x.lines = {} BY <2>1 DEF InOrder
  <2>2. CASE o \in Pieces /\ x \in Pieces
    <3>1. InOrder(o, x) BY <2>2 DEF PiecesInOrder
    <3> QED BY <3>1 DEF InOrder
  <2> QED BY <1>1, <2>1, <2>2
<1> QED BY <1>2, <1>3, <1>4

\* So do the keys: the clock may move on.
LEMMA KeysStay ==
  ASSUME TypeOK, KeysPast, ArchiverAssumption, UNCHANGED <<pid, seq, count>>,
         now' \in {now, now + 1},
         \A o \in Pieces' : Real(o) => o \in Pieces,
         \A p \in Procs, d \in Devices :
           window'[p][d] = window[p][d] \/ window'[p][d] = NoWindow
  PROVE  KeysPast'
<1> SUFFICES ASSUME NEW o \in Pieces', Real(o)
             PROVE  /\ o.lines \subseteq 1 .. count
                    /\ o.key.opened <= now'
                    /\ \A p \in Procs : PastFor(o, p)'
  BY DEF KeysPast
<1>1. o \in Pieces /\ o \in Objects BY PieceType DEF Real
<1>2. o.key.opened \in Nat BY <1>1 DEF Objects, Keys
<1>3. now \in Nat BY CountType
<1>4. o.lines \subseteq 1 .. count /\ o.key.opened <= now BY <1>1 DEF KeysPast
<1>5. ASSUME NEW p \in Procs PROVE PastFor(o, p)'
  <2>1. PastFor(o, p) BY <1>1 DEF KeysPast
  <2>2. BeforeAll(p, o.key.opened) => BeforeAll(p, o.key.opened)'
    BY <1>2, <1>3 DEF BeforeAll, NoWindow
  <2> QED BY <2>1, <2>2 DEF PastFor
<1> QED BY <1>2, <1>3, <1>4, <1>5

\* A step that only moves control.
LEMMA ControlKeeps ==
  ASSUME ArchiverAssumption, IInv,
         UNCHANGED <<now, pid, window, seq, held, frameVars>>,
         pc' \in [Procs -> [main : {"serving", "join", "flush", "put", "exited"},
                            thread : {"wait", "flush", "put", "ended"}]],
         todo' \in [Procs -> [Flushers -> SUBSET Devices]],
         \A p \in Procs, f \in Flushers : pc'[p][f] = "put" <=> pc[p][f] = "put",
         \A p \in Procs : pc'[p].main = "exited" =>
           pc[p].main = "exited" /\ pc'[p].thread = "ended"
  PROVE  IInv'
<1> USE DEF IInv, frameVars
<1>1. Pieces' = Pieces BY DEF Pieces
<1>2. TypeOK' BY DEF TypeOK
<1>3. SeqBound'
  <2>1. \A p \in Procs : Out(p)' = Out(p) BY DEF Out, Buffered
  <2> QED BY <2>1 DEF SeqBound
<1>4. Accounted' BY <1>1 DEF Accounted, InWindow, InPiece
<1>5. WindowsOK' BY DEF WindowsOK
<1>6. SlotsOK' BY DEF SlotsOK
<1>7. PiecesDiffer' /\ PiecesOlder' /\ PiecesInOrder' BY <1>1, OrderStays
<1>8. KeysPast' BY <1>1, KeysStay
<1>9. DropsOldest' BY DEF DropsOldest
<1> QED BY <1>2, <1>3, <1>4, <1>5, <1>6, <1>7, <1>8, <1>9

\* The thread wakes up, goes back to sleep or ends; the application stops and
\* waits for the thread.
LEMMA ControlSteps ==
  ASSUME ArchiverAssumption, IInv, NEW p \in Procs,
         Wake(p) \/ Sleep(p) \/ Stop(p) \/ EndThread(p) \/ Join(p)
  PROVE  IInv'
<1>1. UNCHANGED <<now, pid, window, seq, held, frameVars>>
  BY DEF Wake, Sleep, Stop, EndThread, Join
<1> DEFINE PC == [main : {"serving", "join", "flush", "put", "exited"},
                  thread : {"wait", "flush", "put", "ended"}]
           Moved(r) == /\ r \in PC /\ pc' = [pc EXCEPT ![p] = r]
                       /\ r.main = "put" <=> pc[p].main = "put"
                       /\ r.thread = "put" <=> pc[p].thread = "put"
                       /\ r.main = "exited" => pc[p].main = "exited" /\ r.thread = "ended"
<1>2. pc \in [Procs -> PC] /\ (pc[p].main = "exited" => pc[p].thread = "ended")
  BY DEF IInv, TypeOK, SlotsOK
<1>3. \E r \in PC : Moved(r)
  <2> DEFINE t(x) == [pc[p] EXCEPT !.thread = x]
             m(x) == [pc[p] EXCEPT !.main = x]
  <2>1. CASE Wake(p)
    <3>1. Moved(t("flush")) BY <1>2, <2>1 DEF Wake
    <3> QED BY <3>1
  <2>2. CASE Sleep(p)
    <3>1. Moved(t("wait")) BY <1>2, <2>2 DEF Sleep
    <3> QED BY <3>1
  <2>3. CASE Stop(p)
    <3>1. Moved(m("join")) BY <1>2, <2>3 DEF Stop
    <3> QED BY <3>1
  <2>4. CASE EndThread(p)
    <3>1. Moved(t("ended")) BY <1>2, <2>4 DEF EndThread
    <3> QED BY <3>1
  <2>5. CASE Join(p)
    <3>1. Moved(m("flush")) BY <1>2, <2>5 DEF Join
    <3> QED BY <3>1
  <2> QED BY <2>1, <2>2, <2>3, <2>4, <2>5
<1> PICK r \in PC : Moved(r) BY <1>3
<1>4. pc' \in [Procs -> PC] BY <1>2
<1>5. todo' \in [Procs -> [Flushers -> SUBSET Devices]]
  <2>1. CASE Wake(p)
    <3>1. todo' = [todo EXCEPT ![p].thread = {d \in Devices : Due(p, d)}] BY <2>1 DEF Wake
    <3> DEFINE due == {d \in Devices : Due(p, d)}
    <3>2. due \in SUBSET Devices OBVIOUS
    <3> HIDE DEF due
    <3> QED BY <3>1, <3>2 DEF IInv, TypeOK, Flushers
  <2>2. CASE Join(p)
    <3> DEFINE open == {d \in Devices : window[p][d].open}
    <3>1. todo' = [todo EXCEPT ![p].main = open] BY <2>2 DEF Join
    <3>2. open \in SUBSET Devices OBVIOUS
    <3> HIDE DEF open
    <3> QED BY <3>1, <3>2 DEF IInv, TypeOK, Flushers
  <2>3. CASE Sleep(p) \/ Stop(p) \/ EndThread(p)
    BY <2>3 DEF IInv, TypeOK, Sleep, Stop, EndThread
  <2> QED BY <2>1, <2>2, <2>3
<1>6. \A q \in Procs, f \in Flushers : pc'[q][f] = "put" <=> pc[q][f] = "put"
  <2>1. \A q \in Procs \ {p} : pc'[q] = pc[q] BY <1>2
  <2>2. pc'[p] = r BY <1>2
  <2> QED BY <2>1, <2>2 DEF Flushers
<1>7. \A q \in Procs : pc'[q].main = "exited" => pc[q].main = "exited" /\ pc'[q].thread = "ended"
  BY <1>2 DEF IInv, SlotsOK
<1> HIDE DEF Moved
<1> QED BY <1>1, <1>4, <1>5, <1>6, <1>7, ControlKeeps

-----------------------------------------------------------------------------
(* A frame arrives.                                                        *)

\* The new frame is newer than all others; what the full buffer drops is older
\* than what it keeps.
LEMMA AddKeeps ==
  ASSUME ArchiverAssumption, IInv, NEW p \in Procs, NEW d \in Devices, Add(p, d)
  PROVE  IInv'
<1> DEFINE n == count + 1
           L == window[p][d].lines \cup {n}
           K == KeepNewest(L)
<1> USE DEF IInv
<1>1. /\ count \in Nat /\ n \in Nat /\ n <= MaxFrames /\ count' = n /\ n \in Frames
      /\ now \in Nat /\ n \in 1 .. n
      /\ \A i \in 1 .. count : i \in 1 .. n /\ i \in Nat /\ i < n /\ i # n
      /\ \A i \in 1 .. n : i \in 1 .. count \/ i = n
  <2>1. count \in Nat /\ MaxFrames \in Nat /\ count < MaxFrames /\ now \in Nat /\ count' = n
    BY CountType DEF Add
  <2> QED BY <2>1 DEF Frames
<1>2. window[p][d] \in Windows /\ window[p][d].lines \subseteq 1 .. count
      /\ window[p][d].opened \in 0 .. MaxTime
  BY WindowType DEF WindowsOK
<1>3. L \in SUBSET Frames BY <1>1, <1>2, WindowType
<1>4. PICK m \in Nat : K = {i \in L : i >= m} BY <1>3, KeepNewestCuts
<1>5. /\ dropped' = dropped \cup (L \ K)
      /\ UNCHANGED <<now, pid, seq, pc, todo, held, objects, lost>>
      /\ pc[p].main = "serving"
  BY DEF Add
<1> HIDE DEF K
<1>6. K \subseteq L /\ \A i \in L \ K, j \in K : i < j
  <2>1. \A i \in L : i \in Nat BY <1>1, <1>2
  <2> QED BY <1>4, <2>1
<1>7. /\ \A i \in 1 .. count : owner'[i] = owner[i]
      /\ owner'[n] = <<p, d>>
      /\ owner' \in [1 .. n -> Procs \X Devices]
  <2>1. owner' = [j \in 1 .. n |-> IF j = n THEN <<p, d>> ELSE owner[j]] BY DEF Add
  <2>2. \A i \in 1 .. count : owner[i] \in Procs \X Devices BY DEF TypeOK
  <2> QED BY <1>1, <2>1, <2>2
<1> DEFINE new == [open |-> TRUE, lines |-> K,
                   opened |-> IF window[p][d].open THEN window[p][d].opened ELSE now]
<1>8. window' = [window EXCEPT ![p][d] = new] BY DEF Add, K
<1>9. new \in Windows
  <2>1. K \in SUBSET Frames BY <1>3, <1>6
  <2>2. now \in 0 .. MaxTime BY DEF TypeOK
  <2> QED BY <1>2, <2>1, <2>2 DEF Windows
<1> HIDE DEF new
<1>10. /\ window' \in [Procs -> [Devices -> Windows]]
       /\ window'[p][d] = new
       /\ \A q \in Procs, e \in Devices : q # p \/ e # d => window'[q][e] = window[q][e]
  <2>1. [window[p] EXCEPT ![d] = new] \in [Devices -> Windows] BY <1>9 DEF TypeOK
  <2> QED BY <1>8, <2>1 DEF TypeOK
<1>11. new.lines = K /\ new.open
       /\ new.opened = IF window[p][d].open THEN window[p][d].opened ELSE now
  BY DEF new
<1>12. Pieces' = Pieces BY <1>5 DEF Pieces
<1>13. TypeOK'
  <2>1. dropped' \subseteq 1 .. n BY <1>1, <1>2, <1>5 DEF TypeOK
  <2>2. lost' \subseteq 1 .. n BY <1>1, <1>5 DEF TypeOK
  <2>3. count' \in 0 .. MaxFrames BY <1>1
  <2> QED BY <1>1, <1>5, <1>7, <1>10, <2>1, <2>2, <2>3 DEF TypeOK
<1>14. ~ InWindow(n) /\ ~ InPiece(n) /\ n \notin dropped /\ n \notin lost
  <2>1. ~ InWindow(n) BY <1>1 DEF InWindow, WindowsOK
  <2>2. ASSUME NEW o \in Pieces PROVE n \notin o.lines
    <3>1. CASE Real(o) BY <3>1, <1>1 DEF KeysPast
    <3>2. CASE ~ Real(o) BY <3>2 DEF Real, Nothing
    <3> QED BY <3>1, <3>2
  <2>3. ~ InPiece(n) BY <2>2 DEF InPiece
  <2>4. n \notin dropped /\ n \notin lost BY <1>1 DEF TypeOK
  <2> QED BY <2>1, <2>3, <2>4
<1>15. \A i \in 1 .. n : InPiece(i)' <=> InPiece(i) BY <1>12 DEF InPiece
<1>16. ASSUME NEW i \in 1 .. n
       PROVE  InWindow(i)' <=> i \in K \/ (InWindow(i) /\ i \notin L)
  <2>1. InWindow(i)' <=> \/ i \in K
                         \/ \E q \in Procs, e \in Devices :
                              (q # p \/ e # d) /\ i \in window[q][e].lines
    BY <1>10, <1>11 DEF InWindow
  <2>2. ASSUME NEW q \in Procs, NEW e \in Devices, q # p \/ e # d, i \in window[q][e].lines
        PROVE  InWindow(i) /\ i \notin L
    <3>1. InWindow(i) BY <2>2 DEF InWindow
    <3>2. owner[i] = <<q, e>> /\ i \in 1 .. count BY <2>2 DEF WindowsOK
    <3>3. i \in window[p][d].lines => owner[i] = <<p, d>> BY DEF WindowsOK
    <3> QED BY <2>2, <3>1, <3>2, <3>3, <1>1
  <2>3. ASSUME InWindow(i), i \notin L
        PROVE  \E q \in Procs, e \in Devices : (q # p \/ e # d) /\ i \in window[q][e].lines
    BY <2>3 DEF InWindow
  <2> QED BY <2>1, <2>2, <2>3
<1>17. Accounted'
  <2> SUFFICES ASSUME NEW i \in 1 .. n
               PROVE  /\ InWindow(i)' \/ InPiece(i)' \/ i \in dropped' \/ i \in lost
                      /\ InWindow(i)' => ~InPiece(i)' /\ i \notin dropped' /\ i \notin lost
                      /\ InPiece(i)' => i \notin dropped' /\ i \notin lost
                      /\ i \in dropped' => i \notin lost
    BY <1>1, <1>5 DEF Accounted
  <2>1. i \in L => i = n \/ InWindow(i) BY DEF InWindow
  <2>2. i = n => i \in L OBVIOUS
  <2>3. i \in dropped' <=> i \in dropped \/ (i \in L /\ i \notin K) BY <1>5
  <2>4. i \in 1 .. count =>
          /\ InWindow(i) \/ InPiece(i) \/ i \in dropped \/ i \in lost
          /\ InWindow(i) => ~InPiece(i) /\ i \notin dropped /\ i \notin lost
          /\ InPiece(i) => i \notin dropped /\ i \notin lost
          /\ i \in dropped => i \notin lost
    BY DEF Accounted
  <2>5. i \in K => i \in L BY <1>6
  <2>6. i \in 1 .. count \/ i = n BY <1>1
  <2> HIDE DEF L
  <2> QED BY <1>14, <1>15, <1>16, <2>1, <2>2, <2>3, <2>4, <2>5, <2>6
<1>18. WindowsOK'
  <2> SUFFICES ASSUME NEW q \in Procs, NEW e \in Devices
               PROVE  /\ window'[q][e].lines \subseteq 1 .. n
                      /\ \A i \in window'[q][e].lines : owner'[i] = <<q, e>>
                      /\ ~window'[q][e].open => window'[q][e].lines = {}
                      /\ window'[q][e].open => window'[q][e].opened <= now
                      /\ pc[q].main = "exited" => ~window'[q][e].open
    BY <1>1, <1>5 DEF WindowsOK
  <2>1. CASE q # p \/ e # d
    <3>1. window'[q][e] = window[q][e] BY <2>1, <1>10
    <3>2. /\ window[q][e].lines \subseteq 1 .. count
          /\ \A i \in window[q][e].lines : owner[i] = <<q, e>>
      BY DEF WindowsOK
    <3>3. \A i \in window[q][e].lines : i \in 1 .. n /\ owner'[i] = <<q, e>>
      BY <3>2, <1>1, <1>7
    <3> QED BY <3>1, <3>3 DEF WindowsOK
  <2>2. CASE q = p /\ e = d
    <3>1. K \subseteq 1 .. n BY <1>1, <1>2, <1>6
    <3>2. \A i \in K : owner'[i] = <<p, d>> BY <1>1, <1>2, <1>6, <1>7 DEF WindowsOK
    <3>3. new.opened <= now BY <1>1, <1>11 DEF WindowsOK
    <3> QED BY <2>2, <3>1, <3>2, <3>3, <1>5, <1>10, <1>11
  <2> QED BY <2>1, <2>2
<1>19. SlotsOK' BY <1>5 DEF SlotsOK
<1>20. PiecesDiffer' BY <1>12 DEF PiecesDiffer
<1>21. KeysPast'
  <2> SUFFICES ASSUME NEW o \in Pieces, Real(o)
               PROVE  /\ o.lines \subseteq 1 .. n
                      /\ o.key.opened <= now
                      /\ \A q \in Procs : PastFor(o, q)'
    BY <1>1, <1>5, <1>12 DEF KeysPast
  <2>1. o.lines \subseteq 1 .. n /\ o.key.opened <= now BY <1>1 DEF KeysPast
  <2>2. ASSUME NEW q \in Procs PROVE PastFor(o, q)'
    <3>1. PastFor(o, q) BY DEF KeysPast
    <3>2. BeforeAll(q, o.key.opened) => BeforeAll(q, o.key.opened)'
      BY <1>5, <1>10, <1>11 DEF BeforeAll
    <3> QED BY <1>5, <3>1, <3>2 DEF PastFor
  <2> QED BY <2>1, <2>2
\* A piece of frame numbers has earlier numbers than the new one.
<1>22. ASSUME NEW o \in Pieces, NEW i \in o.lines PROVE Real(o) /\ i \in 1 .. count /\ i < n
  <2>1. Real(o) BY <1>22 DEF Real, Nothing
  <2> QED BY <1>1, <2>1 DEF KeysPast
<1>23. PiecesOlder'
  <2> SUFFICES ASSUME NEW o \in Pieces, NEW i \in o.lines, NEW q \in Procs, NEW e \in Devices,
                      owner'[i] = <<q, e>>
               PROVE  OlderThan(o, i, q, e)'
    BY <1>12 DEF PiecesOlder
  <2>1. owner[i] = <<q, e>> BY <1>7, <1>22
  <2>2. OlderThan(o, i, q, e) BY <2>1 DEF PiecesOlder
  <2>3. CASE q # p \/ e # d BY <2>2, <2>3, <1>10 DEF OlderThan
  <2>4. CASE q = p /\ e = d
    <3>1. \A j \in K : i < j BY <2>2, <2>4, <1>6, <1>22 DEF OlderThan
    <3>2. o.key.opened <= now BY <1>22 DEF KeysPast
    <3>3. o.key.opened <= new.opened BY <2>2, <2>4, <3>2, <1>11 DEF OlderThan
    <3> QED BY <2>4, <3>1, <3>3, <1>10, <1>11 DEF OlderThan
  <2> QED BY <2>3, <2>4
<1>24. PiecesInOrder'
  <2> SUFFICES ASSUME NEW o \in Pieces, NEW x \in Pieces PROVE InOrder(o, x)'
    BY <1>12 DEF PiecesInOrder
  <2>1. InOrder(o, x) BY DEF PiecesInOrder
  <2> QED BY <2>1, <1>7, <1>22 DEF InOrder
<1>25. DropsOldest'
  <2> SUFFICES ASSUME NEW i \in dropped', NEW q \in Procs, NEW e \in Devices,
                      owner'[i] = <<q, e>>, NEW j \in window'[q][e].lines
               PROVE  i < j
    BY DEF DropsOldest
  <2>1. CASE i \in dropped
    <3>1. i \in 1 .. count /\ owner[i] = <<q, e>> BY <2>1, <1>7 DEF TypeOK
    <3>2. j \in window[q][e].lines \/ j = n BY <1>6, <1>10, <1>11
    <3> QED BY <2>1, <3>1, <3>2, <1>1 DEF DropsOldest
  <2>2. CASE i \in L \ K
    <3>1. owner'[i] = <<p, d>> BY <2>2, <1>1, <1>2, <1>7 DEF WindowsOK
    <3>2. q = p /\ e = d BY <3>1
    <3>3. j \in K BY <3>2, <1>10, <1>11
    <3> QED BY <2>2, <3>3, <1>6
  <2> QED BY <1>5, <2>1, <2>2
<1>26. SeqBound'
  <2> SUFFICES ASSUME NEW q \in Procs PROVE seq[q] <= Cardinality(Out(q)')
    BY <1>5 DEF SeqBound
  <2>1. Out(q) \subseteq Out(q)'
    <3> SUFFICES ASSUME NEW i \in Out(q) PROVE i \in Out(q)' OBVIOUS
    <3>1. i \in 1 .. count /\ owner[i][1] = q /\ i \notin Buffered(q) /\ i \notin dropped
      BY DEF Out
    <3>2. i \in 1 .. n /\ i # n /\ owner'[i][1] = q BY <3>1, <1>1, <1>7
    <3>3. i \notin L \/ q # p BY <3>1, <3>2 DEF Buffered
    <3>4. i \notin Buffered(q)' BY <3>1, <3>3, <1>6, <1>10, <1>11 DEF Buffered
    <3>5. i \notin dropped'
      <4>1. i \in L => owner[i] = <<p, d>> BY <3>2 DEF WindowsOK
      <4>2. i \in L => q = p BY <4>1, <3>1
      <4> QED BY <3>1, <3>3, <4>2, <1>5
    <3> QED BY <1>1, <3>2, <3>4, <3>5 DEF Out
  <2>2. IsFiniteSet(Out(q)')
    <3>1. IsFiniteSet(1 .. n) BY <1>1, FS_Interval
    <3>2. Out(q)' \subseteq 1 .. n BY <1>1 DEF Out
    <3> QED BY <3>1, <3>2, FS_Subset
  <2>3. /\ Cardinality(Out(q)) <= Cardinality(Out(q)')
        /\ Cardinality(Out(q)) \in Nat /\ Cardinality(Out(q)') \in Nat
    BY <2>1, <2>2, FS_Subset, FS_CardinalityType
  <2>4. seq[q] <= Cardinality(Out(q)) BY DEF SeqBound
  <2>5. seq[q] \in Nat BY CountType DEF TypeOK
  <2> QED BY <2>3, <2>4, <2>5
<1> QED
  BY <1>13, <1>17, <1>18, <1>19, <1>20, <1>21, <1>23, <1>24, <1>25, <1>26

-----------------------------------------------------------------------------
(* A window is taken.                                                      *)

\* The lines of a window that is taken were in no piece, and its key is new.
LEMMA TakeKeeps ==
  ASSUME ArchiverAssumption, IInv, NEW p \in Procs, NEW f \in Flushers, NEW d \in Devices,
         Take(p, f, d)
  PROVE  IInv'
<1> DEFINE L == window[p][d].lines
           K == [key |-> ObjectKey(p, d), lines |-> L]
<1> USE DEF IInv
<1>1. /\ UNCHANGED <<now, pid, count, owner, objects, dropped, lost>>
      /\ pc[p][f] = "flush" /\ d \in todo[p][f]
      /\ todo' = [todo EXCEPT ![p][f] = @ \ {d}]
      /\ window' = [window EXCEPT ![p][d] = NoWindow]
  BY DEF Take, frameVars
<1>2. held[p][f] = Nothing BY <1>1 DEF SlotsOK, Real
<1>3. todo' \in [Procs -> [Flushers -> SUBSET Devices]]
  <2> DEFINE rest == todo[p][f] \ {d}
             row  == [todo[p] EXCEPT ![f] = rest]
  <2>1. todo[p] \in [Flushers -> SUBSET Devices] BY DEF TypeOK
  <2>2. row \in [Flushers -> SUBSET Devices] BY <2>1
  <2>3. todo' = [todo EXCEPT ![p] = row] BY <1>1
  <2> HIDE DEF row
  <2> QED BY <2>2, <2>3 DEF TypeOK
<1>4. /\ window' \in [Procs -> [Devices -> Windows]]
      /\ window'[p][d] = NoWindow
      /\ \A q \in Procs, e \in Devices : q # p \/ e # d => window'[q][e] = window[q][e]
  <2>1. NoWindow \in Windows BY CountType DEF NoWindow, Windows
  <2>2. [window[p] EXCEPT ![d] = NoWindow] \in [Devices -> Windows] BY <2>1 DEF TypeOK
  <2> QED BY <1>1, <2>2 DEF TypeOK
<1>5. \A q \in Procs, e \in Devices :
        window'[q][e] = window[q][e] \/ window'[q][e] = NoWindow
  BY <1>4
<1>6. /\ L \subseteq 1 .. count /\ \A i \in L : owner[i] = <<p, d>>
      /\ L # {} => window[p][d].open
  BY DEF WindowsOK
<1>7. ~NoWindow.open /\ NoWindow.lines = {} BY DEF NoWindow
<1>8. DropsOldest'
  BY <1>1, <1>4, <1>5, <1>7 DEF DropsOldest
<1>9. ASSUME NEW i PROVE InWindow(i)' <=> InWindow(i) /\ i \notin L
  <2>1. InWindow(i)' <=> \E q \in Procs, e \in Devices :
                           (q # p \/ e # d) /\ i \in window[q][e].lines
    BY <1>4, <1>7 DEF InWindow
  <2>2. ASSUME NEW q \in Procs, NEW e \in Devices, q # p \/ e # d, i \in window[q][e].lines
        PROVE  InWindow(i) /\ i \notin L
    <3>1. owner[i] = <<q, e>> BY <2>2 DEF WindowsOK
    <3> QED BY <2>2, <3>1, <1>6 DEF InWindow
  <2> QED BY <2>1, <2>2 DEF InWindow
\* The window had no lines: it is closed.
<1>10. CASE L = {}
  <2>1. UNCHANGED <<seq, pc, held>> BY <1>10 DEF Take
  <2>2. Pieces' = Pieces BY <1>1, <2>1 DEF Pieces
  <2>3. TypeOK' BY <1>1, <1>3, <1>4, <2>1 DEF TypeOK
  <2>4. SeqBound'
    <3>1. \A q \in Procs : Buffered(q)' = Buffered(q)
      BY <1>4, <1>7, <1>10 DEF Buffered
    <3>2. \A q \in Procs : Out(q)' = Out(q) BY <1>1, <3>1 DEF Out
    <3> QED BY <2>1, <3>2 DEF SeqBound
  <2>5. Accounted' BY <1>1, <1>9, <1>10, <2>2 DEF Accounted, InPiece
  <2>6. WindowsOK'
    <3> SUFFICES ASSUME NEW q \in Procs, NEW e \in Devices
                 PROVE  /\ window'[q][e].lines \subseteq 1 .. count
                        /\ \A i \in window'[q][e].lines : owner[i] = <<q, e>>
                        /\ ~window'[q][e].open => window'[q][e].lines = {}
                        /\ window'[q][e].open => window'[q][e].opened <= now
                        /\ pc[q].main = "exited" => ~window'[q][e].open
      BY <1>1, <2>1 DEF WindowsOK
    <3>1. window'[q][e] = window[q][e] \/ window'[q][e] = NoWindow BY <1>5
    <3> QED BY <3>1, <1>7 DEF WindowsOK
  <2>7. SlotsOK' BY <1>1, <2>1 DEF SlotsOK
  <2>8. PiecesDiffer' /\ PiecesOlder' /\ PiecesInOrder'
    BY <1>1, <1>5, <2>2, OrderStays
  <2>9. KeysPast' BY <1>1, <1>5, <2>1, <2>2, KeysStay
  <2> QED BY <1>8, <2>3, <2>4, <2>5, <2>6, <2>7, <2>8, <2>9
\* The lines become a piece.
<1>11. CASE L # {}
  <2>1. /\ seq' = [seq EXCEPT ![p] = @ + 1]
        /\ held' = [held EXCEPT ![p][f] = K]
        /\ pc' = [pc EXCEPT ![p][f] = "put"]
    BY <1>11 DEF Take
  <2>2. /\ seq[p] \in Nat /\ seq'[p] = seq[p] + 1
        /\ \A q \in Procs \ {p} : seq'[q] = seq[q]
    BY <2>1 DEF TypeOK
\* The number of the new object is in range: a take takes a frame at least.
  <2>3. /\ Cardinality(Out(p)) + 1 <= Cardinality(Out(p)')
        /\ Cardinality(Out(p)') <= count
        /\ Cardinality(Out(p)) \in Nat /\ Cardinality(Out(p)') \in Nat
    <3>1. PICK i \in L : TRUE BY <1>11
    <3>2. i \notin Out(p) BY <3>1 DEF Out, Buffered
    <3>3. i \in Out(p)'
      <4>1. i \in 1 .. count /\ owner[i] = <<p, d>> BY <3>1, <1>6
      <4>2. InWindow(i) BY <3>1 DEF InWindow
      <4>3. i \notin dropped BY <4>1, <4>2 DEF Accounted
      <4>4. ~ InWindow(i)' BY <1>9, <3>1
      <4>5. i \notin Buffered(p)' BY <4>4 DEF InWindow, Buffered
      <4> QED BY <1>1, <4>1, <4>3, <4>5 DEF Out
    <3>4. Out(p) \subseteq Out(p)'
      <4>1. Buffered(p)' \subseteq Buffered(p) BY <1>4, <1>5, <1>7 DEF Buffered
      <4> QED BY <1>1, <4>1 DEF Out
    <3>5. count \in Nat /\ IsFiniteSet(1 .. count) /\ Cardinality(1 .. count) = count
      <4>1. count \in Nat BY CountType
      <4> QED BY <4>1, FS_Interval
    <3>6. Out(p)' \subseteq 1 .. count BY <1>1 DEF Out
    <3>7. IsFiniteSet(Out(p)') /\ Cardinality(Out(p)') <= count BY <3>5, <3>6, FS_Subset
    <3>8. IsFiniteSet(Out(p)) BY <3>4, <3>7, FS_Subset
    <3>9. Out(p) \cup {i} \subseteq Out(p)' BY <3>3, <3>4
    <3>10. Cardinality(Out(p) \cup {i}) = Cardinality(Out(p)) + 1
      BY <3>2, <3>8, FS_AddElement
    <3>11. Cardinality(Out(p) \cup {i}) <= Cardinality(Out(p)') BY <3>7, <3>9, FS_Subset
    <3> QED BY <3>7, <3>8, <3>10, <3>11, FS_CardinalityType
  <2>4. seq'[p] <= Cardinality(Out(p)') /\ seq'[p] <= MaxFrames /\ seq'[p] \in Frames
    <3>1. seq[p] <= Cardinality(Out(p)) BY DEF SeqBound
    <3> QED BY <2>2, <2>3, <3>1, CountType DEF Frames
  <2>5. SeqBound'
    <3>1. ASSUME NEW q \in Procs, q # p PROVE seq'[q] <= Cardinality(Out(q)')
      <4>1. Buffered(q)' = Buffered(q) BY <1>4, <3>1 DEF Buffered
      <4>2. Out(q)' = Out(q) BY <1>1, <4>1 DEF Out
      <4> QED BY <2>2, <3>1, <4>2 DEF SeqBound
    <3> QED BY <2>4, <3>1 DEF SeqBound
  <2>6. /\ K \in Objects /\ K.lines = L /\ Real(K)
        /\ K.key.device = d /\ K.key.opened = window[p][d].opened
        /\ K.key.pid = pid[p] /\ K.key.seq = seq[p] + 1
    <3>1. /\ window[p][d].opened \in 0 .. MaxTime /\ pid[p] \in Pids /\ L \in SUBSET Frames
      BY WindowType DEF TypeOK
    <3>2. ObjectKey(p, d) \in Keys BY <2>2, <2>4, <3>1 DEF ObjectKey, Keys
    <3>3. K \in Objects BY <1>11, <3>1, <3>2 DEF Objects
    <3>4. K.lines = L OBVIOUS
    <3>5. Real(K) BY <1>11, <3>4 DEF Real, Nothing
    <3> QED BY <3>3, <3>4, <3>5 DEF ObjectKey
  <2> HIDE DEF K
  <2>7. /\ held'[p][f] = K
        /\ \A q \in Procs, g \in Flushers : q # p \/ g # f => held'[q][g] = held[q][g]
        /\ held' \in [Procs -> [Flushers -> {Nothing} \cup Objects]]
    <3>1. held[p] \in [Flushers -> {Nothing} \cup Objects] BY DEF TypeOK
    <3>2. [held[p] EXCEPT ![f] = K] \in [Flushers -> {Nothing} \cup Objects]
      BY <2>6, <3>1
    <3> QED BY <2>1, <3>1, <3>2 DEF TypeOK
  <2>8. /\ \A o \in Pieces' : o \in Pieces \/ o = K
        /\ \A o \in Pieces : Real(o) => o \in Pieces'
        /\ K \in Pieces'
    <3>1. \A o \in Pieces' : o \in Pieces \/ o = K BY <1>1, <2>7 DEF Pieces
    <3>2. K \in Pieces' BY <2>7 DEF Pieces
    <3>3. ASSUME NEW o \in Pieces, Real(o) PROVE o \in Pieces'
      <4>1. CASE o \in objects BY <4>1, <1>1 DEF Pieces
      <4>2. ASSUME NEW q \in Procs, NEW g \in Flushers, o = held[q][g] PROVE o \in Pieces'
        <5>1. q # p \/ g # f BY <4>2, <3>3, <1>2 DEF Real
        <5>2. held'[q][g] = o BY <5>1, <4>2, <2>7
        <5> QED BY <5>2 DEF Pieces
      <4> QED BY <4>1, <4>2 DEF Pieces
    <3> QED BY <3>1, <3>2, <3>3
  <2>9. ASSUME NEW i \in L PROVE ~ InPiece(i) /\ i \notin dropped /\ i \notin lost
    <3>1. InWindow(i) /\ i \in 1 .. count BY <1>6 DEF InWindow
    <3> QED BY <3>1 DEF Accounted
  <2>10. ASSUME NEW i PROVE InPiece(i)' <=> InPiece(i) \/ i \in L
    <3>1. ASSUME NEW o \in Pieces, i \in o.lines PROVE InPiece(i)'
      <4>1. Real(o) BY <3>1 DEF Real, Nothing
      <4> QED BY <3>1, <4>1, <2>8 DEF InPiece
    <3>2. i \in L => InPiece(i)' BY <2>6, <2>8 DEF InPiece
    <3>3. InPiece(i)' => InPiece(i) \/ i \in L BY <2>6, <2>8 DEF InPiece
    <3> QED BY <3>1, <3>2, <3>3 DEF InPiece
  <2>11. Accounted'
    <3> SUFFICES ASSUME NEW i \in 1 .. count
                 PROVE  /\ InWindow(i)' \/ InPiece(i)' \/ i \in dropped \/ i \in lost
                        /\ InWindow(i)' => ~InPiece(i)' /\ i \notin dropped /\ i \notin lost
                        /\ InPiece(i)' => i \notin dropped /\ i \notin lost
                        /\ i \in dropped => i \notin lost
      BY <1>1 DEF Accounted
    <3> HIDE DEF L
    <3> QED BY <1>9, <2>9, <2>10 DEF Accounted
\* The control of the flusher.
  <2>12. /\ \A q \in Procs \ {p} : pc'[q] = pc[q]
         /\ pc'[p][f] = "put" /\ \A g \in Flushers : g # f => pc'[p][g] = pc[p][g]
         /\ pc' \in [Procs -> [main : {"serving", "join", "flush", "put", "exited"},
                               thread : {"wait", "flush", "put", "ended"}]]
    <3> DEFINE PC == [main : {"serving", "join", "flush", "put", "exited"},
                      thread : {"wait", "flush", "put", "ended"}]
    <3>1. pc \in [Procs -> PC] BY DEF TypeOK
    <3>2. [pc[p] EXCEPT ![f] = "put"] \in PC BY <3>1 DEF Flushers
    <3>3. \A g \in Flushers : g # f => [pc[p] EXCEPT ![f] = "put"][g] = pc[p][g]
      BY <3>1 DEF Flushers
    <3>4. [pc[p] EXCEPT ![f] = "put"][f] = "put" BY <3>1 DEF Flushers
    <3> QED BY <2>1, <3>1, <3>2, <3>3, <3>4
  <2>13. TypeOK'
    <3>1. seq' \in [Procs -> 0 .. MaxFrames]
      <4>1. seq[p] + 1 \in 0 .. MaxFrames BY <2>2, <2>4, CountType DEF Frames
      <4> QED BY <2>1, <4>1 DEF TypeOK
    <3> QED BY <1>1, <1>3, <1>4, <2>7, <2>12, <3>1 DEF TypeOK
  <2>14. pc[p].main # "exited"
    <3>1. pc[p].main = "exited" => ~window[p][d].open BY DEF WindowsOK
    <3> QED BY <3>1, <1>6, <1>11
  <2>15. \A q \in Procs : pc'[q].main = "exited" => pc[q].main = "exited" /\ pc'[q] = pc[q]
    <3>1. pc'[p].main = "put" \/ pc'[p].main = pc[p].main
      BY <2>12 DEF Flushers
    <3> QED BY <2>12, <2>14, <3>1
  <2>16. WindowsOK'
    <3> SUFFICES ASSUME NEW q \in Procs, NEW e \in Devices
                 PROVE  /\ window'[q][e].lines \subseteq 1 .. count
                        /\ \A i \in window'[q][e].lines : owner[i] = <<q, e>>
                        /\ ~window'[q][e].open => window'[q][e].lines = {}
                        /\ window'[q][e].open => window'[q][e].opened <= now
                        /\ pc'[q].main = "exited" => ~window'[q][e].open
      BY <1>1 DEF WindowsOK
    <3>1. window'[q][e] = window[q][e] \/ window'[q][e] = NoWindow BY <1>5
    <3>2. pc'[q].main = "exited" => pc[q].main = "exited" BY <2>15
    <3> QED BY <3>1, <3>2, <1>7 DEF WindowsOK
  <2>17. K \notin Pieces
    <3>1. PICK i \in L : TRUE BY <1>11
    <3> QED BY <2>6, <2>9, <3>1 DEF InPiece
  <2>18. SlotsOK'
    <3> SUFFICES ASSUME NEW q \in Procs
                 PROVE  /\ pc'[q].main = "exited" => pc'[q].thread = "ended"
                        /\ \A g \in Flushers :
                             /\ pc'[q][g] = "put" <=> Real(held'[q][g])
                             /\ Real(held'[q][g]) =>
                                  /\ held'[q][g] \notin objects
                                  /\ \A r \in Procs, h \in Flushers :
                                       held'[r][h] = held'[q][g] => r = q /\ h = g
      BY <1>1 DEF SlotsOK, Real
    <3>1. pc'[q].main = "exited" => pc'[q].thread = "ended" BY <2>15 DEF SlotsOK
    <3>2. ASSUME NEW g \in Flushers
          PROVE  /\ pc'[q][g] = "put" <=> Real(held'[q][g])
                 /\ Real(held'[q][g]) =>
                      /\ held'[q][g] \notin objects
                      /\ \A r \in Procs, h \in Flushers :
                           held'[r][h] = held'[q][g] => r = q /\ h = g
      <4>1. CASE q = p /\ g = f
        <5>1. K \notin objects /\ \A r \in Procs, h \in Flushers : held[r][h] # K
          BY <2>17 DEF Pieces
        <5> QED BY <4>1, <5>1, <2>6, <2>7, <2>12
      <4>2. CASE q # p \/ g # f
        <5>1. held'[q][g] = held[q][g] /\ held[q][g] # K
          BY <4>2, <2>7, <2>17 DEF Pieces
        <5>2. pc'[q][g] = pc[q][g] BY <4>2, <2>12
        <5>3. \A r \in Procs, h \in Flushers : held'[r][h] = held[q][g] => held[r][h] = held[q][g]
          BY <5>1, <2>7
        <5> QED BY <5>1, <5>2, <5>3 DEF SlotsOK
      <4> QED BY <4>1, <4>2
    <3> QED BY <3>1, <3>2
\* The key is new: no piece of this process has the number, and none of a former
\* process with the same id the instant.
  <2>19. ASSUME NEW o \in Pieces, Real(o) PROVE o.key # K.key
    <3>1. o \in Objects /\ PastFor(o, p) BY <2>19, PieceType DEF Real, KeysPast
    <3>2. o.key.opened \in Nat /\ window[p][d].opened \in Nat /\ o.key.seq \in Nat
      BY <3>1, WindowType, CountType DEF Objects, Keys, Frames
    <3>3. CASE o.key.pid # pid[p] BY <3>3, <2>6
    <3>4. CASE o.key.seq <= seq[p] BY <3>2, <3>4, <2>2, <2>6
    <3>5. CASE o.key.opened < window[p][d].opened BY <3>2, <3>5, <2>6
    <3> QED BY <3>1, <3>3, <3>4, <3>5, <1>6, <1>11 DEF PastFor, BeforeAll
  <2>20. PiecesDiffer'
    <3> SUFFICES ASSUME NEW o \in Pieces', NEW x \in Pieces', Real(o), Real(x), o # x
                 PROVE  o.key # x.key /\ o.lines \cap x.lines = {}
      BY DEF PiecesDiffer, Real
    <3>1. \A y \in Pieces : y.lines \cap L = {} BY <2>9 DEF InPiece
    <3>2. CASE o \in Pieces /\ x \in Pieces BY <3>2 DEF PiecesDiffer
    <3>3. CASE o \in Pieces /\ x = K BY <3>1, <3>3, <2>6, <2>19
    <3>4. CASE o = K /\ x \in Pieces BY <3>1, <3>4, <2>6, <2>19
    <3> QED BY <2>8, <3>2, <3>3, <3>4
  <2>21. KeysPast'
    <3> SUFFICES ASSUME NEW o \in Pieces', Real(o)
                 PROVE  /\ o.lines \subseteq 1 .. count
                        /\ o.key.opened <= now
                        /\ \A q \in Procs : PastFor(o, q)'
      BY <1>1 DEF KeysPast, Real
    <3>1. CASE o = K
      <4>1. o.key.opened <= now BY <3>1, <2>6, <1>6, <1>11 DEF WindowsOK
      <4>2. ASSUME NEW q \in Procs PROVE PastFor(o, q)'
        <5>1. CASE q = p BY <5>1, <3>1, <2>2, <2>6 DEF PastFor
        <5>2. CASE q # p
          <6>1. pid[q] # pid[p] BY <5>2 DEF TypeOK
          <6> QED BY <1>1, <3>1, <6>1, <2>6 DEF PastFor
        <5> QED BY <5>1, <5>2
      <4> QED BY <3>1, <4>1, <4>2, <1>6, <2>6
    <3>2. CASE o \in Pieces
      <4>1. ASSUME NEW q \in Procs PROVE PastFor(o, q)'
        <5>1. PastFor(o, q) BY <3>2 DEF KeysPast
        <5>2. BeforeAll(q, o.key.opened) => BeforeAll(q, o.key.opened)'
          BY <1>1, <1>5, <1>7 DEF BeforeAll
        <5>3. o \in Objects BY <3>2, PieceType DEF Real
        <5>4. o.key.seq \in Nat BY <5>3, CountType DEF Objects, Keys, Frames
        <5>5. o.key.seq <= seq[q] => o.key.seq <= seq'[q] BY <5>4, <2>2
        <5> QED BY <1>1, <5>1, <5>2, <5>5 DEF PastFor
      <4> QED BY <3>2, <4>1 DEF KeysPast
    <3> QED BY <2>8, <3>1, <3>2
  <2>22. PiecesOlder'
    <3> SUFFICES ASSUME NEW o \in Pieces', NEW i \in o.lines, NEW q \in Procs, NEW e \in Devices,
                        owner[i] = <<q, e>>
                 PROVE  OlderThan(o, i, q, e)'
      BY <1>1 DEF PiecesOlder
    <3>1. CASE q = p /\ e = d BY <3>1, <1>4, <1>7 DEF OlderThan
    <3>2. CASE q # p \/ e # d
      <4>1. o # K BY <3>2, <1>6, <2>6
      <4>2. o \in Pieces BY <4>1, <2>8
      <4>3. OlderThan(o, i, q, e) BY <4>2 DEF PiecesOlder
      <4> QED BY <4>3, <3>2, <1>4 DEF OlderThan
    <3> QED BY <3>1, <3>2
\* The frames of the window are newer than those of the earlier pieces, and the
\* key does not come before theirs.
  <2>23. ASSUME NEW o \in Pieces PROVE InOrder(o, K) /\ InOrder(K, o)
    <3> SUFFICES ASSUME NEW i \in o.lines, NEW j \in L, owner[i] = owner[j]
                 PROVE  i < j /\ ~ Before(K.key, o.key)
      BY <2>6 DEF InOrder
    <3>1. owner[i] = <<p, d>> BY <1>6
    <3>2. OlderThan(o, i, p, d) BY <3>1 DEF PiecesOlder
    <3>3. i < j /\ o.key.opened <= window[p][d].opened
      BY <3>2, <1>6, <1>11 DEF OlderThan
    <3>4. Real(o) BY DEF Real, Nothing
    <3>5. o \in Objects /\ PastFor(o, p) BY <3>4, PieceType DEF Real, KeysPast
    <3>6. o.key.opened \in Nat /\ window[p][d].opened \in Nat /\ o.key.seq \in Nat
      BY <3>5, WindowType, CountType DEF Objects, Keys, Frames
    <3>7. ~ (window[p][d].opened < o.key.opened) BY <3>3, <3>6
    <3>8. window[p][d].opened = o.key.opened /\ o.key.pid = pid[p] => o.key.seq <= seq[p]
      BY <3>5, <3>6, <1>6, <1>11 DEF PastFor, BeforeAll
    <3>9. o.key.seq <= seq[p] => ~ (seq[p] + 1 < o.key.seq) BY <3>6, <2>2
    <3>10. ~ Before(K.key, o.key) BY <3>7, <3>8, <3>9, <2>6 DEF Before
    <3> QED BY <3>3, <3>10
  <2>24. PiecesInOrder'
    <3> SUFFICES ASSUME NEW o \in Pieces', NEW x \in Pieces' PROVE InOrder(o, x)'
      BY DEF PiecesInOrder
    <3>1. InOrder(K, K)
      <4>1. seq[p] + 1 \in Nat BY <2>2
      <4>2. window[p][d].opened \in Nat BY WindowType, CountType
      <4>3. ~ Before(K.key, K.key) BY <2>6, <4>1, <4>2 DEF Before
      <4> QED BY <4>3 DEF InOrder
    <3>2. InOrder(o, x) BY <2>8, <2>23, <3>1 DEF PiecesInOrder
    <3> QED BY <1>1, <3>2 DEF InOrder
  <2> QED
    BY <1>8, <2>5, <2>11, <2>13, <2>16, <2>18, <2>20, <2>21, <2>22, <2>24
<1> QED BY <1>10, <1>11

-----------------------------------------------------------------------------
(* An upload ends; a process ends and another one takes its place.         *)

\* Fewer lines in the windows only help the bound of the sequence numbers.
LEMMA SeqStays ==
  ASSUME ArchiverAssumption, TypeOK, SeqBound, UNCHANGED <<count, owner, dropped>>,
         seq' \in [Procs -> 0 .. MaxFrames], \A p \in Procs : seq'[p] <= seq[p],
         \A p \in Procs, d \in Devices :
           window'[p][d] = window[p][d] \/ window'[p][d] = NoWindow
  PROVE  SeqBound'
<1> SUFFICES ASSUME NEW p \in Procs PROVE seq'[p] <= Cardinality(Out(p)') BY DEF SeqBound
<1>1. Buffered(p)' \subseteq Buffered(p) BY DEF Buffered, NoWindow
<1>2. Out(p) \subseteq Out(p)' BY <1>1 DEF Out
<1>3. count \in Nat /\ IsFiniteSet(1 .. count)
  <2>1. count \in Nat BY CountType
  <2> QED BY <2>1, FS_Interval
<1>4. Out(p)' \subseteq 1 .. count BY DEF Out
<1>5. IsFiniteSet(Out(p)') BY <1>3, <1>4, FS_Subset
<1>6. IsFiniteSet(Out(p)) /\ Cardinality(Out(p)) <= Cardinality(Out(p)')
  BY <1>2, <1>5, FS_Subset
<1>7. Cardinality(Out(p)) \in Nat /\ Cardinality(Out(p)') \in Nat
  BY <1>5, <1>6, FS_CardinalityType
<1>8. seq[p] <= Cardinality(Out(p)) /\ seq'[p] <= seq[p] BY DEF SeqBound
<1>9. seq[p] \in Nat /\ seq'[p] \in Nat BY CountType DEF TypeOK
<1> QED BY <1>6, <1>7, <1>8, <1>9

\* A window is as before or closed, in a process that does not end.
LEMMA WindowsStay ==
  ASSUME WindowsOK, UNCHANGED <<count, owner, now>>,
         \A p \in Procs : pc'[p].main = "exited" =>
           pc[p].main = "exited" \/ \A d \in Devices : window'[p][d] = NoWindow,
         \A p \in Procs, d \in Devices :
           window'[p][d] = window[p][d] \/ window'[p][d] = NoWindow
  PROVE  WindowsOK'
<1> SUFFICES ASSUME NEW p \in Procs, NEW d \in Devices
             PROVE  /\ window'[p][d].lines \subseteq 1 .. count
                    /\ \A i \in window'[p][d].lines : owner[i] = <<p, d>>
                    /\ ~window'[p][d].open => window'[p][d].lines = {}
                    /\ window'[p][d].open => window'[p][d].opened <= now
                    /\ pc'[p].main = "exited" => ~window'[p][d].open
  BY DEF WindowsOK
<1>1. ~NoWindow.open /\ NoWindow.lines = {} BY DEF NoWindow
<1>2. CASE window'[p][d] = NoWindow BY <1>1, <1>2
<1>3. CASE window'[p][d] = window[p][d] /\ window'[p][d] # NoWindow BY <1>3 DEF WindowsOK
<1> QED BY <1>2, <1>3

\* The slot of flusher f of p is emptied, and f goes on.
SlotEmptied(p, f) ==
  /\ pc[p][f] = "put"
  /\ held' = [held EXCEPT ![p][f] = Nothing]
  /\ pc' = [pc EXCEPT ![p][f] = "flush"]

LEMMA SlotEmptiedType ==
  ASSUME TypeOK, NEW p \in Procs, NEW f \in Flushers, SlotEmptied(p, f)
  PROVE  /\ held'[p][f] = Nothing
         /\ \A q \in Procs, g \in Flushers : q # p \/ g # f => held'[q][g] = held[q][g]
         /\ held' \in [Procs -> [Flushers -> {Nothing} \cup Objects]]
         /\ pc'[p][f] = "flush"
         /\ \A q \in Procs, g \in Flushers : q # p \/ g # f => pc'[q][g] = pc[q][g]
         /\ pc' \in [Procs -> [main : {"serving", "join", "flush", "put", "exited"},
                               thread : {"wait", "flush", "put", "ended"}]]
<1> DEFINE PC == [main : {"serving", "join", "flush", "put", "exited"},
                  thread : {"wait", "flush", "put", "ended"}]
<1>1. held[p] \in [Flushers -> {Nothing} \cup Objects] BY DEF TypeOK
<1>2. [held[p] EXCEPT ![f] = Nothing] \in [Flushers -> {Nothing} \cup Objects] BY <1>1
<1>3. pc \in [Procs -> PC] BY DEF TypeOK
<1>4. [pc[p] EXCEPT ![f] = "flush"] \in PC BY <1>3 DEF Flushers
<1>5. \A g \in Flushers : g # f => [pc[p] EXCEPT ![f] = "flush"][g] = pc[p][g]
  BY <1>3 DEF Flushers
<1>6. [pc[p] EXCEPT ![f] = "flush"][f] = "flush" BY <1>3 DEF Flushers
<1>7. /\ held'[p][f] = Nothing
      /\ \A q \in Procs, g \in Flushers : q # p \/ g # f => held'[q][g] = held[q][g]
      /\ held' \in [Procs -> [Flushers -> {Nothing} \cup Objects]]
  BY <1>1, <1>2 DEF SlotEmptied, TypeOK
<1>8. pc' = [pc EXCEPT ![p] = [pc[p] EXCEPT ![f] = "flush"]] BY <1>3 DEF SlotEmptied
<1>9. /\ pc'[p] = [pc[p] EXCEPT ![f] = "flush"]
      /\ \A q \in Procs \ {p} : pc'[q] = pc[q]
      /\ pc' \in [Procs -> PC]
  BY <1>3, <1>4, <1>8
<1>10. pc'[p][f] = "flush" BY <1>6, <1>9
<1>11. ASSUME NEW q \in Procs, NEW g \in Flushers, q # p \/ g # f PROVE pc'[q][g] = pc[q][g]
  <2>1. CASE q = p BY <2>1, <1>5, <1>9, <1>11
  <2>2. CASE q # p BY <2>2, <1>9
  <2> QED BY <2>1, <2>2
<1> QED BY <1>7, <1>9, <1>10, <1>11

\* A flusher that holds a window runs in a process that has not ended.
LEMMA SlotLive ==
  ASSUME IInv, NEW p \in Procs, NEW f \in Flushers, SlotEmptied(p, f)
  PROVE  \A q \in Procs : /\ pc'[q].main = "exited" => pc[q].main = "exited"
                          /\ pc'[q].main = "exited" => pc'[q].thread = "ended"
<1>1. /\ pc'[p][f] = "flush"
      /\ \A q \in Procs, g \in Flushers : q # p \/ g # f => pc'[q][g] = pc[q][g]
  BY SlotEmptiedType DEF IInv
<1>2. pc[p].main # "exited"
  <2>1. pc[p].main = "exited" => pc[p].thread = "ended" BY DEF IInv, SlotsOK
  <2> QED BY <2>1 DEF SlotEmptied, Flushers
<1>3. pc'[p].main # "exited" BY <1>1, <1>2 DEF Flushers
<1>4. \A q \in Procs \ {p} : pc'[q].main = pc[q].main /\ pc'[q].thread = pc[q].thread
  BY <1>1 DEF Flushers
<1> QED BY <1>3, <1>4 DEF IInv, SlotsOK

\* The object is stored; nothing is overwritten, because its key is new.
LEMMA PutOkKeeps ==
  ASSUME ArchiverAssumption, IInv, NEW p \in Procs, NEW f \in Flushers, PutOk(p, f)
  PROVE  IInv'
<1> DEFINE H == held[p][f]
<1> USE DEF IInv
<1>1. /\ UNCHANGED <<now, pid, window, seq, todo, count, owner, dropped, lost>>
      /\ objects' = {o \in objects : o.key # H.key} \cup {H}
      /\ SlotEmptied(p, f)
  BY DEF PutOk, SlotEmptied
<1>2. /\ Real(H) /\ H \in Pieces /\ H \notin objects /\ H \in Objects
      /\ \A q \in Procs, g \in Flushers : held[q][g] = H => q = p /\ g = f
  <2>1. Real(H) /\ H \in Pieces BY <1>1 DEF SlotsOK, SlotEmptied, Pieces
  <2> QED BY <2>1, PieceType DEF SlotsOK, Real
<1>3. objects' = objects \cup {H}
  <2>1. \A o \in objects : Real(o)
    BY <1>2 DEF TypeOK, Objects, Nothing, Real
  <2>2. \A o \in objects : o.key # H.key BY <1>2, <2>1 DEF PiecesDiffer, Pieces
  <2> QED BY <1>1, <2>2
<1> HIDE DEF H
<1>4. /\ \A o \in Pieces' : Real(o) => o \in Pieces
      /\ \A o \in Pieces : Real(o) => o \in Pieces'
  <2>1. ASSUME NEW o \in Pieces', Real(o) PROVE o \in Pieces
    <3>1. CASE o \in objects' BY <3>1, <1>2, <1>3 DEF Pieces
    <3>2. CASE \E q \in Procs, g \in Flushers : o = held'[q][g]
      BY <3>2, <2>1, <1>1, SlotEmptiedType DEF Pieces, Real
    <3> QED BY <3>1, <3>2 DEF Pieces
  <2>2. ASSUME NEW o \in Pieces, Real(o) PROVE o \in Pieces'
    <3>1. CASE o \in objects \/ o = H BY <3>1, <1>3 DEF Pieces
    <3>2. CASE \E q \in Procs, g \in Flushers : o = held[q][g] /\ (q # p \/ g # f)
      BY <3>2, <1>1, SlotEmptiedType DEF Pieces
    <3> QED BY <3>1, <3>2 DEF Pieces, H
  <2> QED BY <2>1, <2>2
<1>5. \A i : InPiece(i)' <=> InPiece(i)
  <2>1. \A o : o.lines # {} => Real(o) BY DEF Real, Nothing
  <2> QED BY <1>4, <2>1 DEF InPiece
<1>6. TypeOK' BY <1>1, <1>2, <1>3, SlotEmptiedType DEF TypeOK
<1>7. SeqBound'
  <2>1. \A q \in Procs : Out(q)' = Out(q) BY <1>1 DEF Out, Buffered
  <2> QED BY <1>1, <2>1 DEF SeqBound
<1>8. Accounted'
  <2>1. \A i : InWindow(i)' <=> InWindow(i) BY <1>1 DEF InWindow
  <2> QED BY <1>1, <1>5, <2>1 DEF Accounted
<1>9. WindowsOK' BY <1>1, SlotLive, WindowsStay
<1>10. SlotsOK'
  <2> SUFFICES ASSUME NEW q \in Procs, NEW g \in Flushers
               PROVE  /\ pc'[q][g] = "put" <=> Real(held'[q][g])
                      /\ Real(held'[q][g]) =>
                           /\ held'[q][g] \notin objects'
                           /\ \A r \in Procs, h \in Flushers :
                                held'[r][h] = held'[q][g] => r = q /\ h = g
    BY <1>1, SlotLive DEF SlotsOK, Real
  <2>1. CASE q = p /\ g = f BY <2>1, <1>1, SlotEmptiedType DEF Real
  <2>2. CASE q # p \/ g # f
    <3>1. held'[q][g] = held[q][g] /\ pc'[q][g] = pc[q][g]
      BY <2>2, <1>1, SlotEmptiedType
    <3>2. held[q][g] # H BY <2>2, <1>2
    <3>3. Real(held[q][g]) => held[q][g] \notin objects' BY <3>2, <1>3 DEF SlotsOK
    <3>4. ASSUME Real(held[q][g]), NEW r \in Procs, NEW h \in Flushers, held'[r][h] = held[q][g]
          PROVE  r = q /\ h = g
      <4>1. r # p \/ h # f BY <3>4, <1>1, SlotEmptiedType DEF Real
      <4>2. held[r][h] = held[q][g] BY <3>4, <4>1, <1>1, SlotEmptiedType
      <4> QED BY <3>4, <4>2 DEF SlotsOK
    <3> QED BY <3>1, <3>3, <3>4 DEF SlotsOK
  <2> QED BY <2>1, <2>2
<1>11. PiecesDiffer' /\ PiecesOlder' /\ PiecesInOrder'
  BY <1>1, <1>4, OrderStays
<1>12. KeysPast' BY <1>1, <1>4, KeysStay
<1>13. DropsOldest' BY <1>1 DEF DropsOldest
<1> QED BY <1>6, <1>7, <1>8, <1>9, <1>10, <1>11, <1>12, <1>13

\* The upload fails: the piece goes and its frames are lost.
LEMMA PutFailsKeeps ==
  ASSUME ArchiverAssumption, IInv, NEW p \in Procs, NEW f \in Flushers, PutFails(p, f)
  PROVE  IInv'
<1> DEFINE H == held[p][f]
<1> USE DEF IInv
<1>1. /\ UNCHANGED <<now, pid, window, seq, todo, count, owner, objects, dropped>>
      /\ lost' = lost \cup H.lines
      /\ SlotEmptied(p, f)
  BY DEF PutFails, SlotEmptied
<1>2. /\ Real(H) /\ H \in Pieces /\ H \notin objects /\ H.lines \subseteq 1 .. count
      /\ \A q \in Procs, g \in Flushers : held[q][g] = H => q = p /\ g = f
  <2>1. Real(H) /\ H \in Pieces BY <1>1 DEF SlotsOK, SlotEmptied, Pieces
  <2> QED BY <2>1 DEF SlotsOK, KeysPast
<1> HIDE DEF H
<1>3. /\ \A o \in Pieces' : Real(o) => o \in Pieces /\ o # H
      /\ \A o \in Pieces : Real(o) /\ o # H => o \in Pieces'
  <2>1. ASSUME NEW o \in Pieces', Real(o) PROVE o \in Pieces /\ o # H
    <3>1. CASE o \in objects BY <3>1, <1>2 DEF Pieces
    <3>2. ASSUME NEW q \in Procs, NEW g \in Flushers, o = held'[q][g] PROVE o \in Pieces /\ o # H
      <4>1. q # p \/ g # f BY <2>1, <3>2, <1>1, SlotEmptiedType DEF Real
      <4>2. o = held[q][g] BY <3>2, <4>1, <1>1, SlotEmptiedType
      <4> QED BY <4>1, <4>2, <1>2 DEF Pieces
    <3> QED BY <3>1, <3>2, <1>1 DEF Pieces
  <2>2. ASSUME NEW o \in Pieces, Real(o), o # H PROVE o \in Pieces'
    <3>1. CASE o \in objects BY <3>1, <1>1 DEF Pieces
    <3>2. ASSUME NEW q \in Procs, NEW g \in Flushers, o = held[q][g] PROVE o \in Pieces'
      <4>1. q # p \/ g # f BY <2>2, <3>2 DEF H
      <4>2. o = held'[q][g] BY <3>2, <4>1, <1>1, SlotEmptiedType
      <4> QED BY <4>2 DEF Pieces
    <3> QED BY <3>1, <3>2 DEF Pieces
  <2> QED BY <2>1, <2>2
<1>4. ASSUME NEW i PROVE InPiece(i)' <=> InPiece(i) /\ i \notin H.lines
  <2>1. \A o : i \in o.lines => Real(o) BY DEF Real, Nothing
  <2>2. \A o \in Pieces : Real(o) /\ o # H => o.lines \cap H.lines = {}
    BY <1>2 DEF PiecesDiffer
  <2> QED BY <1>3, <2>1, <2>2 DEF InPiece
<1>5. TypeOK'
  <2>1. lost' \subseteq 1 .. count BY <1>1, <1>2 DEF TypeOK
  <2> QED BY <1>1, <2>1, SlotEmptiedType DEF TypeOK
<1>6. SeqBound'
  <2>1. \A q \in Procs : Out(q)' = Out(q) BY <1>1 DEF Out, Buffered
  <2> QED BY <1>1, <2>1 DEF SeqBound
<1>7. Accounted'
  <2>1. \A i : InWindow(i)' <=> InWindow(i) BY <1>1 DEF InWindow
  <2>2. \A i \in H.lines : InPiece(i) BY <1>2 DEF InPiece
  <2> QED BY <1>1, <1>4, <2>1, <2>2 DEF Accounted
<1>8. WindowsOK' BY <1>1, SlotLive, WindowsStay
<1>9. SlotsOK'
  <2> SUFFICES ASSUME NEW q \in Procs, NEW g \in Flushers
               PROVE  /\ pc'[q][g] = "put" <=> Real(held'[q][g])
                      /\ Real(held'[q][g]) =>
                           /\ held'[q][g] \notin objects
                           /\ \A r \in Procs, h \in Flushers :
                                held'[r][h] = held'[q][g] => r = q /\ h = g
    BY <1>1, SlotLive DEF SlotsOK, Real
  <2>1. CASE q = p /\ g = f BY <2>1, <1>1, SlotEmptiedType DEF Real
  <2>2. CASE q # p \/ g # f
    <3>1. held'[q][g] = held[q][g] /\ pc'[q][g] = pc[q][g]
      BY <2>2, <1>1, SlotEmptiedType
    <3>2. ASSUME Real(held[q][g]), NEW r \in Procs, NEW h \in Flushers, held'[r][h] = held[q][g]
          PROVE  r = q /\ h = g
      <4>1. r # p \/ h # f BY <3>2, <1>1, SlotEmptiedType DEF Real
      <4>2. held[r][h] = held[q][g] BY <3>2, <4>1, <1>1, SlotEmptiedType
      <4> QED BY <3>2, <4>2 DEF SlotsOK
    <3> QED BY <3>1, <3>2 DEF SlotsOK
  <2> QED BY <2>1, <2>2
<1>10. PiecesDiffer' /\ PiecesOlder' /\ PiecesInOrder'
  BY <1>1, <1>3, OrderStays
<1>11. KeysPast' BY <1>1, <1>3, KeysStay
<1>12. DropsOldest' BY <1>1 DEF DropsOldest
<1> QED BY <1>5, <1>6, <1>7, <1>8, <1>9, <1>10, <1>11, <1>12

\* A process ends: its windows and uploads go and their frames are lost.
LEMMA DieKeeps ==
  ASSUME ArchiverAssumption, IInv, NEW p \in Procs, Die(p)
  PROVE  IInv'
<1> USE DEF IInv
<1> DEFINE PC == [main : {"serving", "join", "flush", "put", "exited"},
                  thread : {"wait", "flush", "put", "ended"}]
<1>1. /\ UNCHANGED <<now, pid, seq, count, owner, objects, dropped>>
      /\ lost' = lost \cup Buffered(p) \cup Uploading(p)
  BY DEF Die
<1>2. /\ \A d \in Devices : window'[p][d] = NoWindow
      /\ \A q \in Procs, d \in Devices : q # p => window'[q][d] = window[q][d]
      /\ window' \in [Procs -> [Devices -> Windows]]
  <2>1. NoWindow \in Windows
    <3>1. 0 \in 0 .. MaxTime BY DEF ArchiverAssumption
    <3> QED BY <3>1 DEF NoWindow, Windows
  <2>2. [d \in Devices |-> NoWindow] \in [Devices -> Windows] BY <2>1
  <2> QED BY <2>2 DEF Die, TypeOK
<1>3. /\ \A f \in Flushers : held'[p][f] = Nothing
      /\ \A q \in Procs, f \in Flushers : q # p => held'[q][f] = held[q][f]
      /\ held' \in [Procs -> [Flushers -> {Nothing} \cup Objects]]
  <2>1. Empty \in [Flushers -> {Nothing} \cup Objects] BY DEF Empty
  <2>2. \A f \in Flushers : Empty[f] = Nothing BY DEF Empty
  <2> QED BY <2>1, <2>2 DEF Die, TypeOK
<1>4. todo' \in [Procs -> [Flushers -> SUBSET Devices]]
  <2>1. Idle \in [Flushers -> SUBSET Devices] BY DEF Idle
  <2> QED BY <2>1 DEF Die, TypeOK
<1> DEFINE Gone == [main |-> "exited", thread |-> "ended"]
<1>5. /\ pc' \in [Procs -> PC]
      /\ pc'[p] = Gone
      /\ \A q \in Procs : q # p => pc'[q] = pc[q]
  <2>1. pc' = [pc EXCEPT ![p] = Gone] BY DEF Die
  <2>2. Gone \in PC OBVIOUS
  <2> HIDE DEF Gone
  <2> QED BY <2>1, <2>2 DEF TypeOK
<1>6. \A q \in Procs, d \in Devices :
        window'[q][d] = window[q][d] \/ window'[q][d] = NoWindow
  BY <1>2
<1>7. ASSUME NEW i PROVE InWindow(i)' <=> \E q \in Procs, d \in Devices :
                                            q # p /\ i \in window[q][d].lines
  <2>1. NoWindow.lines = {} BY DEF NoWindow
  <2> QED BY <2>1, <1>2 DEF InWindow
<1>8. \A i : i \in Buffered(p) <=> \E d \in Devices : i \in window[p][d].lines
  BY DEF Buffered
<1>9. \A i : i \in Uploading(p) <=> \E f \in Flushers : i \in held[p][f].lines
  BY DEF Uploading
<1>10. Nothing.lines = {} BY DEF Nothing
<1>11. ASSUME NEW i PROVE InPiece(i) <=> \/ \E o \in objects : i \in o.lines
                                         \/ \E q \in Procs, f \in Flushers : i \in held[q][f].lines
  BY DEF InPiece, Pieces
<1>12. ASSUME NEW i PROVE InPiece(i)' <=> \/ \E o \in objects : i \in o.lines
                                          \/ \E q \in Procs, f \in Flushers :
                                               q # p /\ i \in held[q][f].lines
  <2>1. InPiece(i)' <=> \/ \E o \in objects : i \in o.lines
                        \/ \E q \in Procs, f \in Flushers : i \in held'[q][f].lines
    BY <1>1 DEF InPiece, Pieces
  <2> QED BY <2>1, <1>3, <1>10
<1>13. \A o \in Pieces' : Real(o) => o \in Pieces
  BY <1>1, <1>3 DEF Pieces, Real
<1>14. TypeOK'
  <2>1. Buffered(p) \subseteq 1 .. count BY <1>8 DEF WindowsOK
  <2>2. Uploading(p) \subseteq 1 .. count
    <3> SUFFICES ASSUME NEW f \in Flushers PROVE held[p][f].lines \subseteq 1 .. count BY <1>9
    <3>1. CASE Real(held[p][f]) BY <3>1 DEF KeysPast, Pieces
    <3>2. CASE ~ Real(held[p][f]) BY <3>2, <1>10 DEF Real
    <3> QED BY <3>1, <3>2
  <2>3. lost' \subseteq 1 .. count BY <1>1, <2>1, <2>2 DEF TypeOK
  <2> QED BY <1>1, <1>2, <1>3, <1>4, <1>5, <2>3 DEF TypeOK
<1>15. SeqBound'
  <2>1. seq' \in [Procs -> 0 .. MaxFrames] /\ \A q \in Procs : seq'[q] <= seq[q]
    BY <1>1 DEF TypeOK
  <2> QED BY <1>1, <1>6, <2>1, SeqStays
<1>16. Accounted'
  <2> SUFFICES ASSUME NEW i \in 1 .. count
               PROVE  /\ InWindow(i)' \/ InPiece(i)' \/ i \in dropped \/ i \in lost'
                      /\ InWindow(i)' => ~InPiece(i)' /\ i \notin dropped /\ i \notin lost'
                      /\ InPiece(i)' => i \notin dropped /\ i \notin lost'
                      /\ i \in dropped => i \notin lost'
    BY <1>1 DEF Accounted
  <2>1. /\ InWindow(i) \/ InPiece(i) \/ i \in dropped \/ i \in lost
        /\ InWindow(i) => ~InPiece(i) /\ i \notin dropped /\ i \notin lost
        /\ InPiece(i) => i \notin dropped /\ i \notin lost
        /\ i \in dropped => i \notin lost
    BY DEF Accounted
  <2>2. InWindow(i) <=> InWindow(i)' \/ i \in Buffered(p)
    BY <1>7, <1>8 DEF InWindow
  <2>3. InPiece(i) <=> InPiece(i)' \/ i \in Uploading(p)
    BY <1>9, <1>11, <1>12
  \* A frame has one owner, so no other window or piece has a frame of p.
  <2>4. ~ (InWindow(i)' /\ i \in Buffered(p))
    <3> SUFFICES ASSUME InWindow(i)', i \in Buffered(p) PROVE FALSE OBVIOUS
    <3>1. PICK q \in Procs, d \in Devices : q # p /\ i \in window[q][d].lines BY <1>7
    <3>2. PICK e \in Devices : i \in window[p][e].lines BY <1>8
    <3>3. owner[i] = <<q, d>> /\ owner[i] = <<p, e>> BY <3>1, <3>2 DEF WindowsOK
    <3> QED BY <3>1, <3>3
  <2>5. ~ (InPiece(i)' /\ i \in Uploading(p))
    <3> SUFFICES ASSUME InPiece(i)', i \in Uploading(p) PROVE FALSE OBVIOUS
    <3>1. PICK f \in Flushers : i \in held[p][f].lines BY <1>9
    <3> DEFINE H == held[p][f]
    <3>2. Real(H) /\ H \in Pieces BY <3>1, <1>10 DEF Real, Pieces
    <3>3. CASE \E o \in objects : i \in o.lines
      <4>1. PICK o \in objects : i \in o.lines BY <3>3
      <4>2. Real(o) /\ o \in Pieces BY <4>1, <1>10 DEF Real, Pieces
      <4>3. o # H BY <3>2 DEF SlotsOK
      <4> QED BY <3>1, <3>2, <4>1, <4>2, <4>3 DEF PiecesDiffer
    <3>4. CASE \E q \in Procs, g \in Flushers : q # p /\ i \in held[q][g].lines
      <4>1. PICK q \in Procs, g \in Flushers : q # p /\ i \in held[q][g].lines BY <3>4
      <4>2. Real(held[q][g]) /\ held[q][g] \in Pieces BY <4>1, <1>10 DEF Real, Pieces
      <4>3. held[q][g] # H BY <3>2, <4>1 DEF SlotsOK
      <4> QED BY <3>1, <3>2, <4>1, <4>2, <4>3 DEF PiecesDiffer
    <3> QED BY <3>3, <3>4, <1>12
  <2>6. i \in lost' <=> i \in lost \/ i \in Buffered(p) \/ i \in Uploading(p) BY <1>1
  <2> QED BY <2>1, <2>2, <2>3, <2>4, <2>5, <2>6
<1>17. WindowsOK'
  <2>1. \A q \in Procs : pc'[q].main = "exited" =>
          pc[q].main = "exited" \/ \A d \in Devices : window'[q][d] = NoWindow
    BY <1>2, <1>5
  <2> QED BY <1>1, <1>6, <2>1, WindowsStay
<1>18. SlotsOK'
  <2> SUFFICES ASSUME NEW q \in Procs
               PROVE  /\ pc'[q].main = "exited" => pc'[q].thread = "ended"
                      /\ \A f \in Flushers :
                           /\ pc'[q][f] = "put" <=> Real(held'[q][f])
                           /\ Real(held'[q][f]) =>
                                /\ held'[q][f] \notin objects
                                /\ \A r \in Procs, g \in Flushers :
                                     held'[r][g] = held'[q][f] => r = q /\ g = f
    BY <1>1 DEF SlotsOK, Real
  <2>1. CASE q = p BY <2>1, <1>3, <1>5 DEF Real, Flushers
  <2>2. CASE q # p
    <3>1. pc'[q] = pc[q] /\ \A f \in Flushers : held'[q][f] = held[q][f]
      BY <2>2, <1>3, <1>5
    <3>2. ASSUME NEW f \in Flushers, Real(held[q][f]),
                 NEW r \in Procs, NEW g \in Flushers, held'[r][g] = held[q][f]
          PROVE  r = q /\ g = f
      <4>1. r # p BY <3>2, <1>3 DEF Real
      <4>2. held[r][g] = held[q][f] BY <3>2, <4>1, <1>3
      <4> QED BY <3>2, <4>2 DEF SlotsOK
    <3> QED BY <3>1, <3>2 DEF SlotsOK
  <2> QED BY <2>1, <2>2
<1>19. PiecesDiffer' /\ PiecesOlder' /\ PiecesInOrder'
  BY <1>1, <1>6, <1>13, OrderStays
<1>20. KeysPast' BY <1>1, <1>6, <1>13, KeysStay
<1>21. DropsOldest'
  <2> SUFFICES ASSUME NEW i \in dropped, NEW q \in Procs, NEW d \in Devices,
                      owner[i] = <<q, d>>, NEW j \in window'[q][d].lines
               PROVE  i < j
    BY <1>1 DEF DropsOldest
  <2>1. window'[q][d] = window[q][d] BY <1>6 DEF NoWindow
  <2> QED BY <2>1 DEF DropsOldest
<1> QED
  BY <1>14, <1>15, <1>16, <1>17, <1>18, <1>19, <1>20, <1>21

\* A new process counts from one, a tick later than every key of its id.
LEMMA RestartKeeps ==
  ASSUME ArchiverAssumption, IInv, NEW p \in Procs, Restart(p)
  PROVE  IInv'
<1> USE DEF IInv
<1> DEFINE PC == [main : {"serving", "join", "flush", "put", "exited"},
                  thread : {"wait", "flush", "put", "ended"}]
<1>1. /\ UNCHANGED <<window, todo, held, count, owner, objects, dropped, lost>>
      /\ now' = now + 1 /\ now < MaxTime /\ now \in Nat
      /\ pc[p].main = "exited"
  <2>1. now \in Nat BY CountType
  <2> QED BY <2>1 DEF Restart, frameVars
<1>2. PICK k \in Pids \ {pid[q] : q \in Procs \ {p}} : pid' = [pid EXCEPT ![p] = k]
  BY DEF Restart
<1>3. /\ pid' \in [Procs -> Pids] /\ pid'[p] = k
      /\ \A q \in Procs : q # p => pid'[q] = pid[q] /\ k # pid[q]
  BY <1>2 DEF TypeOK
<1>4. /\ seq' \in [Procs -> 0 .. MaxFrames] /\ seq'[p] = 0
      /\ \A q \in Procs : q # p => seq'[q] = seq[q]
  <2>1. 0 \in 0 .. MaxFrames BY DEF ArchiverAssumption
  <2> QED BY <2>1 DEF Restart, TypeOK
<1>5. /\ pc' \in [Procs -> PC] /\ pc'[p] = Fresh
      /\ \A q \in Procs : q # p => pc'[q] = pc[q]
  <2>1. Fresh \in PC BY DEF Fresh
  <2>2. pc' = [pc EXCEPT ![p] = Fresh] BY DEF Restart
  <2> QED BY <2>1, <2>2 DEF TypeOK
<1>6. Pieces' = Pieces BY <1>1 DEF Pieces
<1>7. TypeOK'
  <2>1. now' \in 0 .. MaxTime BY <1>1 DEF ArchiverAssumption
  <2>2. \A q, r \in Procs : q # r => pid'[q] # pid'[r] BY <1>3 DEF TypeOK
  <2> QED BY <1>1, <1>3, <1>4, <1>5, <2>1, <2>2 DEF TypeOK
<1>8. SeqBound'
  <2>1. \A q \in Procs : seq'[q] <= seq[q]
    <3>1. \A q \in Procs : seq[q] \in Nat BY CountType DEF TypeOK
    <3> QED BY <3>1, <1>4
  <2> QED BY <1>1, <1>4, <2>1, SeqStays
<1>9. Accounted'
  BY <1>1, <1>6 DEF Accounted, InWindow, InPiece
<1>10. WindowsOK'
  <2> SUFFICES ASSUME NEW q \in Procs, NEW d \in Devices
               PROVE  /\ window[q][d].lines \subseteq 1 .. count
                      /\ \A i \in window[q][d].lines : owner[i] = <<q, d>>
                      /\ ~window[q][d].open => window[q][d].lines = {}
                      /\ window[q][d].open => window[q][d].opened <= now + 1
                      /\ pc'[q].main = "exited" => ~window[q][d].open
    BY <1>1 DEF WindowsOK
  <2>1. pc'[q].main = "exited" => pc[q].main = "exited" BY <1>1, <1>5 DEF Fresh
  <2>2. window[q][d].opened \in Nat BY WindowType, CountType
  <2> QED BY <2>1, <2>2, <1>1 DEF WindowsOK
<1>11. SlotsOK'
  <2>1. \A f \in Flushers : pc'[p][f] # "put" /\ pc[p][f] # "put"
    BY <1>1, <1>5 DEF Fresh, Flushers, SlotsOK
  <2>2. \A q \in Procs, f \in Flushers : pc'[q][f] = "put" <=> pc[q][f] = "put"
    BY <2>1, <1>5
  <2>3. \A q \in Procs : pc'[q].main = "exited" => pc'[q].thread = "ended"
    BY <1>5 DEF Fresh, SlotsOK
  <2> QED BY <1>1, <2>2, <2>3 DEF SlotsOK
<1>12. PiecesDiffer' /\ PiecesOlder' /\ PiecesInOrder'
  BY <1>1, <1>6, OrderStays
<1>13. KeysPast'
  <2> SUFFICES ASSUME NEW o \in Pieces, Real(o)
               PROVE  /\ o.lines \subseteq 1 .. count
                      /\ o.key.opened <= now + 1
                      /\ \A q \in Procs : PastFor(o, q)'
    BY <1>1, <1>6 DEF KeysPast
  <2>1. o \in Objects BY PieceType DEF Real
  <2>2. o.key.opened \in Nat BY <2>1 DEF Objects, Keys
  <2>3. o.lines \subseteq 1 .. count /\ o.key.opened <= now BY DEF KeysPast
  <2>4. ASSUME NEW q \in Procs PROVE PastFor(o, q)'
    <3>1. CASE q = p
      <4>1. \A d \in Devices : ~window[p][d].open BY <1>1 DEF WindowsOK
      <4>2. o.key.opened < now + 1 BY <1>1, <2>2, <2>3
      <4> QED BY <3>1, <4>1, <4>2, <1>1 DEF PastFor, BeforeAll
    <3>2. CASE q # p
      <4>1. PastFor(o, q) BY DEF KeysPast
      <4>2. BeforeAll(q, o.key.opened) => BeforeAll(q, o.key.opened)'
        BY <1>1, <2>2 DEF BeforeAll
      <4> QED BY <3>2, <4>1, <4>2, <1>3, <1>4 DEF PastFor
    <3> QED BY <3>1, <3>2
  <2> QED BY <1>1, <2>2, <2>3, <2>4
<1>14. DropsOldest' BY <1>1 DEF DropsOldest
<1> QED
  BY <1>7, <1>8, <1>9, <1>10, <1>11, <1>12, <1>13, <1>14

\* Time passes.
LEMMA TickKeeps == ASSUME ArchiverAssumption, IInv, Tick PROVE IInv'
<1> USE DEF IInv
<1>1. /\ UNCHANGED <<pid, window, seq, pc, todo, held, count, owner, objects, dropped, lost>>
      /\ now' = now + 1 /\ now < MaxTime /\ now \in Nat
  <2>1. now \in Nat BY CountType
  <2> QED BY <2>1 DEF Tick, processVars, frameVars
<1>2. Pieces' = Pieces BY <1>1 DEF Pieces
<1>3. TypeOK'
  <2>1. now' \in 0 .. MaxTime BY <1>1 DEF ArchiverAssumption
  <2> QED BY <1>1, <2>1 DEF TypeOK
<1>4. SeqBound'
  <2>1. \A q \in Procs : Out(q)' = Out(q) BY <1>1 DEF Out, Buffered
  <2> QED BY <1>1, <2>1 DEF SeqBound
<1>5. Accounted' BY <1>1, <1>2 DEF Accounted, InWindow, InPiece
<1>6. WindowsOK'
  <2>1. \A q \in Procs, d \in Devices : window[q][d].opened \in Nat
    BY WindowType, CountType
  <2>2. \A q \in Procs, d \in Devices :
          window[q][d].open => window[q][d].opened <= now + 1
    BY <2>1, <1>1 DEF WindowsOK
  <2> QED BY <1>1, <2>2 DEF WindowsOK
<1>7. SlotsOK' BY <1>1 DEF SlotsOK
<1>8. PiecesDiffer' /\ PiecesOlder' /\ PiecesInOrder' BY <1>1, <1>2, OrderStays
<1>9. KeysPast' BY <1>1, <1>2, KeysStay
<1>10. DropsOldest' BY <1>1 DEF DropsOldest
<1> QED BY <1>3, <1>4, <1>5, <1>6, <1>7, <1>8, <1>9, <1>10

\* Every step keeps the invariant.
LEMMA NextIInv == ASSUME ArchiverAssumption PROVE IInv /\ [Next]_vars => IInv'
<1> SUFFICES ASSUME IInv, [Next]_vars PROVE IInv' OBVIOUS
<1>1. ASSUME NEW p \in Procs, NEW d \in Devices, Add(p, d) PROVE IInv' BY <1>1, AddKeeps
<1>2. ASSUME NEW p \in Procs, NEW f \in Flushers, Flush(p, f) PROVE IInv'
  BY <1>2, TakeKeeps, PutOkKeeps, PutFailsKeeps DEF Flush
<1>3. ASSUME NEW p \in Procs, ThreadStep(p) \/ MainStep(p) \/ Stop(p) PROVE IInv'
  <2>1. "thread" \in Flushers /\ "main" \in Flushers BY DEF Flushers
  <2>2. CASE Flush(p, "thread") \/ Flush(p, "main") BY <2>1, <2>2, <1>2
  <2>3. CASE Exit(p) BY <2>3, DieKeeps DEF Exit
  <2>4. CASE Wake(p) \/ Sleep(p) \/ Stop(p) \/ EndThread(p) \/ Join(p)
    BY <2>4, ControlSteps
  <2> QED BY <1>3, <2>2, <2>3, <2>4 DEF ThreadStep, MainStep
<1>4. ASSUME NEW p \in Procs, Crash(p) \/ Restart(p) PROVE IInv'
  BY <1>4, DieKeeps, RestartKeeps DEF Crash
<1>5. CASE Tick BY <1>5, TickKeeps
<1>6. CASE UNCHANGED vars
  <2>1. UNCHANGED <<now, pid, window, seq, held, frameVars>> /\ UNCHANGED <<pc, todo>>
    BY <1>6 DEF vars, processVars
  <2>2. \A p \in Procs : pc[p].main = "exited" => pc[p].thread = "ended"
    BY DEF IInv, SlotsOK
  <2> QED BY <2>1, <2>2, ControlKeeps DEF IInv, TypeOK
<1> QED BY <1>1, <1>3, <1>4, <1>5, <1>6 DEF Next

-----------------------------------------------------------------------------
(* The theorems.                                                           *)

\* The invariant holds for any number of processes and devices, with failing
\* uploads, crashes and process ids that come back.
THEOREM Invariance == ASSUME ArchiverAssumption PROVE Spec => []IInv
<1>1. Init => IInv BY InitIInv
<1>2. IInv /\ [Next]_vars => IInv' BY NextIInv
<1> QED BY <1>1, <1>2, PTL DEF Spec

\* Every variable keeps its type: a process never numbers more objects than
\* there are frames, and no two processes have one id.
THEOREM TypeCorrect == ASSUME ArchiverAssumption PROVE Spec => []TypeOK
<1>1. IInv => TypeOK BY DEF IInv
<1> QED BY <1>1, Invariance, PTL

\* What Accounted says of the places of a frame.
LEMMA OnePlace ==
  ASSUME IInv, NEW i \in 1 .. count
  PROVE  \E here \in Places : {place \in Places : i \in At(place)} = {here}
<1> USE DEF IInv
<1> DEFINE W(p, d) == <<"window", p, d>>
           U(p, f) == <<"upload", p, f>>
           O(o)    == <<"object", o.key>>
<1>1. \A p \in Procs, d \in Devices : W(p, d) \in Places /\ At(W(p, d)) = window[p][d].lines
  BY DEF Places, At
<1>2. \A p \in Procs, f \in Flushers : U(p, f) \in Places /\ At(U(p, f)) = held[p][f].lines
  BY DEF Places, At
<1>3. <<"dropped">> \in Places /\ At(<<"dropped">>) = dropped BY DEF Places, At
<1>4. <<"lost">> \in Places /\ At(<<"lost">>) = lost BY DEF Places, At
<1>5. \A o \in objects : O(o) \in Places BY DEF Places
<1>6. ASSUME NEW o \in objects PROVE At(O(o)) = o.lines
  <2>1. At(O(o)) = UNION {x.lines : x \in {y \in objects : y.key = o.key}} BY DEF At
  <2>2. \A x \in objects : x \in Pieces /\ Real(x)
    BY DEF Pieces, TypeOK, Objects, Keys, Real, Nothing
  <2>3. \A x \in objects : x.key = o.key => x = o BY <2>2 DEF PiecesDiffer
  <2>4. {y \in objects : y.key = o.key} = {o} BY <2>3
  <2> QED BY <2>1, <2>4
<1>7. ASSUME NEW place \in Places
      PROVE  \/ \E p \in Procs, d \in Devices : place = W(p, d)
             \/ \E p \in Procs, f \in Flushers : place = U(p, f)
             \/ \E o \in objects : place = O(o)
             \/ place = <<"dropped">> \/ place = <<"lost">>
  BY DEF Places
<1> DEFINE Here == {place \in Places : i \in At(place)}
<1>8. \A p \in Procs, d \in Devices : W(p, d) \in Here <=> i \in window[p][d].lines BY <1>1
<1>9. \A p \in Procs, f \in Flushers : U(p, f) \in Here <=> i \in held[p][f].lines BY <1>2
<1>10. \A o \in objects : O(o) \in Here <=> i \in o.lines BY <1>5, <1>6
<1>11. <<"dropped">> \in Here <=> i \in dropped BY <1>3
<1>12. <<"lost">> \in Here <=> i \in lost BY <1>4
<1>13. Here \subseteq Places OBVIOUS
<1>14. /\ InWindow(i) \/ InPiece(i) \/ i \in dropped \/ i \in lost
       /\ InWindow(i) => ~InPiece(i) /\ i \notin dropped /\ i \notin lost
       /\ InPiece(i) => i \notin dropped /\ i \notin lost
       /\ i \in dropped => i \notin lost
  BY DEF Accounted
<1>15. \A p \in Procs, d \in Devices : i \in window[p][d].lines => InWindow(i) BY DEF InWindow
<1>16. \A p \in Procs, f \in Flushers : i \in held[p][f].lines => InPiece(i)
  BY DEF InPiece, Pieces
<1>17. \A o \in objects : i \in o.lines => InPiece(i) BY DEF InPiece, Pieces
<1> HIDE DEF Here
<1>18. CASE InWindow(i)
  <2>1. PICK p \in Procs, d \in Devices : i \in window[p][d].lines BY <1>18 DEF InWindow
  <2>2. ASSUME NEW q \in Procs, NEW e \in Devices, i \in window[q][e].lines
        PROVE  q = p /\ e = d
    <3>1. owner[i] = <<p, d>> /\ owner[i] = <<q, e>> BY <2>1, <2>2 DEF WindowsOK
    <3> QED BY <3>1
  <2>3. ASSUME NEW place \in Here PROVE place = W(p, d)
    BY <1>7, <1>8, <1>9, <1>10, <1>11, <1>12, <1>13, <1>14, <1>16, <1>17, <1>18, <2>2
  <2>4. W(p, d) \in Here BY <1>8, <2>1
  <2>5. Here = {W(p, d)} BY <2>3, <2>4
  <2> QED BY <2>5, <1>1 DEF Here
<1>19. CASE InPiece(i)
  <2>1. PICK x \in Pieces : i \in x.lines BY <1>19 DEF InPiece
  <2>2. \A o \in Pieces : i \in o.lines => Real(o) BY DEF Real, Nothing
  <2>3. \A o \in Pieces : i \in o.lines => o = x BY <2>1, <2>2 DEF PiecesDiffer
  <2>4. \A o \in objects : i \in o.lines => o = x BY <2>3 DEF Pieces
  <2>5. \A p \in Procs, f \in Flushers : i \in held[p][f].lines => held[p][f] = x
    BY <2>3 DEF Pieces
  <2>6. CASE x \in objects
    <3>1. \A p \in Procs, f \in Flushers : held[p][f] # x
      BY <2>1, <2>2, <2>6 DEF SlotsOK
    <3>2. ASSUME NEW place \in Here PROVE place = O(x)
      BY <1>7, <1>8, <1>9, <1>10, <1>11, <1>12, <1>13, <1>14, <1>15, <1>19, <2>4, <2>5, <3>1
    <3>3. O(x) \in Here BY <1>10, <2>1, <2>6
    <3>4. Here = {O(x)} BY <3>2, <3>3
    <3> QED BY <3>4, <1>5, <2>6 DEF Here
  <2>7. CASE x \notin objects
    <3>1. PICK p \in Procs, f \in Flushers : x = held[p][f] BY <2>7 DEF Pieces
    <3>2. ASSUME NEW q \in Procs, NEW g \in Flushers, i \in held[q][g].lines
          PROVE  q = p /\ g = f
      BY <2>1, <2>2, <2>5, <3>1, <3>2 DEF SlotsOK
    <3>3. ASSUME NEW place \in Here PROVE place = U(p, f)
      BY <1>7, <1>8, <1>9, <1>10, <1>11, <1>12, <1>13, <1>14, <1>15, <1>19, <2>4, <2>7, <3>2
    <3>4. U(p, f) \in Here BY <1>9, <2>1, <3>1
    <3>5. Here = {U(p, f)} BY <3>3, <3>4
    <3> QED BY <3>5, <1>2 DEF Here
  <2> QED BY <2>6, <2>7
<1>20. CASE i \in dropped
  <2>1. ASSUME NEW place \in Here PROVE place = <<"dropped">>
    BY <1>7, <1>8, <1>9, <1>10, <1>12, <1>13, <1>14, <1>15, <1>16, <1>17, <1>20
  <2>2. Here = {<<"dropped">>} BY <2>1, <1>11, <1>20
  <2> QED BY <2>2, <1>3 DEF Here
<1>21. CASE i \in lost
  <2>1. ASSUME NEW place \in Here PROVE place = <<"lost">>
    BY <1>7, <1>8, <1>9, <1>10, <1>11, <1>13, <1>14, <1>15, <1>16, <1>17, <1>21
  <2>2. Here = {<<"lost">>} BY <2>1, <1>12, <1>21
  <2> QED BY <2>2, <1>4 DEF Here
<1> QED BY <1>14, <1>18, <1>19, <1>20, <1>21

\* A frame is never in two objects, none is overwritten, and none disappears
\* without being counted as dropped or lost: in every process, whatever fails.
THEOREM FramesInOnePlace == ASSUME ArchiverAssumption PROVE Spec => []EachFrameOnce
<1>1. IInv => EachFrameOnce
  <2> SUFFICES ASSUME IInv, NEW i \in 1 .. count
               PROVE  Cardinality({place \in Places : i \in At(place)}) = 1
    BY DEF EachFrameOnce
  <2>1. PICK here \in Places : {place \in Places : i \in At(place)} = {here} BY OnePlace
  <2> QED BY <2>1, FS_Singleton
<1> QED BY <1>1, Invariance, PTL

\* The objects of a process and a device cut its frames in the order of their
\* keys, although two flushers upload at the same time.
THEOREM ArchiveInOrder == ASSUME ArchiverAssumption PROVE Spec => []ObjectsInOrder
<1>1. IInv => ObjectsInOrder
  BY DEF IInv, PiecesInOrder, InOrder, Pieces, ObjectsInOrder
<1> QED BY <1>1, Invariance, PTL

\* No buffer exceeds its cap, and what a full one drops is older than what it
\* keeps.
THEOREM BuffersBounded == ASSUME ArchiverAssumption PROVE Spec => []BufferKeepsNewest
<1>1. Init => BoundedBuffer
  <2> SUFFICES ASSUME Init, NEW p \in Procs, NEW d \in Devices
               PROVE  Bytes(window[p][d].lines) <= MaxBufferBytes
    BY DEF BoundedBuffer
  <2>1. window[p][d].lines = {} BY DEF Init, NoWindow
  <2> QED BY <2>1, EmptyBytes DEF ArchiverAssumption
<1>2. IInv /\ BoundedBuffer /\ [Next]_vars => BoundedBuffer'
  <2> SUFFICES ASSUME IInv, BoundedBuffer, [Next]_vars, NEW p \in Procs, NEW d \in Devices
               PROVE  Bytes(window'[p][d].lines) <= MaxBufferBytes
    BY DEF BoundedBuffer
  <2>1. Bytes(window[p][d].lines) <= MaxBufferBytes BY DEF BoundedBuffer
  <2>2. Bytes(NoWindow.lines) <= MaxBufferBytes
    BY EmptyBytes DEF NoWindow, ArchiverAssumption
  <2>3. /\ window \in [Procs -> [Devices -> Windows]] /\ window[p][d].lines \in SUBSET Frames
    BY WindowType DEF IInv, TypeOK
  <2>4. ASSUME NEW q \in Procs, NEW e \in Devices, Add(q, e)
        PROVE  Bytes(window'[p][d].lines) <= MaxBufferBytes
    <3> DEFINE L == window[q][e].lines \cup {count + 1}
    <3>1. L \in SUBSET Frames
      <4>1. count + 1 \in Frames BY <2>4, CountType DEF IInv, Add, Frames
      <4> QED BY <4>1, WindowType DEF IInv
    <3>2. Bytes(KeepNewest(L)) <= MaxBufferBytes BY <3>1, KeepNewestCuts
    <3> DEFINE new == [open   |-> TRUE,
                       opened |-> IF window[q][e].open THEN window[q][e].opened ELSE now,
                       lines  |-> KeepNewest(L)]
    <3>3. window' = [window EXCEPT ![q][e] = new] BY <2>4 DEF Add
    <3>4. new.lines = KeepNewest(L) OBVIOUS
    <3> HIDE DEF new
    <3>5. window'[p][d] = new \/ window'[p][d] = window[p][d] BY <2>3, <3>3
    <3> QED BY <2>1, <3>2, <3>4, <3>5
  <2>5. ASSUME window'[p][d] = window[p][d] \/ window'[p][d] = NoWindow
        PROVE  Bytes(window'[p][d].lines) <= MaxBufferBytes
    BY <2>1, <2>2, <2>5
  <2>6. ASSUME NEW q \in Procs, NEW f \in Flushers, Flush(q, f)
        PROVE  Bytes(window'[p][d].lines) <= MaxBufferBytes
    <3>1. CASE PutOk(q, f) \/ PutFails(q, f) BY <3>1, <2>5 DEF PutOk, PutFails
    <3>2. ASSUME NEW e \in Devices, Take(q, f, e)
          PROVE  Bytes(window'[p][d].lines) <= MaxBufferBytes
      <4>1. window' = [window EXCEPT ![q][e] = NoWindow] BY <3>2 DEF Take
      <4> QED BY <2>3, <2>5, <4>1
    <3> QED BY <2>6, <3>1, <3>2 DEF Flush
  <2>7. ASSUME NEW q \in Procs, Exit(q) \/ Crash(q)
        PROVE  Bytes(window'[p][d].lines) <= MaxBufferBytes
    <3>1. window' = [window EXCEPT ![q] = [e \in Devices |-> NoWindow]]
      BY <2>7 DEF Exit, Crash, Die
    <3> QED BY <2>3, <2>5, <3>1
  <2>8. ASSUME NEW q \in Procs,
               Wake(q) \/ Sleep(q) \/ EndThread(q) \/ Join(q) \/ Stop(q) \/ Restart(q)
        PROVE  Bytes(window'[p][d].lines) <= MaxBufferBytes
    BY <2>5, <2>8 DEF Wake, Sleep, EndThread, Join, Stop, Restart
  <2>9. CASE Tick \/ UNCHANGED vars BY <2>5, <2>9 DEF Tick, vars, processVars
  <2>10. ASSUME NEW q \in Procs, ThreadStep(q) \/ MainStep(q) \/ Stop(q) \/ Crash(q) \/ Restart(q)
         PROVE  Bytes(window'[p][d].lines) <= MaxBufferBytes
    <3>1. "thread" \in Flushers /\ "main" \in Flushers BY DEF Flushers
    <3>2. CASE Flush(q, "thread") \/ Flush(q, "main") BY <3>1, <3>2, <2>6
    <3>3. CASE Exit(q) \/ Crash(q) BY <3>3, <2>7
    <3>4. CASE Wake(q) \/ Sleep(q) \/ EndThread(q) \/ Join(q) \/ Stop(q) \/ Restart(q)
      BY <3>4, <2>8
    <3> QED BY <2>10, <3>2, <3>3, <3>4 DEF ThreadStep, MainStep
  <2> QED BY <2>4, <2>9, <2>10 DEF Next
<1>3. IInv /\ BoundedBuffer => BufferKeepsNewest BY DEF IInv, BufferKeepsNewest
<1> QED BY <1>1, <1>2, <1>3, Invariance, PTL DEF Spec

-----------------------------------------------------------------------------
(* A regular stop.                                                         *)

\* While the event loop flushes, every window that still has frames is listed:
\* no request adds to it, and the thread can only take it away.
StopListed ==
  \A p \in Procs : pc[p].main \in {"flush", "put"} =>
    \A d \in Devices : window[p][d].lines # {} => d \in todo[p].main

\* Join lists the open windows, and a step of any actor keeps the list complete.
LEMMA NextStopListed == IInv /\ StopListed /\ [Next]_vars => StopListed'
<1> SUFFICES ASSUME IInv, StopListed, [Next]_vars,
                    NEW p \in Procs, pc'[p].main \in {"flush", "put"},
                    NEW d \in Devices, window'[p][d].lines # {}
             PROVE  d \in todo'[p].main
  BY DEF StopListed
<1> USE DEF IInv
<1>1. /\ window \in [Procs -> [Devices -> Windows]]
      /\ todo \in [Procs -> [Flushers -> SUBSET Devices]]
      /\ pc \in [Procs -> [main : {"serving", "join", "flush", "put", "exited"},
                           thread : {"wait", "flush", "put", "ended"}]]
      /\ "thread" \in Flushers /\ "main" \in Flushers
  BY DEF TypeOK, Flushers
<1>2. ASSUME pc[p].main \in {"flush", "put"}, window[p][d].lines # {} PROVE d \in todo[p].main
  BY <1>2 DEF StopListed
<1>3. ASSUME pc'[p].main = pc[p].main, window'[p][d] = window[p][d],
             todo'[p].main = todo[p].main
      PROVE  d \in todo'[p].main
  BY <1>2, <1>3
<1>4. ASSUME NEW q \in Procs, NEW e \in Devices, Add(q, e) PROVE d \in todo'[p].main
  <2>1. pc' = pc /\ todo' = todo /\ pc[q].main = "serving" BY <1>4 DEF Add
  <2>2. p # q BY <2>1
  <2>3. window'[p] = window[p] BY <1>1, <1>4, <2>2 DEF Add
  <2> QED BY <1>3, <2>1, <2>3
<1>5. ASSUME NEW q \in Procs, NEW f \in Flushers, NEW e \in Devices, Take(q, f, e)
      PROVE  d \in todo'[p].main
  <2>1. window' = [window EXCEPT ![q][e] = NoWindow] /\ todo' = [todo EXCEPT ![q][f] = @ \ {e}]
    BY <1>5 DEF Take
  <2>2. p # q \/ d # e
    <3>1. p = q /\ d = e => window'[p][d] = NoWindow BY <1>1, <2>1
    <3> QED BY <3>1 DEF NoWindow
  <2>3. window'[p][d] = window[p][d] BY <1>1, <2>1, <2>2
  <2>4. pc'[p].main \in {"flush", "put"} => pc[p].main \in {"flush", "put"}
    <3>1. pc' = pc \/ pc' = [pc EXCEPT ![q][f] = "put"] BY <1>5 DEF Take
    <3>2. pc[q][f] = "flush" BY <1>5 DEF Take
    <3> QED BY <1>1, <3>1, <3>2 DEF Flushers
  <2>5. d \in todo[p].main BY <1>2, <2>3, <2>4
  <2>6. todo'[p].main = todo[p].main \/ (p = q /\ todo'[p].main = todo[p].main \ {e})
    BY <1>1, <2>1 DEF Flushers
  <2> QED BY <2>2, <2>5, <2>6
<1>6. ASSUME NEW q \in Procs, NEW f \in Flushers, PutOk(q, f) \/ PutFails(q, f)
      PROVE  d \in todo'[p].main
  <2>1. window' = window /\ todo' = todo /\ pc[q][f] = "put"
        /\ pc' = [pc EXCEPT ![q][f] = "flush"]
    BY <1>6 DEF PutOk, PutFails
  <2>2. pc[p].main \in {"flush", "put"}
    BY <1>1, <2>1 DEF Flushers
  <2> QED BY <1>2, <2>1, <2>2
<1>7. ASSUME NEW q \in Procs, Wake(q) PROVE d \in todo'[p].main
  <2>1. pc'[p].main = pc[p].main BY <1>1, <1>7 DEF Wake
  <2>2. window' = window BY <1>7 DEF Wake
  <2>3. todo'[p].main = todo[p].main BY <1>1, <1>7 DEF Wake, Flushers
  <2> QED BY <1>3, <2>1, <2>2, <2>3
<1>8. ASSUME NEW q \in Procs, Sleep(q) \/ EndThread(q) PROVE d \in todo'[p].main
  <2>1. pc'[p].main = pc[p].main BY <1>1, <1>8 DEF Sleep, EndThread
  <2> QED BY <1>3, <1>8, <2>1 DEF Sleep, EndThread
<1>9. ASSUME NEW q \in Procs, Stop(q) PROVE d \in todo'[p].main
  <2>1. pc' = [pc EXCEPT ![q].main = "join"] BY <1>9 DEF Stop
  <2>2. p # q BY <1>1, <2>1
  <2>3. pc'[p] = pc[p] BY <1>1, <2>1, <2>2
  <2> QED BY <1>3, <1>9, <2>3 DEF Stop
<1>10. ASSUME NEW q \in Procs, Join(q) PROVE d \in todo'[p].main
  <2> DEFINE listed == {e \in Devices : window[q][e].open}
  <2>1. /\ window' = window /\ pc' = [pc EXCEPT ![q].main = "flush"]
        /\ todo' = [todo EXCEPT ![q].main = listed]
    BY <1>10 DEF Join
  <2>2. CASE q = p
    <3>1. window[p][d].open BY <2>1 DEF WindowsOK
    <3>2. d \in listed BY <2>2, <3>1
    <3> HIDE DEF listed
    <3> QED BY <1>1, <2>1, <2>2, <3>2
  <2>3. CASE q # p
    <3> HIDE DEF listed
    <3>1. pc'[p] = pc[p] /\ todo'[p] = todo[p] BY <1>1, <2>1, <2>3
    <3> QED BY <1>3, <2>1, <3>1
  <2> QED BY <2>2, <2>3
<1>11. ASSUME NEW q \in Procs, Exit(q) \/ Crash(q) PROVE d \in todo'[p].main
  <2>1. /\ window' = [window EXCEPT ![q] = [e \in Devices |-> NoWindow]]
        /\ todo' = [todo EXCEPT ![q] = Idle]
        /\ pc' = [pc EXCEPT ![q] = [main |-> "exited", thread |-> "ended"]]
    BY <1>11 DEF Exit, Crash, Die
  <2>2. p # q BY <1>1, <2>1
  <2>3. pc'[p] = pc[p] /\ todo'[p] = todo[p] /\ window'[p] = window[p] BY <1>1, <2>1, <2>2
  <2> QED BY <1>3, <2>3
<1>12. ASSUME NEW q \in Procs, Restart(q) PROVE d \in todo'[p].main
  <2>1. window' = window /\ todo' = todo /\ pc' = [pc EXCEPT ![q] = Fresh]
    BY <1>12 DEF Restart
  <2>2. p # q BY <1>1, <2>1 DEF Fresh
  <2>3. pc'[p] = pc[p] BY <1>1, <2>1, <2>2
  <2> QED BY <1>3, <2>1, <2>3
<1>13. CASE Tick \/ UNCHANGED vars
  BY <1>3, <1>13 DEF Tick, vars, processVars
<1> QED
  BY <1>1, <1>4, <1>5, <1>6, <1>7, <1>8, <1>9, <1>10, <1>11, <1>12, <1>13
  DEF Next, ThreadStep, MainStep, Flush

\* A process that stops regularly leaves no frame in a buffer, with any number
\* of devices and whatever its thread does meanwhile.
THEOREM StopDrains == ASSUME ArchiverAssumption PROVE Spec => StopDrainsBuffers
<1>1. Init => StopListed BY DEF Init, StopListed, Fresh
<1>2. IInv /\ StopListed /\ [Next]_vars => StopListed' BY NextStopListed
<1>3. StopListed /\ [Next]_vars => [Drained]_vars
  <2> SUFFICES ASSUME StopListed, NEW p \in Procs, Exit(p) PROVE Buffered(p) = {}
    BY DEF Drained
  <2>1. \A d \in Devices : window[p][d].lines = {} BY DEF Exit, StopListed
  <2> QED BY <2>1 DEF Buffered
<1> QED BY <1>1, <1>2, <1>3, Invariance, PTL DEF Spec, StopDrainsBuffers

=============================================================================
