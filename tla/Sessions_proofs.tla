--------------------------- MODULE Sessions_proofs ---------------------------
(***************************************************************************)
(* Proofs about what the sessions of the management API share.  The events *)
(* registry, with the daily run of the occupancy model that reads it: that *)
(* no accepted change is lost, whatever fails; and, as long as no upload   *)
(* of the run fails, that the stored bundle is sound and has not learned   *)
(* the days of events, for any registry, windows and parameters.  And the  *)
(* resources of an organization: that the grants stay those of the access  *)
(* levels and that nobody exceeds its own limit, for any number of         *)
(* sessions, users and resources.  The second is an instance: its theorems *)
(* are about the behaviours of its own specification.                      *)
(***************************************************************************)
EXTENDS CrowdModel, FiniteSetTheorems, WellFoundedInduction, TLAPS

-----------------------------------------------------------------------------
(* The registry.                                                           *)

\* What an admin session is about to write was read inside the lock.
RegistryInv ==
  /\ rows \in Seq(Events)
  /\ promised \in [Events -> Int]
  /\ admin = [a \in Admins |-> admin[a]]
  /\ \A a \in Admins :
       /\ admin[a] = [listed |-> admin[a].listed, write |-> admin[a].write,
                      read |-> admin[a].read]
       /\ \/ admin[a].listed = None
          \/ admin[a].listed.index \in Nat /\ admin[a].listed.event \in Events
       /\ admin[a].write # None =>
            /\ lock = a /\ admin[a].read = rows
            /\ admin[a].write.event \in Events
            /\ admin[a].write.op \in {"append", "delete"}
            /\ admin[a].write.op = "delete" =>
                 admin[a].listed # None /\ admin[a].write.event = admin[a].listed.event
  /\ RegistryKept

\* The registry has a number of rows of an event.
LEMMA CountIsNat ==
  ASSUME NEW s \in Seq(Events), NEW e
  PROVE  IsFiniteSet({i \in DOMAIN s : s[i] = e}) /\ Count(s, e) \in Nat
<1>1. IsFiniteSet(1 .. Len(s)) BY FS_Interval
<1>2. {i \in DOMAIN s : s[i] = e} \subseteq 1 .. Len(s) OBVIOUS
<1>3. IsFiniteSet({i \in DOMAIN s : s[i] = e}) BY <1>1, <1>2, FS_Subset
<1> QED BY <1>3, FS_CardinalityType DEF Count

\* An event appended is counted once more.
LEMMA CountAppended ==
  ASSUME NEW s \in Seq(Events), NEW x \in Events, NEW e
  PROVE  Count(Append(s, x), e) = Count(s, e) + (IF x = e THEN 1 ELSE 0)
<1> DEFINE S == {i \in DOMAIN s : s[i] = e}
           T == {i \in DOMAIN Append(s, x) : Append(s, x)[i] = e}
<1>1. IsFiniteSet(S) BY CountIsNat
<1>2. CASE x = e
  <2>1. T = S \cup {Len(s) + 1} BY <1>2
  <2>2. Len(s) + 1 \notin S OBVIOUS
  <2> QED BY <1>1, <1>2, <2>1, <2>2, FS_AddElement DEF Count
<1>3. CASE x # e
  <2>1. T = S BY <1>3
  <2>2. Count(s, e) \in Nat BY CountIsNat
  <2>3. Count(Append(s, x), e) = Count(s, e) BY <2>1 DEF Count
  <2> QED BY <1>3, <2>2, <2>3
<1> QED BY <1>2, <1>3

\* A row removed is counted no more, and no other row is lost.
LEMMA CountRemoved ==
  ASSUME NEW s \in Seq(Events), NEW i \in DOMAIN s, NEW e
  PROVE  /\ RemoveAt(s, i) \in Seq(Events)
         /\ Count(RemoveAt(s, i), e) = Count(s, e) - (IF s[i] = e THEN 1 ELSE 0)
<1> DEFINE r == RemoveAt(s, i)
           S == {j \in DOMAIN s : s[j] = e}
           T == {j \in DOMAIN r : r[j] = e}
           old(j) == IF j < i THEN j ELSE j + 1
<1>1. /\ r \in Seq(Events) /\ Len(r) = Len(s) - 1
      /\ \A j \in 1 .. Len(s) - 1 : r[j] = s[old(j)]
  <2>1. PICK a, b : a = SubSeq(s, 1, i - 1) /\ b = SubSeq(s, i + 1, Len(s)) OBVIOUS
  <2>2. /\ a \in Seq(Events) /\ Len(a) = i - 1 /\ \A j \in 1 .. i - 1 : a[j] = s[j]
    BY <2>1
  <2>3. b \in Seq(Events) /\ Len(b) = Len(s) - i /\ \A j \in 1 .. Len(s) - i : b[j] = s[i + j]
    BY <2>1
  <2>4. r = a \o b BY <2>1 DEF RemoveAt
  <2>5. r \in Seq(Events) /\ Len(r) = Len(s) - 1 BY <2>2, <2>3, <2>4
  <2>6. ASSUME NEW j \in 1 .. Len(s) - 1 PROVE r[j] = s[old(j)]
    <3>1. CASE j < i BY <2>2, <2>3, <2>4, <3>1
    <3>2. CASE j >= i
      <4>0. j \in 1 .. Len(a) + Len(b) /\ j > Len(a) BY <2>2, <2>3, <3>2
      <4>1. r[j] = b[j - Len(a)] BY <2>2, <2>3, <2>4, <4>0
      <4>2. j - Len(a) \in 1 .. Len(s) - i /\ j - Len(a) = j - i + 1 BY <2>2, <3>2
      <4>3. b[j - i + 1] = s[i + (j - i + 1)] BY <2>3, <4>2
      <4> QED BY <3>2, <4>1, <4>2, <4>3
    <3> QED BY <3>1, <3>2
  <2> QED BY <2>5, <2>6
<1> HIDE DEF r
<1>2. IsFiniteSet(S) BY CountIsNat
<1>3. \A j \in T : old(j) \in S \ {i} BY <1>1
<1>4. \A j, k \in T : old(j) = old(k) => j = k BY <1>1
<1>5. \A k \in S \ {i} : \E j \in T : old(j) = k
  <2> SUFFICES ASSUME NEW k \in S \ {i} PROVE \E j \in T : old(j) = k OBVIOUS
  <2>1. CASE k < i
    <3>1. k \in T /\ old(k) = k BY <1>1, <2>1
    <3> QED BY <3>1
  <2>2. CASE k > i
    <3>1. k \in 1 .. Len(s) /\ i \in 1 .. Len(s) /\ s[k] = e OBVIOUS
    <3>2. k - 1 \in 1 .. Len(s) - 1 /\ old(k - 1) = k BY <2>2, <3>1
    <3>3. r[k - 1] = s[k] /\ k - 1 \in DOMAIN r BY <1>1, <3>2
    <3> QED BY <3>1, <3>2, <3>3
  <2> QED BY <2>1, <2>2
<1>6. PICK f : f = [j \in T |-> old(j)] OBVIOUS
<1>7. f \in Bijection(T, S \ {i})
  <2>1. f \in [T -> S \ {i}] BY <1>3, <1>6
  <2>2. \A j, k \in T : f[j] = f[k] => j = k BY <1>4, <1>6
  <2>3. \A k \in S \ {i} : \E j \in T : f[j] = k BY <1>5, <1>6
  <2> QED BY <2>1, <2>2, <2>3 DEF Bijection, Injection, Surjection, IsInjective
<1>8. IsFiniteSet(T)
  <2>1. T \subseteq 1 .. Len(s) BY <1>1
  <2> QED BY <2>1, FS_Interval, FS_Subset
<1>9. Cardinality(S \ {i}) = Cardinality(T) BY <1>7, <1>8, FS_Bijection DEF ExistsBijection
<1>10. Cardinality(S) \in Nat BY <1>2, FS_CardinalityType
<1>11. Cardinality(S \ {i}) = IF i \in S THEN Cardinality(S) - 1 ELSE Cardinality(S)
  BY <1>2, FS_RemoveElement
<1>12. Count(s, e) = Cardinality(S) /\ Count(r, e) = Cardinality(T) BY DEF Count
<1> HIDE DEF T
<1>13. i \in S <=> s[i] = e OBVIOUS
<1> HIDE DEF S
<1> QED BY <1>1, <1>9, <1>10, <1>11, <1>12, <1>13 DEF r

\* The registry is empty at the start.
LEMMA RegistryStarts == Init => RegistryInv
<1> SUFFICES ASSUME Init PROVE RegistryInv OBVIOUS
<1>1. \A a \in Admins : admin[a] = [listed |-> None, write |-> None, read |-> <<>>]
  BY DEF Init, Quiet
<1>2. ASSUME NEW e \in Events PROVE Count(rows, e) = promised[e]
  <2>1. {i \in DOMAIN rows : rows[i] = e} = {} BY DEF Init
  <2>2. promised[e] = 0 BY DEF Init
  <2> QED BY <2>1, <2>2, FS_EmptySet DEF Count
<1>3. /\ rows \in Seq(Events) /\ promised \in [Events -> Int]
      /\ admin = [a \in Admins |-> admin[a]]
  BY DEF Init
<1> QED BY <1>1, <1>2, <1>3 DEF RegistryInv, RegistryKept

\* A session that lists or enters the lock.
LEMMA SessionMoves ==
  ASSUME RegistryInv, NEW a \in Admins, NEW new, admin' = [admin EXCEPT ![a] = new],
         UNCHANGED <<rows, promised>>,
         new = [listed |-> new.listed, write |-> new.write, read |-> new.read],
         new.listed = None \/ (new.listed.index \in Nat /\ new.listed.event \in Events),
         new.write # None =>
           /\ lock' = a /\ new.read = rows /\ new.write.event \in Events
           /\ new.write.op \in {"append", "delete"}
           /\ new.write.op = "delete" =>
                new.listed # None /\ new.write.event = new.listed.event,
         \A b \in Admins : b # a /\ admin[b].write # None => lock' = b
  PROVE  RegistryInv'
<1>1. admin' = [b \in Admins |-> admin'[b]] /\ admin'[a] = new
  BY DEF RegistryInv
<1>2. \A b \in Admins : b # a => admin'[b] = admin[b] BY DEF RegistryInv
<1>3. RegistryKept' BY DEF RegistryInv, RegistryKept, Count
<1> QED BY <1>1, <1>2, <1>3 DEF RegistryInv

\* A list is read without the lock.
LEMMA ListKeeps == ASSUME RegistryInv, NEW a \in Admins, NEW i, List(a, i) PROVE RegistryInv'
<1>1. PICK item : item = [index |-> i, event |-> rows[i]] OBVIOUS
<1>2. PICK l, x, r : admin[a] = [listed |-> l, write |-> x, read |-> r] BY DEF RegistryInv
<1>3. PICK new : new = [listed |-> item, write |-> x, read |-> r] OBVIOUS
<1>4. [admin[a] EXCEPT !.listed = item] = new BY <1>2, <1>3
<1>5. admin' = [admin EXCEPT ![a] = new]
  BY <1>1, <1>4 DEF List
<1>6. x = None BY <1>2 DEF List
<1>7. item.index \in Nat /\ item.event \in Events BY <1>1 DEF List, RegistryInv
<1>8. UNCHANGED <<rows, promised, lock>> BY DEF List
<1>9. /\ new.write = None /\ new.listed = item
      /\ new = [listed |-> new.listed, write |-> new.write, read |-> new.read]
  BY <1>3, <1>6
<1>10. \A b \in Admins : b # a /\ admin[b].write # None => lock' = b BY <1>8 DEF RegistryInv
<1> QED BY <1>5, <1>7, <1>8, <1>9, <1>10, SessionMoves

\* A session that enters the lock finds nobody else inside.
LEMMA LockKeeps ==
  ASSUME RegistryInv, None \notin Admins, NEW a \in Admins, NEW write, Lock(a, write),
         admin[a].write = None, UNCHANGED <<rows, promised>>,
         write.op \in {"append", "delete"}, write.event \in Events,
         write.op = "delete" => admin[a].listed # None /\ write.event = admin[a].listed.event
  PROVE  RegistryInv'
<1>1. PICK l, x, r : admin[a] = [listed |-> l, write |-> x, read |-> r] BY DEF RegistryInv
<1>2. PICK new : new = [listed |-> l, write |-> write, read |-> rows] OBVIOUS
<1>3. admin' = [admin EXCEPT ![a] = new]
  <2>1. PICK k : k = [admin[a] EXCEPT !.write = write] OBVIOUS
  <2>2. k = [listed |-> l, write |-> write, read |-> r] BY <1>1, <2>1
  <2>3. [k EXCEPT !.read = rows] = new BY <1>2, <2>2
  <2>4. admin' = [admin EXCEPT ![a].write = write, ![a].read = rows] BY DEF Lock
  <2>5. PICK k1 : k1 = [admin EXCEPT ![a].write = write] OBVIOUS
  <2>6. k1 = [admin EXCEPT ![a] = k] BY <2>1, <2>5
  <2>7. k1[a] = k /\ k1 = [b \in Admins |-> k1[b]] BY <2>6 DEF RegistryInv
  <2>8. admin' = [k1 EXCEPT ![a].read = rows] BY <2>4, <2>5
  <2>9. admin' = [k1 EXCEPT ![a] = new] BY <2>3, <2>7, <2>8
  <2> QED BY <2>6, <2>7, <2>9 DEF RegistryInv
<1>4. lock = None /\ lock' = a BY DEF Lock
<1>5. /\ new.write = write /\ new.listed = l /\ new.read = rows
      /\ new = [listed |-> new.listed, write |-> new.write, read |-> new.read]
  BY <1>2
<1>6. l = admin[a].listed BY <1>1
<1>7. l = None \/ (l.index \in Nat /\ l.event \in Events) BY <1>6 DEF RegistryInv
<1>8. \A b \in Admins : b # a /\ admin[b].write # None => lock' = b BY <1>4 DEF RegistryInv
<1> QED BY <1>3, <1>4, <1>5, <1>6, <1>7, <1>8, SessionMoves

\* An event about to be appended was read with the lock.
LEMMA AppendEventKeeps ==
  ASSUME RegistryInv, None \notin Admins, NEW a \in Admins, NEW e \in Events, AppendEvent(a,
         e)
  PROVE  RegistryInv'
<1>1. PICK write : write = [op |-> "append", event |-> e] OBVIOUS
<1>2. write.op = "append" /\ write.event = e BY <1>1
<1> QED BY <1>1, <1>2, LockKeeps DEF AppendEvent

\* A row about to be deleted is the one the session listed.
LEMMA DeleteKeeps ==
  ASSUME RegistryInv, None \notin Admins, NEW a \in Admins, Delete(a) PROVE RegistryInv'
<1>1. PICK write : write = [op |-> "delete", event |-> admin[a].listed.event] OBVIOUS
<1>2. write.op = "delete" /\ write.event = admin[a].listed.event BY <1>1
<1>3. admin[a].listed # None /\ admin[a].listed.event \in Events BY DEF RegistryInv, Delete
<1> QED BY <1>1, <1>2, <1>3, LockKeeps DEF Delete

\* The write goes over what the session read, which is what is there.
LEMMA WriteKeeps ==
  ASSUME RegistryInv, None \notin Admins, NEW a \in Admins, Write(a) PROVE RegistryInv'
<1>1. PICK x, k : x = admin[a].write /\ k = admin[a].listed.index OBVIOUS
<1>2. /\ x # None /\ lock = a /\ admin[a].read = rows /\ x.event \in Events
      /\ x.op \in {"append", "delete"}
      /\ x.op = "delete" => admin[a].listed # None /\ x.event = admin[a].listed.event
  BY <1>1 DEF Write, RegistryInv
<1>3. \A b \in Admins : b # a => admin[b].write = None BY <1>2 DEF RegistryInv
<1>4. lock' = None /\ admin' = [admin EXCEPT ![a] = Quiet] BY DEF Write
<1>5. Quiet.write = None /\ Quiet.listed = None
      /\ Quiet = [listed |-> Quiet.listed, write |-> Quiet.write, read |-> Quiet.read]
  BY DEF Quiet
<1>6. /\ admin' = [b \in Admins |-> admin'[b]]
      /\ \A b \in Admins :
           /\ admin'[b] = [listed |-> admin'[b].listed, write |-> admin'[b].write,
                           read |-> admin'[b].read]
           /\ admin'[b].listed = None
                \/ (admin'[b].listed.index \in Nat /\ admin'[b].listed.event \in Events)
           /\ admin'[b].write = None
  BY <1>3, <1>4, <1>5 DEF RegistryInv
<1>7. rows' \in Seq(Events) /\ promised' \in [Events -> Int] /\ RegistryKept'
  <2>1. CASE x.op = "append"
    <3>1. rows' = Append(rows, x.event) /\ promised' = [promised EXCEPT ![x.event] = @ + 1]
      BY <1>1, <1>2, <2>1 DEF Write
    <3>2. ASSUME NEW e \in Events PROVE Count(rows', e) = promised'[e]
      <4>1. Count(rows, e) = promised[e] /\ promised[e] \in Int
        BY DEF RegistryInv, RegistryKept
      <4>2. Count(rows', e) = Count(rows, e) + (IF x.event = e THEN 1 ELSE 0)
        BY <1>2, <3>1, CountAppended DEF RegistryInv
      <4> QED BY <1>2, <3>1, <4>1, <4>2 DEF RegistryInv
    <3>3. rows' \in Seq(Events) BY <1>2, <3>1 DEF RegistryInv
    <3>4. promised' \in [Events -> Int] BY <1>2, <3>1 DEF RegistryInv
    <3> QED BY <3>2, <3>3, <3>4 DEF RegistryKept, Count
  <2>2. CASE x.op = "delete" /\ AsListed(a)
    <3>1. rows' = RemoveAt(rows, k) /\ promised' = [promised EXCEPT ![x.event] = @ - 1]
      BY <1>1, <1>2, <2>2 DEF Write
    <3>2. k \in DOMAIN rows /\ rows[k] = x.event BY <1>1, <1>2, <2>2 DEF AsListed
    <3>3. ASSUME NEW e \in Events PROVE Count(rows', e) = promised'[e]
      <4>1. Count(rows, e) = promised[e] /\ promised[e] \in Int
        BY DEF RegistryInv, RegistryKept
      <4>2. Count(rows', e) = Count(rows, e) - (IF x.event = e THEN 1 ELSE 0)
        BY <3>1, <3>2, CountRemoved DEF RegistryInv
      <4> QED BY <1>2, <3>1, <4>1, <4>2 DEF RegistryInv
    <3>4. rows' \in Seq(Events) BY <3>1, <3>2, CountRemoved DEF RegistryInv
    <3> QED BY <1>2, <3>1, <3>3, <3>4 DEF RegistryInv, RegistryKept, Count
  <2>3. CASE ~(x.op = "append") /\ ~(x.op = "delete" /\ AsListed(a))
    <3>1. UNCHANGED <<rows, promised>> BY <1>1, <2>3 DEF Write
    <3> QED BY <3>1 DEF RegistryInv, RegistryKept, Count
  <2> QED BY <2>1, <2>2, <2>3
<1> QED BY <1>6, <1>7 DEF RegistryInv

\* The daily run does not touch the registry; what sessions do keeps it.
LEMMA RegistrySteps ==
  ASSUME RegistryInv, None \notin Admins, [Next]_vars PROVE RegistryInv'
<1>1. ASSUME NEW a \in Admins,
             \/ \E i \in 1 .. MaxRows : List(a, i)
             \/ \E e \in Events : AppendEvent(a, e)
             \/ Delete(a) \/ Write(a)
      PROVE  RegistryInv'
  BY <1>1, ListKeeps, AppendEventKeeps, DeleteKeeps, WriteKeeps
<1>2. ASSUME UNCHANGED registry PROVE RegistryInv'
  BY <1>2 DEF registry, RegistryInv, RegistryKept, Count
<1>3. ASSUME NewDay \/ Configure \/ Refresh PROVE UNCHANGED registry
  BY <1>3 DEF NewDay, Configure, Refresh
<1>4. ASSUME NEW rs,
             \/ \E forced \in BOOLEAN : Decide(forced, rs)
             \/ Table(rs) \/ Stamp(rs)
      PROVE  UNCHANGED registry
  BY <1>4 DEF Decide, Table, Stamp
<1>5. ASSUME TrainFull \/ TrainIncremental \/ TrainRaises \/ Save \/ Predict
      PROVE  UNCHANGED registry
  BY <1>5 DEF TrainFull, TrainIncremental, TrainRaises, Save, Predict
<1>6. ASSUME UNCHANGED vars PROVE UNCHANGED registry BY <1>6 DEF vars, registry
<1> QED BY <1>1, <1>2, <1>3, <1>4, <1>5, <1>6 DEF Next

-----------------------------------------------------------------------------
(* The daily run.                                                          *)

\* The registry neither changes while a run reads it nor is unreadable.
Undisturbed == Faults \cap {"during", "unreadable"} = {}
\* No refresh of the weather fails.
Dry == "refresh" \notin Faults

\* A bundle whose three files belong together.
Good(b) ==
  /\ b.model \in ModelType /\ b.columns = b.model.columns
  /\ b.metrics.until \in Nat /\ \A d \in b.model.days : d <= b.metrics.until
  /\ Dry => b.model.rain = {b.metrics.available}
  /\ Undisturbed => \A x \in b.metrics.fingerprint : b.model.days \cap x[1] = {}

\* The shapes of the records, and the day of the last measures.
Shape ==
  /\ day \in 0 .. MaxDay /\ data \in 0 .. day
  /\ weather = [configured |-> weather.configured, filled |-> weather.filled]
  /\ weather.configured \in BOOLEAN /\ weather.filled \in BOOLEAN
  /\ weather.filled => weather.configured
  /\ store = [columns |-> store.columns, metrics |-> store.metrics, model |-> store.model]
  /\ run = [pc |-> run.pc, loaded |-> run.loaded, mode |-> run.mode, cached |-> run.cached,
            new |-> run.new, exit |-> run.exit, started |-> run.started, had |-> run.had,
            forecast |-> run.forecast]

\* The stored files are one sound bundle, or none, but between two uploads.
Saved ==
  /\ run.pc \notin {"metrics", "model"} =>
       (store.columns = None /\ store.metrics = None /\ store.model = None) \/ Good(store)
  /\ run.pc \in {"metrics", "model"} => store.columns = run.new.columns
  /\ run.pc = "model" => store.metrics = run.new.metrics
  /\ Dry /\ store.model # None => \E r \in BOOLEAN : store.model.rain = {r}

\* What a training made is sound, and has no day of an event.
Fresh ==
  run.pc \in {"fingerprint", "columns", "metrics", "model"} =>
    /\ run.new = [columns |-> run.new.columns, model |-> run.new.model,
                  metrics |-> run.new.metrics]
    /\ run.new.metrics = [fullAt |-> run.new.metrics.fullAt,
                          available |-> run.new.metrics.available,
                          until |-> run.new.metrics.until,
                          fingerprint |-> run.new.metrics.fingerprint]
    /\ run.new.metrics.available \in BOOLEAN
    /\ Good(run.new)
    /\ Undisturbed => run.new.model.days \cap EventDays(run.started) = {}

\* A warm start grows the stored bundle, which is sound, fits and has room.
Warm ==
  run.pc \in {"table", "train"} /\ run.mode = "incremental" =>
    /\ run.loaded = store /\ Good(store) /\ store.model.trees < MaxTrees
    /\ Dry => store.metrics.available = weather.configured
    /\ Undisturbed => store.model.days \cap EventDays(run.started) = {}

\* What the run reads of the registry and of the weather is what they are.
Reads ==
  /\ Undisturbed /\ run.pc # "idle" => rows = run.started
  /\ Undisturbed /\ run.pc = "train" => run.cached = run.started
  /\ Dry /\ run.pc \notin {"idle", "refresh"} => weather.filled = weather.configured

\* What the end of a run says.
Ends ==
  /\ run.exit # "none" => run.pc \in {"predict", "idle"}
  /\ run.exit = "ok" /\ Undisturbed => store.model.days \cap EventDays(run.started) = {}
  /\ run.had /\ run.pc # "idle" => store.model # None
  /\ run.had /\ run.pc = "idle" => run.forecast = "published"

\* The parts of the invariant of the daily run.
CrowdInv == Shape /\ Saved /\ Fresh /\ Warm /\ Reads /\ Ends

\* There is no bundle at the start.
LEMMA CrowdStarts == ASSUME Parameters PROVE Init => CrowdInv
<1> SUFFICES ASSUME Init PROVE CrowdInv OBVIOUS
<1>1. /\ day = 0 /\ data = 0 /\ weather = [configured |-> FALSE, filled |-> FALSE]
      /\ store = [columns |-> None, metrics |-> None, model |-> None]
      /\ run = [pc |-> "idle", loaded |-> None, mode |-> "full", cached |-> None, new |-> None,
                exit |-> "none", started |-> <<>>, had |-> FALSE, forecast |-> "none"]
  BY DEF Init, Asleep
<1>2. MaxDay \in Nat BY DEF Parameters
<1>3. Shape BY <1>1, <1>2 DEF Shape
<1> QED BY <1>1, <1>3 DEF CrowdInv, Saved, Fresh, Warm, Reads, Ends

\* A step between two runs, or of an administrator.
LEMMA RunRests ==
  ASSUME CrowdInv, UNCHANGED <<day, data, store, run>>,
         \/ weather' = weather
         \/ run.pc = "idle" /\ weather' = [weather EXCEPT !.configured = TRUE],
         run.pc = "idle" \/ ~Undisturbed \/ rows' = rows
  PROVE  CrowdInv'
<1>1. Shape'
  <2>1. PICK a, b \in BOOLEAN : weather = [configured |-> a, filled |-> b] /\ (b => a)
    BY DEF CrowdInv, Shape
  <2>2. CASE weather' = weather BY <2>2 DEF CrowdInv, Shape
  <2>3. CASE weather' = [weather EXCEPT !.configured = TRUE]
    <3>1. weather' = [configured |-> TRUE, filled |-> b] BY <2>1, <2>3
    <3> QED BY <2>1, <3>1 DEF CrowdInv, Shape
  <2> QED BY <2>2, <2>3
<1>2. Saved' /\ Fresh' BY DEF CrowdInv, Saved, Fresh, Good, EventDays
<1>3. Warm' BY DEF CrowdInv, Warm, Good, EventDays
<1>4. Reads' BY DEF CrowdInv, Reads
<1>5. Ends' BY DEF CrowdInv, Ends, EventDays
<1> QED BY <1>1, <1>2, <1>3, <1>4, <1>5 DEF CrowdInv

\* The largest of a set of days.
LEMMA LargestDay ==
  ASSUME NEW top \in Nat, NEW S \in SUBSET (0 .. top), S # {}
  PROVE  Max(S) \in S /\ \A d \in S : d <= Max(S)
<1> DEFINE bounds == {u \in Nat : \A d \in S : d <= u}
<1>1. top \in bounds OBVIOUS
<1>2. PICK m \in bounds : \A k \in bounds : ~ (<<k, m>> \in OpToRel(<, Nat))
  <2>1. bounds \subseteq Nat /\ bounds # {} BY <1>1
  <2> HIDE DEF bounds
  <2> QED BY <2>1, NatLessThanWellFounded, WFMin
<1>3. ASSUME NEW k \in bounds PROVE ~ (k < m)
  <2>1. k \in Nat /\ m \in Nat /\ ~ (<<k, m>> \in OpToRel(<, Nat)) BY <1>2, <1>3
  <2> HIDE DEF bounds
  <2> QED BY <2>1, Zenon DEF OpToRel
<1>4. m \in S
  <2> SUFFICES ASSUME m \notin S PROVE FALSE OBVIOUS
  <2>1. m \in Nat /\ \A d \in S : d <= m /\ d \in Nat /\ d # m OBVIOUS
  <2>2. \A d \in S : d <= m - 1 /\ d >= 0 BY <2>1
  <2>3. m - 1 \in Nat
    <3>1. PICK d \in S : TRUE OBVIOUS
    <3>2. d \in Nat /\ d <= m /\ d # m BY <2>1, <3>1
    <3> QED BY <2>1, <3>2
  <2>4. m - 1 \in bounds BY <2>2, <2>3
  <2>5. m - 1 < m BY <2>1
  <2> QED BY <1>3, <2>4, <2>5
<1>5. \A d \in S : m >= d BY <1>2
<1>6. PICK x : x = Max(S) OBVIOUS
<1>7. x \in S /\ \A d \in S : x >= d BY <1>4, <1>5, <1>6, Zenon DEF Max
<1> QED BY <1>6, <1>7

\* What a training may learn lies before the day of its data and in no event.
LEMMA UsableDays ==
  ASSUME Parameters, CrowdInv, Usable # {}
  PROVE  /\ Max(Usable) \in 0 .. data
         /\ \A d \in Usable : d <= Max(Usable)
         /\ Learns \subseteq 0 .. MaxDay /\ Learns \subseteq Usable
         /\ Usable \cap EventDays(run.cached) = {}
<1>1. Usable \in SUBSET (0 .. data) /\ data \in Nat BY DEF Usable, CrowdInv, Shape, Parameters
<1>2. Max(Usable) \in Usable /\ \A d \in Usable : d <= Max(Usable) BY <1>1, LargestDay
<1>3. Learns \subseteq 0 .. MaxDay BY <1>1 DEF Learns, CrowdInv, Shape, Parameters
<1> QED BY <1>1, <1>2, <1>3 DEF Usable, Learns

\* The record of a run after the step.
LEMMA RunRecord ==
  ASSUME CrowdInv
  PROVE  /\ \A pc : [run EXCEPT !.pc = pc] =
              [pc |-> pc, loaded |-> run.loaded, mode |-> run.mode, cached |-> run.cached,
               new |-> run.new, exit |-> run.exit, started |-> run.started, had |-> run.had,
               forecast |-> run.forecast]
<1>1. PICK a, b, c, d, e, f, g, h, i :
        run = [pc |-> a, loaded |-> b, mode |-> c, cached |-> d, new |-> e, exit |-> f,
               started |-> g, had |-> h, forecast |-> i]
  BY DEF CrowdInv, Shape
<1> QED BY <1>1

\* After a refresh that works the weather is filled when it is configured.
LEMMA RefreshKeeps == ASSUME CrowdInv, Refresh PROVE CrowdInv'
<1>1. run.pc = "refresh" /\ UNCHANGED <<day, data, rows, store>> BY DEF Refresh, registry
<1>2. run' = [pc |-> "decide", loaded |-> run.loaded, mode |-> run.mode, cached |-> run.cached,
              new |-> run.new, exit |-> run.exit, started |-> run.started, had |-> run.had,
              forecast |-> run.forecast]
  BY RunRecord DEF Refresh
<1>3. /\ weather' = [configured |-> weather'.configured, filled |-> weather'.filled]
      /\ weather'.configured = weather.configured /\ weather'.filled \in BOOLEAN
      /\ weather'.filled => weather'.configured
      /\ Dry => weather'.filled = weather'.configured
  <2>1. PICK a, b \in BOOLEAN : weather = [configured |-> a, filled |-> b] /\ (b => a)
    BY DEF CrowdInv, Shape
  <2>2. CASE weather' = [weather EXCEPT !.filled = @ \/ weather.configured]
    <3>1. PICK c \in BOOLEAN : c = (b \/ a) OBVIOUS
    <3>2. weather' = [configured |-> a, filled |-> c] BY <2>1, <2>2, <3>1
    <3> QED BY <2>1, <3>1, <3>2
  <2>3. CASE weather.configured /\ Fault("refresh") /\ UNCHANGED weather
    BY <2>1, <2>3 DEF Fault, Dry
  <2> QED BY <2>2, <2>3 DEF Refresh
<1>4. Shape' BY <1>1, <1>2, <1>3 DEF CrowdInv, Shape
<1>5. Saved' /\ Fresh' /\ Warm' BY <1>1, <1>2 DEF CrowdInv, Saved, Fresh, Warm, Good
<1>6. Reads' BY <1>1, <1>2, <1>3 DEF CrowdInv, Reads
<1>7. Ends' BY <1>1, <1>2 DEF CrowdInv, Ends
<1> QED BY <1>4, <1>5, <1>6, <1>7 DEF CrowdInv

\* A run starts with the registry and the bundle of that moment.
LEMMA NewDayKeeps == ASSUME Parameters, CrowdInv, NewDay PROVE CrowdInv'
<1>1. /\ run.pc = "idle" /\ day < MaxDay /\ day' = day + 1 /\ data' \in {data, day + 1}
      /\ UNCHANGED <<rows, store, weather>>
  BY DEF NewDay, registry
<1>2. run' = [pc |-> "refresh", loaded |-> None, mode |-> "full", cached |-> None, new |-> None,
              exit |-> "none", started |-> rows, had |-> Bundle # None, forecast |-> "none"]
  BY DEF NewDay, Asleep
<1>3. Shape' BY <1>1, <1>2 DEF CrowdInv, Shape, Parameters
<1>4. Saved' /\ Fresh' /\ Warm' /\ Reads'
  BY <1>1, <1>2 DEF CrowdInv, Saved, Fresh, Warm, Reads, Good
<1>5. Ends' BY <1>1, <1>2 DEF CrowdInv, Ends, Bundle
<1> QED BY <1>3, <1>4, <1>5 DEF CrowdInv

\* A reading of the registry is the registry of the start, unless it was disturbed.
LEMMA ReadingIsRows ==
  ASSUME CrowdInv, NEW rs, Reading(rs), Undisturbed PROVE rs = rows
BY DEF Reading, Fault, Undisturbed

\* The run is warm only with a sound bundle that learned no event and has room to grow.
LEMMA DecideKeeps ==
  ASSUME Parameters, CrowdInv, NEW forced \in BOOLEAN, NEW rs, Decide(forced, rs)
  PROVE  CrowdInv'
<1>1. run.pc = "decide" /\ UNCHANGED <<day, data, weather, rows, store>>
  BY DEF Decide, registry
<1>2. PICK b, warm, mode :
        /\ b = IF forced THEN None ELSE Bundle
        /\ warm = (b # None /\ ~Due(b, rs) /\ Room(b))
        /\ mode = IF warm THEN "incremental" ELSE "full"
  OBVIOUS
<1>3. run' = [pc |-> "table", loaded |-> b, mode |-> mode, cached |-> run.cached,
              new |-> run.new, exit |-> run.exit, started |-> run.started, had |-> run.had,
              forecast |-> run.forecast]
  <2>1. run' = [run EXCEPT !.loaded = b, !.pc = "table", !.mode = mode] BY <1>2 DEF Decide
  <2>2. PICK k : k = [run EXCEPT !.loaded = b] OBVIOUS
  <2>3. k = [pc |-> run.pc, loaded |-> b, mode |-> run.mode, cached |-> run.cached,
             new |-> run.new, exit |-> run.exit, started |-> run.started, had |-> run.had,
             forecast |-> run.forecast]
    <3>1. PICK r1, r2, r3, r4, r5, r6, r7, r8, r9 :
        run = [pc |-> r1, loaded |-> r2, mode |-> r3, cached |-> r4, new |-> r5, exit |-> r6,
               started |-> r7, had |-> r8, forecast |-> r9]
      BY DEF CrowdInv, Shape
    <3> QED BY <2>2, <3>1
  <2>4. run' = [k EXCEPT !.pc = "table", !.mode = mode] BY <2>1, <2>2
  <2> QED BY <2>3, <2>4
<1>4. CASE mode = "full"
  <2>1. Shape' BY <1>1, <1>3 DEF CrowdInv, Shape
  <2>2. Saved' /\ Fresh' /\ Warm' /\ Reads'
    BY <1>1, <1>3, <1>4 DEF CrowdInv, Saved, Fresh, Warm, Reads, Good
  <2>3. Ends' BY <1>1, <1>3 DEF CrowdInv, Ends
  <2> QED BY <2>1, <2>2, <2>3 DEF CrowdInv
<1>5. CASE warm
  <2>1. Bundle # None /\ b = Bundle /\ ~Due(b, rs) /\ Room(b) BY <1>2, <1>5
  <2>2. b = store /\ store.model # None BY <2>1 DEF Bundle
  <2>3. Good(store) BY <1>1, <2>2 DEF CrowdInv, Saved
  <2>4. store.model.trees < MaxTrees BY <2>1, <2>2 DEF Room
  <2>5. Dry => store.metrics.available = weather.configured BY <2>1, <2>2 DEF Due, DueAsStored
  <2>6. ASSUME Undisturbed PROVE store.model.days \cap EventDays(run.started) = {}
    <3>1. rs = run.started /\ rs = rows
      <4>1. b # None /\ ~DueAsStored(b) BY <2>1 DEF Due
      <4>2. Reading(rs) BY <1>2, <4>1 DEF Decide
      <4> QED BY <1>1, <2>6, <4>2, ReadingIsRows DEF CrowdInv, Reads
    <3>2. Fingerprint(rs, store.metrics.until) = store.metrics.fingerprint
      BY <2>1, <2>2 DEF Due
    <3> SUFFICES ASSUME NEW d \in store.model.days, d \in EventDays(run.started) PROVE FALSE
      OBVIOUS
    <3>3. PICK j \in DOMAIN rs : d \in rs[j] BY <3>1 DEF EventDays, Range
    <3>4. d <= store.metrics.until BY <2>3 DEF Good
    <3>5. d \in UpTo(rs[j], store.metrics.until) BY <3>3, <3>4 DEF UpTo
    <3>6. PICK seen : seen = {k \in DOMAIN rs : UpTo(rs[k], store.metrics.until) # {}} OBVIOUS
    <3>7. j \in seen BY <3>3, <3>5, <3>6
    <3>8. PICK x : x = <<UpTo(rs[j], store.metrics.until),
                         Cardinality({k \in seen : UpTo(rs[k], store.metrics.until)
                                                     = UpTo(rs[j], store.metrics.until)})>>
      OBVIOUS
    <3>9. x \in Fingerprint(rs, store.metrics.until) BY <3>6, <3>7, <3>8 DEF Fingerprint
    <3>10. x[1] = UpTo(rs[j], store.metrics.until) BY <3>8
    <3> QED BY <2>3, <2>6, <3>2, <3>5, <3>9, <3>10 DEF Good
  <2>7. Shape' BY <1>1, <1>3 DEF CrowdInv, Shape
  <2>8. Saved' /\ Fresh' /\ Reads' BY <1>1, <1>3 DEF CrowdInv, Saved, Fresh, Reads, Good
  <2>9. Warm' BY <1>1, <1>3, <2>2, <2>3, <2>4, <2>5, <2>6 DEF Warm, Good
  <2>10. Ends' BY <1>1, <1>3 DEF CrowdInv, Ends
  <2> QED BY <2>7, <2>8, <2>9, <2>10 DEF CrowdInv
<1> QED BY <1>2, <1>4, <1>5

\* The table of the training is built from the registry of the start, unless disturbed.
LEMMA TableKeeps == ASSUME CrowdInv, NEW rs, Table(rs) PROVE CrowdInv'
<1>1. run.pc = "table" /\ UNCHANGED <<day, data, weather, rows, store>> BY DEF Table, registry
<1>2. run' = [pc |-> "train", loaded |-> run.loaded, mode |-> run.mode, cached |-> rs,
              new |-> run.new, exit |-> run.exit, started |-> run.started, had |-> run.had,
              forecast |-> run.forecast]
  <2>1. PICK r1, r2, r3, r4, r5, r6, r7, r8, r9 :
        run = [pc |-> r1, loaded |-> r2, mode |-> r3, cached |-> r4, new |-> r5, exit |-> r6,
               started |-> r7, had |-> r8, forecast |-> r9]
    BY DEF CrowdInv, Shape
  <2>2. run' = [run EXCEPT !.cached = rs, !.pc = "train"] BY DEF Table
  <2> QED BY <2>1, <2>2
<1>3. Undisturbed => rs = run.started
  BY <1>1, ReadingIsRows DEF CrowdInv, Reads, Table
<1>4. Shape' BY <1>1, <1>2 DEF CrowdInv, Shape
<1>5. Saved' /\ Fresh' /\ Reads' BY <1>1, <1>2, <1>3 DEF CrowdInv, Saved, Fresh, Reads, Good
<1>6. Warm' BY <1>1, <1>2 DEF CrowdInv, Warm, Good
<1>7. Ends' BY <1>1, <1>2 DEF CrowdInv, Ends
<1> QED BY <1>4, <1>5, <1>6, <1>7 DEF CrowdInv

\* A run that gives up, with the bundle as it was.
LEMMA FailedKeeps ==
  ASSUME CrowdInv, run.pc \notin {"idle", "refresh", "metrics", "model"}, run' = Failed,
         UNCHANGED <<day, data, weather, rows, store>>
  PROVE  CrowdInv'
<1>1. run' = [pc |-> "predict", loaded |-> run.loaded, mode |-> run.mode, cached |-> run.cached,
              new |-> run.new, exit |-> "failed", started |-> run.started, had |-> run.had,
              forecast |-> run.forecast]
  <2>1. PICK r1, r2, r3, r4, r5, r6, r7, r8, r9 :
        run = [pc |-> r1, loaded |-> r2, mode |-> r3, cached |-> r4, new |-> r5, exit |-> r6,
               started |-> r7, had |-> r8, forecast |-> r9]
    BY DEF CrowdInv, Shape
  <2> QED BY <2>1 DEF Failed
<1>2. Shape' BY <1>1 DEF CrowdInv, Shape
<1>3. Saved' /\ Fresh' /\ Warm' /\ Reads'
  BY <1>1 DEF CrowdInv, Saved, Fresh, Warm, Reads, Good
<1>4. Ends' BY <1>1 DEF CrowdInv, Ends
<1> QED BY <1>2, <1>3, <1>4 DEF CrowdInv

\* A training that ends well has a model to save.
LEMMA TrainedKeeps ==
  ASSUME Parameters, CrowdInv, run.pc = "train", Usable # {}, NEW m \in ModelType, NEW fullAt,
         run' = Trained(m, fullAt), UNCHANGED <<day, data, weather, rows, store>>,
         \A d \in m.days : d <= Max(Usable), Dry => m.rain = {weather.configured},
         Undisturbed => m.days \cap EventDays(run.started) = {}
  PROVE  CrowdInv'
<1>1. PICK stats : stats = [fullAt |-> fullAt, available |-> weather.configured,
                            until |-> Max(Usable), fingerprint |-> {}]
  OBVIOUS
<1>2. PICK new : new = [columns |-> m.columns, model |-> m, metrics |-> stats] OBVIOUS
<1>3. run' = [pc |-> "fingerprint", loaded |-> run.loaded, mode |-> run.mode,
              cached |-> run.cached, new |-> new, exit |-> run.exit, started |-> run.started,
              had |-> run.had, forecast |-> run.forecast]
  <2>1. PICK r1, r2, r3, r4, r5, r6, r7, r8, r9 :
        run = [pc |-> r1, loaded |-> r2, mode |-> r3, cached |-> r4, new |-> r5, exit |-> r6,
               started |-> r7, had |-> r8, forecast |-> r9]
    BY DEF CrowdInv, Shape
  <2>2. run' = [run EXCEPT !.pc = "fingerprint", !.new = new] BY <1>1, <1>2 DEF Trained
  <2> QED BY <2>1, <2>2
<1>4. Max(Usable) \in Nat BY UsableDays DEF CrowdInv, Shape, Parameters
<1>5. weather.configured \in BOOLEAN BY DEF CrowdInv, Shape
<1>6. /\ stats = [fullAt |-> stats.fullAt, available |-> stats.available,
                  until |-> stats.until, fingerprint |-> stats.fingerprint]
      /\ stats.available = weather.configured /\ stats.until = Max(Usable)
      /\ stats.fingerprint = {}
  BY <1>1
<1>7. /\ new = [columns |-> new.columns, model |-> new.model, metrics |-> new.metrics]
      /\ new.columns = m.columns /\ new.model = m /\ new.metrics = stats
  BY <1>2
<1>8. Good(new) BY <1>4, <1>6, <1>7 DEF Good
<1>9. Shape' BY <1>3 DEF CrowdInv, Shape
<1>10. Fresh'
  <2>1. Good(new)' BY <1>8 DEF Good
  <2>2. run'.new = new /\ run'.started = run.started BY <1>3
  <2> QED BY <1>5, <1>6, <1>7, <2>1, <2>2 DEF Fresh
<1>11. Saved' /\ Warm' /\ Reads' BY <1>3 DEF CrowdInv, Saved, Warm, Reads, Good
<1>12. Ends' BY <1>3 DEF CrowdInv, Ends
<1> QED BY <1>9, <1>10, <1>11, <1>12 DEF CrowdInv

\* What is learned by a training is in no event.
LEMMA LearnsNoEvent ==
  ASSUME Parameters, CrowdInv, run.pc = "train", Usable # {}, Undisturbed
  PROVE  Learns \cap EventDays(run.started) = {}
BY UsableDays DEF CrowdInv, Reads

\* A full training learns usable days, with one meaning of the rain.
LEMMA TrainFullKeeps == ASSUME Parameters, CrowdInv, TrainFull PROVE CrowdInv'
<1>1. run.pc = "train" /\ UNCHANGED <<day, data, weather, rows, store>>
  BY DEF TrainFull, registry
<1>2. CASE Usable = {} \/ Learns = {} BY <1>1, <1>2, FailedKeeps DEF TrainFull
<1>3. CASE Usable # {} /\ Learns # {}
  <2>1. PICK m : m = [days |-> Learns, columns |-> Columns, trees |-> 1,
                      rain |-> {weather.filled}]
    OBVIOUS
  <2>2. run' = Trained(m, day) BY <1>3, <2>1 DEF TrainFull
  <2>3. weather.filled \in BOOLEAN /\ MaxTrees \in Nat BY DEF CrowdInv, Shape, Parameters
  <2>4. m \in ModelType
    <3>1. Learns \in SUBSET (0 .. MaxDay) BY <1>3, UsableDays
    <3>2. Columns \in {"7d", "28d"} BY DEF Columns
    <3>3. {weather.filled} \in SUBSET BOOLEAN /\ 1 \in 1 .. (MaxTrees + 1) BY <2>3
    <3> QED BY <2>1, <3>1, <3>2, <3>3 DEF ModelType
  <2>5. m.days = Learns /\ m.rain = {weather.filled} BY <2>1
  <2>6. \A d \in m.days : d <= Max(Usable) BY <1>3, <2>5, UsableDays
  <2>7. Dry => m.rain = {weather.configured} BY <1>1, <2>5 DEF CrowdInv, Reads
  <2>8. Undisturbed => m.days \cap EventDays(run.started) = {}
    BY <1>1, <1>3, <2>5, LearnsNoEvent
  <2> QED BY <1>1, <1>3, <2>2, <2>4, <2>6, <2>7, <2>8, TrainedKeeps
<1> QED BY <1>2, <1>3

\* A warm training adds usable days to those of a sound bundle, or is made in full,
\* or changes nothing.
LEMMA TrainIncrementalKeeps == ASSUME Parameters, CrowdInv, TrainIncremental PROVE CrowdInv'
<1>1. /\ run.pc = "train" /\ run.mode = "incremental"
      /\ UNCHANGED <<day, data, weather, rows, store>>
  BY DEF TrainIncremental, registry
<1>2. /\ run.loaded = store /\ Good(store) /\ store.model.trees < MaxTrees
      /\ Dry => store.metrics.available = weather.configured
      /\ Undisturbed => store.model.days \cap EventDays(run.started) = {}
  BY <1>1 DEF CrowdInv, Warm
<1>3. PICK m, grown : /\ m = store.model
                      /\ grown = [m EXCEPT !.days = @ \cup Learns, !.trees = @ + 1,
                                           !.rain = @ \cup {weather.filled}]
  OBVIOUS
<1>4. PICK ended : ended = [run EXCEPT !.exit = "ok", !.pc = "predict"] OBVIOUS
<1>5. PICK anew : anew = [run EXCEPT !.mode = "full"] OBVIOUS
<1>6. ASSUME run' = anew PROVE CrowdInv'
  <2>1. run' = [pc |-> "train", loaded |-> run.loaded, mode |-> "full", cached |-> run.cached,
                new |-> run.new, exit |-> run.exit, started |-> run.started, had |-> run.had,
                forecast |-> run.forecast]
    <3>1. PICK r1, r2, r3, r4, r5, r6, r7, r8, r9 :
          run = [pc |-> r1, loaded |-> r2, mode |-> r3, cached |-> r4, new |-> r5, exit |-> r6,
                 started |-> r7, had |-> r8, forecast |-> r9]
      BY DEF CrowdInv, Shape
    <3> QED BY <1>1, <1>5, <1>6, <3>1
  <2>2. Shape' BY <1>1, <2>1 DEF CrowdInv, Shape
  <2>3. Saved' /\ Fresh' /\ Warm' /\ Reads'
    BY <1>1, <2>1 DEF CrowdInv, Saved, Fresh, Warm, Reads, Good
  <2>4. Ends' BY <1>1, <2>1 DEF CrowdInv, Ends
  <2> QED BY <2>2, <2>3, <2>4 DEF CrowdInv
<1>7. ASSUME run' = ended PROVE CrowdInv'
  <2>1. run' = [pc |-> "predict", loaded |-> run.loaded, mode |-> run.mode,
                cached |-> run.cached, new |-> run.new, exit |-> "ok",
                started |-> run.started, had |-> run.had, forecast |-> run.forecast]
    <3>1. PICK r1, r2, r3, r4, r5, r6, r7, r8, r9 :
          run = [pc |-> r1, loaded |-> r2, mode |-> r3, cached |-> r4, new |-> r5, exit |-> r6,
                 started |-> r7, had |-> r8, forecast |-> r9]
      BY DEF CrowdInv, Shape
    <3> QED BY <1>4, <1>7, <3>1
  <2>2. Shape' BY <1>1, <2>1 DEF CrowdInv, Shape
  <2>3. Saved' /\ Fresh' /\ Warm' /\ Reads'
    BY <1>1, <2>1 DEF CrowdInv, Saved, Fresh, Warm, Reads, Good
  <2>4. Ends' BY <1>1, <1>2, <2>1 DEF CrowdInv, Ends
  <2> QED BY <2>2, <2>3, <2>4 DEF CrowdInv
<1>8. ASSUME run' = Failed PROVE CrowdInv' BY <1>1, <1>8, FailedKeeps
<1>9. ASSUME Usable # {}, Max(Usable) > store.metrics.until,
             run' = Trained(grown, store.metrics.fullAt)
      PROVE  CrowdInv'
  <2>1. PICK d, c, t, r : /\ m = [days |-> d, columns |-> c, trees |-> t, rain |-> r]
                          /\ d \in SUBSET (0 .. MaxDay) /\ c \in {"7d", "28d"}
                          /\ t \in 1 .. (MaxTrees + 1) /\ r \in SUBSET BOOLEAN
    <3>1. m \in [days : SUBSET (0 .. MaxDay), columns : {"7d", "28d"},
                 trees : 1 .. (MaxTrees + 1), rain : SUBSET BOOLEAN]
      BY <1>2, <1>3 DEF Good, ModelType
    <3>2. /\ m = [days |-> m.days, columns |-> m.columns, trees |-> m.trees, rain |-> m.rain]
          /\ m.days \in SUBSET (0 .. MaxDay) /\ m.columns \in {"7d", "28d"}
          /\ m.trees \in 1 .. (MaxTrees + 1) /\ m.rain \in SUBSET BOOLEAN
      BY <3>1
    <3> QED BY <3>2
  <2>2. grown = [days |-> d \cup Learns, columns |-> c, trees |-> t + 1,
                 rain |-> r \cup {weather.filled}]
    <3>1. m.days = d /\ m.trees = t /\ m.rain = r BY <2>1
    <3>2. PICK g1 : g1 = [m EXCEPT !.days = d \cup Learns] OBVIOUS
    <3>3. g1 = [days |-> d \cup Learns, columns |-> c, trees |-> t, rain |-> r] BY <2>1, <3>2
    <3>4. PICK g2 : g2 = [g1 EXCEPT !.trees = t + 1] OBVIOUS
    <3>5. g2 = [days |-> d \cup Learns, columns |-> c, trees |-> t + 1, rain |-> r]
      BY <3>3, <3>4
    <3>6. grown = [g2 EXCEPT !.rain = r \cup {weather.filled}]
      BY <1>3, <3>1, <3>2, <3>3, <3>4, <3>5
    <3> QED BY <3>5, <3>6
  <2>3. t < MaxTrees /\ MaxTrees \in Nat BY <1>2, <1>3, <2>1 DEF Parameters
  <2>4. weather.filled \in BOOLEAN BY DEF CrowdInv, Shape
  <2>5. Learns \subseteq 0 .. MaxDay /\ \A x \in Learns : x <= Max(Usable)
    BY <1>9, UsableDays
  <2>6. grown \in ModelType
    <3>1. d \cup Learns \in SUBSET (0 .. MaxDay) BY <2>1, <2>5
    <3>2. t + 1 \in 1 .. (MaxTrees + 1) BY <2>1, <2>3
    <3>3. r \cup {weather.filled} \in SUBSET BOOLEAN BY <2>1, <2>4
    <3> QED BY <2>1, <2>2, <3>1, <3>2, <3>3 DEF ModelType
  <2>7. grown.days = d \cup Learns /\ grown.rain = r \cup {weather.filled} BY <2>2
  <2>8. m.days = d /\ m.rain = r BY <2>1
  <2>9. \A x \in grown.days : x <= Max(Usable)
    <3>1. \A x \in d : x <= store.metrics.until /\ x \in Nat
      BY <1>2, <1>3, <2>1, <2>8 DEF Good
    <3>2. Max(Usable) \in Nat /\ store.metrics.until \in Nat
      BY <1>2, <1>9, UsableDays DEF Good, CrowdInv, Shape, Parameters
    <3>3. \A x \in d : x <= Max(Usable) BY <1>9, <3>1, <3>2
    <3> QED BY <2>5, <2>7, <3>3
  <2>10. Dry => grown.rain = {weather.configured}
    BY <1>1, <1>2, <1>3, <2>7, <2>8 DEF Good, CrowdInv, Reads
  <2>11. Undisturbed => grown.days \cap EventDays(run.started) = {}
    BY <1>1, <1>2, <1>3, <1>9, <2>7, <2>8, LearnsNoEvent
  <2> QED BY <1>1, <1>9, <2>6, <2>9, <2>10, <2>11, TrainedKeeps
<1>10. CASE Usable = {} BY <1>5, <1>6, <1>10 DEF TrainIncremental, Anew
<1>11. CASE Usable # {} /\ Max(Usable) <= store.metrics.until
  <2>1. Max(Usable) \in Nat /\ store.metrics.until \in Nat
    BY <1>2, <1>11, UsableDays DEF Good, CrowdInv, Shape, Parameters
  <2>2. run' \in {ended, Failed} BY <1>2, <1>4, <1>11, <2>1 DEF TrainIncremental
  <2> QED BY <1>7, <1>8, <2>2
<1>12. CASE Usable # {} /\ ~(Max(Usable) <= store.metrics.until)
  <2>1. Max(Usable) > store.metrics.until
    BY <1>2, <1>12, UsableDays DEF Good, CrowdInv, Shape, Parameters
  <2>2. run' \in {anew, Failed, Trained(grown, store.metrics.fullAt)}
    BY <1>2, <1>3, <1>5, <1>12, <2>1 DEF TrainIncremental, Anew
  <2> QED BY <1>6, <1>8, <1>9, <1>12, <2>1, <2>2
<1> QED BY <1>10, <1>11, <1>12

\* A training that raises leaves the bundle as it was.
LEMMA TrainRaisesKeeps == ASSUME CrowdInv, TrainRaises PROVE CrowdInv'
BY FailedKeeps DEF TrainRaises, registry

\* The fingerprint has events of the registry of the start, unless disturbed.
LEMMA StampKeeps == ASSUME CrowdInv, NEW rs, Stamp(rs) PROVE CrowdInv'
<1>1. run.pc = "fingerprint" /\ UNCHANGED <<day, data, weather, rows, store>>
  BY DEF Stamp, registry
<1>2. PICK m, a, u, at, f :
        /\ run.new = [columns |-> m.columns, model |-> m,
                      metrics |-> [fullAt |-> at, available |-> a, until |-> u,
                                   fingerprint |-> f]]
        /\ a \in BOOLEAN /\ u \in Nat /\ m \in ModelType /\ \A d \in m.days : d <= u
        /\ Dry => m.rain = {a}
        /\ Undisturbed => m.days \cap EventDays(run.started) = {}
  <2>1. PICK b : b = run.new OBVIOUS
  <2>2. /\ b = [columns |-> b.columns, model |-> b.model, metrics |-> b.metrics]
        /\ b.metrics = [fullAt |-> b.metrics.fullAt, available |-> b.metrics.available,
                        until |-> b.metrics.until, fingerprint |-> b.metrics.fingerprint]
        /\ b.metrics.available \in BOOLEAN /\ Good(b)
        /\ Undisturbed => b.model.days \cap EventDays(run.started) = {}
    BY <1>1, <2>1 DEF CrowdInv, Fresh
  <2>3. b.columns = b.model.columns BY <2>2 DEF Good
  <2> QED BY <2>1, <2>2, <2>3 DEF Good
<1>3. PICK print : print = Fingerprint(rs, u) OBVIOUS
<1>4. PICK stats : stats = [fullAt |-> at, available |-> a, until |-> u, fingerprint |-> print]
  OBVIOUS
<1>5. PICK new : new = [columns |-> m.columns, model |-> m, metrics |-> stats] OBVIOUS
<1>6. run' = [pc |-> "columns", loaded |-> run.loaded, mode |-> run.mode,
              cached |-> run.cached, new |-> new, exit |-> run.exit, started |-> run.started,
              had |-> run.had, forecast |-> run.forecast]
  <2>1. PICK r1, r2, r3, r4, r5, r6, r7, r8, r9 :
        run = [pc |-> r1, loaded |-> r2, mode |-> r3, cached |-> r4, new |-> r5, exit |-> r6,
               started |-> r7, had |-> r8, forecast |-> r9]
    BY DEF CrowdInv, Shape
  <2>2. run.new.metrics = [fullAt |-> at, available |-> a, until |-> u, fingerprint |-> f]
        /\ run.new.metrics.until = u
    BY <1>2
  <2>3. PICK k : k = [run.new.metrics EXCEPT !.fingerprint = print] OBVIOUS
  <2>4. k = stats BY <1>4, <2>2, <2>3
  <2>5. PICK n : n = [run.new EXCEPT !.metrics = k] OBVIOUS
  <2>6. n = new BY <1>2, <1>5, <2>4, <2>5
  <2>7. PICK q : q = [run EXCEPT !.pc = "columns"] OBVIOUS
  <2>8. q = [pc |-> "columns", loaded |-> r2, mode |-> r3, cached |-> r4, new |-> r5,
             exit |-> r6, started |-> r7, had |-> r8, forecast |-> r9]
    BY <2>1, <2>7
  <2>9. q.new = run.new BY <2>1, <2>8
  <2>10. run' = [q EXCEPT !.new.metrics.fingerprint = print] BY <1>3, <2>2, <2>7 DEF Stamp
  <2>11. run' = [q EXCEPT !.new = n] BY <2>3, <2>5, <2>9, <2>10
  <2> QED BY <2>1, <2>6, <2>8, <2>11
<1>7. /\ stats = [fullAt |-> stats.fullAt, available |-> stats.available,
                  until |-> stats.until, fingerprint |-> stats.fingerprint]
      /\ stats.available = a /\ stats.until = u /\ stats.fingerprint = print
  BY <1>4
<1>8. /\ new = [columns |-> new.columns, model |-> new.model, metrics |-> new.metrics]
      /\ new.columns = m.columns /\ new.model = m /\ new.metrics = stats
  BY <1>5
<1>9. ASSUME Undisturbed, NEW x \in print PROVE m.days \cap x[1] = {}
  <2>1. rs = run.started BY <1>1, <1>9, ReadingIsRows DEF CrowdInv, Reads, Stamp
  <2>2. PICK seen : seen = {i \in DOMAIN rs : UpTo(rs[i], u) # {}} OBVIOUS
  <2>3. PICK i \in seen : x = <<UpTo(rs[i], u),
                                Cardinality({j \in seen : UpTo(rs[j], u) = UpTo(rs[i], u)})>>
    BY <1>3, <1>9, <2>2 DEF Fingerprint
  <2>4. x[1] \subseteq rs[i] /\ i \in DOMAIN rs BY <2>2, <2>3 DEF UpTo
  <2>5. x[1] \subseteq EventDays(run.started) BY <2>1, <2>4 DEF EventDays, Range
  <2> QED BY <1>2, <1>9, <2>5
<1>10. Good(new) BY <1>2, <1>7, <1>8, <1>9 DEF Good
<1>11. Shape' BY <1>1, <1>6 DEF CrowdInv, Shape
<1>12. Fresh'
  <2>1. Good(new)' BY <1>10 DEF Good
  <2>2. run'.new = new /\ run'.started = run.started BY <1>6
  <2> QED BY <1>2, <1>7, <1>8, <2>1, <2>2 DEF Fresh
<1>13. Saved' /\ Warm' /\ Reads' BY <1>1, <1>6 DEF CrowdInv, Saved, Warm, Reads, Good
<1>14. Ends' BY <1>1, <1>6 DEF CrowdInv, Ends
<1> QED BY <1>11, <1>12, <1>13, <1>14 DEF CrowdInv

\* Uploads that do not fail leave the new bundle in the place of the old one.
LEMMA SaveKeeps ==
  ASSUME Parameters, "upload" \notin Faults, CrowdInv, Save PROVE CrowdInv'
<1>1. PICK pc, next, exit :
        /\ pc = run.pc /\ pc \in {"columns", "metrics", "model"}
        /\ next = AfterSaving[pc] /\ exit = IF pc = "model" THEN "ok" ELSE run.exit
  BY DEF Save, AfterSaving
<1>2. /\ store' = [store EXCEPT ![pc] = run.new[pc]]
      /\ run' = [run EXCEPT !.pc = next, !.exit = exit]
      /\ UNCHANGED <<day, data, weather, rows>>
  BY <1>1 DEF Save, Fault, registry
<1>3. /\ pc = "columns" => next = "metrics"
      /\ pc = "metrics" => next = "model"
      /\ pc = "model" => next = "predict"
  BY <1>1 DEF AfterSaving
<1>4. run' = [pc |-> next, loaded |-> run.loaded, mode |-> run.mode, cached |-> run.cached,
              new |-> run.new, exit |-> exit, started |-> run.started, had |-> run.had,
              forecast |-> run.forecast]
  <2>1. PICK r1, r2, r3, r4, r5, r6, r7, r8, r9 :
        run = [pc |-> r1, loaded |-> r2, mode |-> r3, cached |-> r4, new |-> r5, exit |-> r6,
               started |-> r7, had |-> r8, forecast |-> r9]
    BY DEF CrowdInv, Shape
  <2> QED BY <1>2, <2>1
<1>5. PICK c, q, m : store = [columns |-> c, metrics |-> q, model |-> m]
  BY DEF CrowdInv, Shape
<1>6. PICK b : b = run.new OBVIOUS
<1>7. /\ b = [columns |-> b.columns, model |-> b.model, metrics |-> b.metrics]
      /\ b.metrics = [fullAt |-> b.metrics.fullAt, available |-> b.metrics.available,
                      until |-> b.metrics.until, fingerprint |-> b.metrics.fingerprint]
      /\ b.metrics.available \in BOOLEAN /\ Good(b)
      /\ Undisturbed => b.model.days \cap EventDays(run.started) = {}
  BY <1>1, <1>6 DEF CrowdInv, Fresh
<1>8. /\ run'.pc = next /\ run'.new = b /\ run'.started = run.started /\ run'.exit = exit
      /\ run'.had = run.had /\ run'.forecast = run.forecast
  BY <1>4, <1>6
<1>9. Fresh'
  <2>1. Good(b)' BY <1>7 DEF Good
  <2> QED BY <1>7, <1>8, <2>1 DEF Fresh
<1>10. Warm' /\ Reads' BY <1>1, <1>2, <1>3, <1>8 DEF CrowdInv, Warm, Reads
<1>11. CASE pc = "columns"
  <2>1. store' = [columns |-> b.columns, metrics |-> q, model |-> m]
    BY <1>2, <1>5, <1>6, <1>11
  <2>2. Shape' BY <1>2, <1>4, <2>1 DEF CrowdInv, Shape
  <2>3. store'.columns = b.columns /\ store'.model = store.model BY <1>5, <2>1
  <2>4. next = "metrics" /\ run.pc = "columns" /\ exit = run.exit BY <1>1, <1>3, <1>11
  <2>5. Saved' BY <1>8, <2>3, <2>4 DEF CrowdInv, Saved
  <2>6. Ends' BY <1>8, <2>3, <2>4 DEF CrowdInv, Ends
  <2> QED BY <1>9, <1>10, <2>2, <2>5, <2>6 DEF CrowdInv
<1>12. CASE pc = "metrics"
  <2>1. store' = [columns |-> c, metrics |-> b.metrics, model |-> m]
    BY <1>2, <1>5, <1>6, <1>12
  <2>2. Shape' BY <1>2, <1>4, <2>1 DEF CrowdInv, Shape
  <2>3. /\ store'.columns = store.columns /\ store'.metrics = b.metrics
        /\ store'.model = store.model
    BY <1>5, <2>1
  <2>4. next = "model" /\ run.pc = "metrics" /\ exit = run.exit BY <1>1, <1>3, <1>12
  <2>5. Saved' BY <1>6, <1>8, <2>3, <2>4 DEF CrowdInv, Saved
  <2>6. Ends' BY <1>8, <2>3, <2>4 DEF CrowdInv, Ends
  <2> QED BY <1>9, <1>10, <2>2, <2>5, <2>6 DEF CrowdInv
<1>13. CASE pc = "model"
  <2>1. store' = [columns |-> c, metrics |-> q, model |-> b.model] BY <1>2, <1>5, <1>6, <1>13
  <2>2. Shape' BY <1>2, <1>4, <2>1 DEF CrowdInv, Shape
  <2>3. store'.columns = b.columns /\ store'.metrics = b.metrics /\ store'.model = b.model
    BY <1>1, <1>5, <1>6, <1>13, <2>1 DEF CrowdInv, Saved
  <2>4. next = "predict" /\ run.pc = "model" /\ exit = "ok" BY <1>1, <1>3, <1>13
  <2>5. Good(store)' BY <1>7, <2>3 DEF Good
  <2>6. store'.model # None BY <1>7, <2>3 DEF Good, Parameters
  <2>7. Dry => \E r \in BOOLEAN : store'.model.rain = {r} BY <1>7, <2>3 DEF Good
  <2>8. Saved' BY <1>8, <2>4, <2>5, <2>7 DEF Saved
  <2>9. Ends' BY <1>7, <1>8, <2>3, <2>4, <2>6 DEF Ends
  <2> QED BY <1>9, <1>10, <2>2, <2>8, <2>9 DEF CrowdInv
<1> QED BY <1>1, <1>11, <1>12, <1>13

\* A bundle that belongs together is enough to publish.
LEMMA PredictKeeps == ASSUME Parameters, CrowdInv, Predict PROVE CrowdInv'
<1>1. run.pc = "predict" /\ UNCHANGED <<day, data, weather, rows, store>>
  BY DEF Predict, registry
<1>2. run' = [pc |-> "idle", loaded |-> None, mode |-> "full", cached |-> None,
              new |-> None, exit |-> run.exit, started |-> run.started, had |-> run.had,
              forecast |-> Forecast]
  <2>1. PICK r1, r2, r3, r4, r5, r6, r7, r8, r9 :
        run = [pc |-> r1, loaded |-> r2, mode |-> r3, cached |-> r4, new |-> r5, exit |-> r6,
               started |-> r7, had |-> r8, forecast |-> r9]
    BY DEF CrowdInv, Shape
  <2>2. PICK x : x = Forecast OBVIOUS
  <2>3. run' = [run EXCEPT !.pc = "idle", !.forecast = x, !.new = None, !.cached = None,
                           !.loaded = None, !.mode = "full"]
    BY <2>2 DEF Predict
  <2>4. PICK k : k = [run EXCEPT !.pc = "idle", !.forecast = x, !.new = None] OBVIOUS
  <2>5. k = [pc |-> "idle", loaded |-> r2, mode |-> r3, cached |-> r4, new |-> None,
             exit |-> r6, started |-> r7, had |-> r8, forecast |-> x]
    BY <2>1, <2>4
  <2>6. run' = [k EXCEPT !.cached = None, !.loaded = None, !.mode = "full"] BY <2>3, <2>4
  <2> QED BY <2>1, <2>2, <2>5, <2>6
<1>3. run.had => Forecast = "published"
  <2> SUFFICES ASSUME run.had PROVE Fits BY DEF Forecast
  <2>1. store.model # None BY <1>1 DEF CrowdInv, Ends
  <2>2. Good(store) BY <1>1, <2>1 DEF CrowdInv, Saved
  <2>3. store.columns = store.model.columns /\ store.model \in ModelType BY <2>2 DEF Good
  <2>4. store.columns \in {"7d", "28d"} BY <2>3 DEF ModelType
  <2>5. store.columns # None BY <2>4 DEF Parameters
  <2> QED BY <2>1, <2>3, <2>5 DEF Fits
<1>4. Shape' BY <1>1, <1>2 DEF CrowdInv, Shape
<1>5. Saved' /\ Fresh' /\ Warm' /\ Reads'
  BY <1>1, <1>2 DEF CrowdInv, Saved, Fresh, Warm, Reads, Good
<1>6. Ends' BY <1>1, <1>2, <1>3 DEF CrowdInv, Ends
<1> QED BY <1>4, <1>5, <1>6 DEF CrowdInv

\* Every step keeps the invariant, unless an upload fails.
LEMMA CrowdSteps ==
  ASSUME Parameters, "upload" \notin Faults, CrowdInv, [Next]_vars PROVE CrowdInv'
<1>1. ASSUME NEW a \in Admins,
             \/ \E i \in 1 .. MaxRows : List(a, i)
             \/ \E e \in Events : AppendEvent(a, e)
             \/ Delete(a) \/ Write(a)
      PROVE  CrowdInv'
  <2>1. UNCHANGED <<day, data, weather, store, run>>
    BY <1>1 DEF List, AppendEvent, Delete, Write
  <2>2. run.pc = "idle" \/ ~Undisturbed \/ rows' = rows
    BY <1>1 DEF List, AppendEvent, Delete, Write, Fault, Undisturbed
  <2> QED BY <2>1, <2>2, RunRests
<1>2. CASE Configure BY <1>2, RunRests DEF Configure, registry
<1>3. CASE UNCHANGED vars BY <1>3, RunRests DEF vars
<1> QED
  BY <1>1, <1>2, <1>3, NewDayKeeps, RefreshKeeps, DecideKeeps, TableKeeps, StampKeeps,
     TrainFullKeeps, TrainIncrementalKeeps, TrainRaisesKeeps, SaveKeeps, PredictKeeps DEF Next

\* The registry of events has each event as many times as the accepted requests leave it:
\* no write of a session is lost, whatever sessions overlap and whatever fails in the daily
\* run; for any sessions, events and parameters.
THEOREM RegistryIsKept == ASSUME Parameters PROVE Spec => []RegistryKept
<1>1. RegistryInv /\ [Next]_vars => RegistryInv' BY RegistrySteps DEF Parameters
<1>2. RegistryInv => RegistryKept BY DEF RegistryInv
<1> QED BY <1>1, <1>2, RegistryStarts, PTL DEF Spec

\* The daily run, as long as no upload of it fails: in every reachable state the stored
\* files are those of one sound bundle, but for the moments between two uploads, what the
\* run holds is sound, and so is the bundle that a warm start grows.
THEOREM CrowdInvariance ==
  ASSUME Parameters, "upload" \notin Faults PROVE Spec => []CrowdInv
<1>1. Init => CrowdInv BY CrowdStarts
<1>2. CrowdInv /\ [Next]_vars => CrowdInv' BY CrowdSteps
<1> QED BY <1>1, <1>2, PTL DEF Spec

\* What is left of BundleSound under the faults that are allowed.
Harmless ==
  /\ ForecastSurvives
  /\ "refresh" \notin Faults => OneMeaning
  /\ Faults \cap {"during", "unreadable"} = {} => EventDaysUnlearned

\* The daily run, as long as no upload of it fails: a training that fails does not take
\* the forecast away; unless a refresh of the weather fails, all the trees of a model agree
\* on what rain is; unless the registry changes while a run reads it or cannot be read, the
\* model of a run that ended well has no day of an event; for any registry and parameters.
THEOREM BundlesSound ==
  ASSUME Parameters, "upload" \notin Faults PROVE Spec => []Harmless
<1>1. CrowdInv => Harmless
  <2> SUFFICES ASSUME CrowdInv PROVE Harmless OBVIOUS
  <2>1. ForecastSurvives BY DEF CrowdInv, Ends, ForecastSurvives
  <2>2. "refresh" \notin Faults => OneMeaning
    <3> SUFFICES ASSUME Dry, store.model # None PROVE Cardinality(store.model.rain) = 1
      BY DEF Dry, OneMeaning
    <3>1. PICK r \in BOOLEAN : store.model.rain = {r} BY DEF CrowdInv, Saved
    <3> QED BY <3>1, FS_Singleton
  <2>3. Undisturbed => EventDaysUnlearned BY DEF CrowdInv, Ends, EventDaysUnlearned
  <2> QED BY <2>1, <2>2, <2>3 DEF Harmless, Undisturbed
<1> QED BY <1>1, CrowdInvariance, PTL

\* The daily run without faults: everything that the run of the model checks.
THEOREM AllSound == ASSUME Parameters, Faults = {} PROVE Spec => []BundleSound
<1>1. Harmless /\ RegistryKept => BundleSound BY DEF Harmless, BundleSound
<1>2. Spec => []Harmless BY BundlesSound
<1>3. Spec => []RegistryKept BY RegistryIsKept
<1> QED BY <1>1, <1>2, <1>3, PTL

-----------------------------------------------------------------------------
(* The resources of an organization.                                       *)
CONSTANTS Sessions, Users, Admin, Resources, Kind, OwnLimit, OrgLimit, MaxChanges,
          NoLimit, Nobody
VARIABLES status, level, limit, asked, row, grants, request, past
Access == INSTANCE OrganizationAccess

-----------------------------------------------------------------------------
(* The inductive invariant.                                                *)

Grants == Users \X Access!Permissions \X Resources
Creation == [op : {"create"}, pc : {"whole", "insert", "give", "select", "share", "commit"},
             u : Users, r : Resources, left : SUBSET Grants]
Application == [op : {"apply"}, pc :
  {"revoke", "give", "commit"}, u : Users, level : Access!Levels,
                gone : SUBSET Grants, new : SUBSET Grants]
Deletion == [op : {"delete"}, r : Resources]

Types ==
  /\ status \in [Users -> {"absent", "active", "deleted"}]
  /\ level \in [Users -> Access!Levels]
  /\ asked \subseteq Resources
  /\ row \in [Resources -> Users \cup {Nobody}]
  /\ grants \subseteq Grants
  /\ request \in [Sessions -> {Access!Idle} \cup Creation \cup Application \cup Deletion]
  /\ past \in [mixed : BOOLEAN, crowded :
       BOOLEAN, failed : BOOLEAN, changes : 0 .. MaxChanges]

Held(set, u, r) == {p \in Access!Permissions : <<u, p, r>> \in set}

\* Nobody who is absent and nothing that was never asked for is mentioned; the
\* administrator alone owns what is neither a dashboard nor an alarm.
Mentioned ==
  /\ status[Admin] = "active"
  /\ \A u \in Users : level[u] # "none" => u \in Access!Members
  /\ \A r \in Resources : Access!Exists(r) =>
       /\ r \in asked /\ row[r] \in Access!Members
       /\ Kind[r] \in {"dashboard", "alarm"} \/ row[r] = Admin
  /\ \A u \in Users, r \in Resources : Held(grants, u, r) # {} =>
       u \in Access!Members /\ r \in asked

\* A creation that has not inserted its row.
Unborn(q) == q.pc \in {"whole", "commit", "insert"}

CreationSound(s) ==
  LET q == request[s] IN
  q.op = "create" =>
    /\ q.u \in Access!Members /\ q.r \in asked
    /\ Kind[q.r] \in {"dashboard", "alarm"} \/ q.u = Admin
    /\ \A u \in Users, r \in Resources : Held(q.left, u, r) # {} =>
         u \in Access!Members /\ r = q.r
    /\ row[q.r] = Nobody \/ (row[q.r] = q.u /\ ~Unborn(q))
LevelSound(s) ==
  LET q == request[s] IN
  q.op = "apply" =>
    /\ q.u \in Access!Members \ {Admin}
    /\ \A u \in Users, r \in Resources :
         /\ Held(q.gone, u, r) # {} => u = q.u
         /\ Held(q.new, u, r) # {} => u = q.u /\ r \in asked

\* Identifiers are not reused: two requests do not create one resource.
CreatedOnce ==
  \A s, t \in Sessions :
    request[s].op = "create" /\ request[t].op = "create" /\ request[s].r = request[t].r =>
      s = t
Sound ==
  /\ Types /\ Mentioned /\ CreatedOnce
  /\ \A s \in Sessions : CreationSound(s) /\ LevelSound(s)

Calm == ~past.mixed /\ ~past.failed

\* Levels are not set while something is created, nor twice at once for a user.
Apart ==
  \A s, t \in Sessions : request[s].op = "apply" =>
    /\ request[t].op # "create"
    /\ request[t].op = "apply" /\ request[t].u = request[s].u => s = t

InDeletion(r) == \E s \in Sessions : request[s].op = "delete" /\ request[s].r = r
InCreation(r) == \E s \in Sessions : request[s].op = "create" /\ request[s].r = r
Steady(r) == Access!Exists(r) /\ ~InDeletion(r)

ByLevel(u, r) == IF Kind[r] = "group" THEN {} ELSE Access!PermissionsFor(level[u])
DueGrants(u, r) == IF u \in {Admin, row[r]} THEN Access!Permissions ELSE ByLevel(u, r)

\* What is neither being created nor deleted has the grants that are due.
LevelsHeld ==
  \A u \in Access!Active, r \in Resources : Steady(r) /\ ~InCreation(r) =>
    Held(grants, u, r) = DueGrants(u, r)

\* A creation has given what its steps say.
Half(q, u) ==
  LET mine == u \in {Admin, q.u} IN
  /\ Unborn(q) => Held(grants, u, q.r) = {}
  /\ q.pc = "commit" /\ ~mine => Held(q.left, u, q.r) = ByLevel(u, q.r)
  /\ Steady(q.r) =>
       /\ q.pc = "give" => Held(grants, u, q.r) = {}
       /\ q.pc = "select" => Held(grants, u, q.r) = IF mine THEN Access!Permissions ELSE {}
       /\ q.pc = "share" /\ mine => Held(grants, u, q.r) = Access!Permissions
       /\ q.pc = "share" /\ ~mine =>
            Held(grants, u, q.r) \cup Held(q.left, u, q.r) = ByLevel(u, q.r)
CreationHalf(s) == request[s].op = "create" => \A u \in Access!Active : Half(request[s], u)

\* What a level takes and gives is over what is shared with its user.
Reread(q, r) ==
  LET shared == r \in Access!SharedResources(q.u) IN
  /\ q.pc \in {"give", "commit"} =>
       Held(q.gone, q.u, r) = IF shared THEN Held(grants, q.u, r) ELSE {}
  /\ q.pc = "commit" =>
       Held(q.new, q.u, r) = IF shared THEN Access!PermissionsFor(q.level) ELSE {}
LevelHalf(s) ==
  request[s].op = "apply" /\ request[s].u \in Access!Active =>
    \A r \in Resources : Steady(r) => Reread(request[s], r)

Consistent == Apart /\ LevelsHeld /\ \A s \in Sessions : CreationHalf(s) /\ LevelHalf(s)

IInv == Sound /\ (Calm => Consistent)

\* Until two checks overlap there is one creation, and what it will add fits.
Capped(s) ==
  LET q == request[s] IN
  \A u \in Access!Limited :
    q.op = "create" /\ Unborn(q) /\ Kind[q.r] = "dashboard" /\ q.u = u =>
      Access!Count({u}) < limit[u]
Caps ==
  /\ limit \in [Users -> Nat \cup {NoLimit}]
  /\ \A u \in Users : status[u] = "absent" => limit[u] = NoLimit
  /\ ~past.crowded =>
       /\ \A s, t \in Sessions : request[s].op = "create" /\ request[t].op = "create" => s = t
       /\ \A u \in Access!Limited : Access!Count({u}) <= limit[u]
       /\ \A s \in Sessions : Capped(s)

-----------------------------------------------------------------------------
(* Grants.                                                                 *)

LEMMA HeldUnion ==
  ASSUME NEW a, NEW b, NEW u, NEW r
  PROVE  Held(a \cup b, u, r) = Held(a, u, r) \cup Held(b, u, r)
BY DEF Held

LEMMA HeldMinus ==
  ASSUME NEW a, NEW b, NEW u, NEW r
  PROVE  Held(a \ b, u, r) = Held(a, u, r) \ Held(b, u, r)
BY DEF Held

LEMMA HeldProduct ==
  ASSUME NEW owners, NEW given \in SUBSET Access!Permissions, NEW over, NEW u, NEW r
  PROVE  Held(owners \X given \X over, u, r) = IF u \in owners /\ r \in over THEN given ELSE {}
BY DEF Held

LEMMA HeldShared ==
  ASSUME NEW set, NEW v, NEW over, NEW u, NEW r
  PROVE  Held(set \cap ({v} \X Access!Permissions \X over), u, r) =
           IF u = v /\ r \in over THEN Held(set, u, r) ELSE {}
BY DEF Held

LEMMA HeldNone == ASSUME NEW u, NEW r PROVE Held({}, u, r) = {}
BY DEF Held

LEMMA HeldPermissions ==
  ASSUME NEW set, NEW u, NEW r
  PROVE  Held(set, u, r) \subseteq Access!Permissions
BY DEF Held

\* Of one member, and of all the others.
LEMMA HeldOf ==
  ASSUME NEW set \in SUBSET Grants, NEW m, NEW u \in Users, NEW r \in Resources
  PROVE  /\ Held({g \in set : g[1] = m}, u, r) = IF u = m THEN Held(set, u, r) ELSE {}
         /\ Held({g \in set : g[1] # m}, u, r) = IF u = m THEN {} ELSE Held(set, u, r)
BY DEF Held, Grants

LEMMA LevelPermissions ==
  ASSUME NEW lvl \in Access!Levels
  PROVE  Access!PermissionsFor(lvl) \subseteq Access!Permissions /\ (lvl = "none" =>
         Access!PermissionsFor(lvl) = {})
BY DEF Access!PermissionsFor, Access!Permissions, Access!Levels

\* What a new resource shares: with the members other than its owner.
LEMMA HeldSharing ==
  ASSUME level \in [Users -> Access!Levels], NEW r0 \in Resources, NEW owner \in Users,
         NEW u \in Users, NEW r \in Resources
  PROVE  /\ Access!Sharing(r0, owner) \in SUBSET Grants
         /\ Held(Access!Sharing(r0, owner), u, r) =
              IF r = r0 /\ u \in Access!Members \ {owner} THEN ByLevel(u, r) ELSE {}
<1>1. \A m \in Users : Access!PermissionsFor(level[m]) \subseteq Access!Permissions
  BY LevelPermissions
<1>2. Access!Members \subseteq Users BY DEF Access!Members
<1>3. CASE Kind[r0] = "group" BY <1>3, HeldNone DEF Access!Sharing, ByLevel
<1>4. CASE Kind[r0] # "group"
  <2> DEFINE Part(m) == {m} \X Access!PermissionsFor(level[m]) \X {r0}
             parts == {Part(m) : m \in Access!Members \ {owner}}
  <2>1. Access!Sharing(r0, owner) = UNION parts BY <1>4 DEF Access!Sharing
  <2>2. \A m \in Access!Members \ {owner} : Part(m) \in SUBSET Grants BY <1>1, <1>2 DEF Grants
  <2>3. \A p : <<u, p, r>> \in UNION parts <=>
                 u \in Access!Members \ {owner} /\ p \in Access!PermissionsFor(level[u]) /\ r = r0
    OBVIOUS
  <2>4. UNION parts \in SUBSET Grants
    <3> HIDE DEF Part
    <3> QED BY <2>2
  <2> HIDE DEF parts
  <2> QED BY <1>1, <1>4, <2>1, <2>3, <2>4 DEF Held, ByLevel
<1> QED BY <1>3, <1>4

-----------------------------------------------------------------------------
(* What a step of one session leaves of the others.                        *)

LEMMA Ops ==
  ASSUME Types, NEW s \in Sessions
  PROVE  /\ request[s].op = "create" => request[s] \in Creation
         /\ request[s].op = "apply" => request[s] \in Application
         /\ request[s].op = "delete" => request[s] \in Deletion
         /\ request[s] = Access!Idle => request[s].op = "none"
         /\ request[s].op \in {"none", "create", "apply", "delete"}
         /\ request[s].op = "none" => request[s] = Access!Idle
BY DEF Types, Creation, Application, Deletion, Access!Idle

LEMMA OneSession ==
  ASSUME Types, NEW s \in Sessions,
         NEW q \in {Access!Idle} \cup Creation \cup Application \cup Deletion,
         request' = [request EXCEPT ![s] = q]
  PROVE  /\ request' \in [Sessions -> {Access!Idle} \cup Creation \cup Application \cup Deletion]
         /\ request'[s] = q
         /\ \A t \in Sessions : t # s => request'[t] = request[t]
BY DEF Types

\* The other requests are still sound if members stay members and no row gets
\* another owner.
LEMMA SoundKept ==
  ASSUME Sound, Types', Mentioned', NEW s \in Sessions,
         \A t \in Sessions : t # s => request'[t] = request[t],
         Access!Members \subseteq Access!Members', asked \subseteq asked',
         \A t \in Sessions : t # s /\ request[t].op = "create" =>
           row'[request[t].r] \in {row[request[t].r], Nobody},
         CreationSound(s)', LevelSound(s)',
         request'[s].op = "create" =>
           \A t \in Sessions : t # s /\ request[t].op = "create" =>
             request[t].r # request'[s].r
  PROVE  Sound'
<1>1. CreatedOnce' BY DEF Sound, CreatedOnce
<1>2. ASSUME NEW t \in Sessions, t # s PROVE CreationSound(t)' /\ LevelSound(t)'
  <2>1. request'[t] = request[t] BY <1>2
  <2>2. CreationSound(t) /\ LevelSound(t) BY DEF Sound
  <2>3. CreationSound(t)' BY <1>2, <2>1, <2>2 DEF CreationSound
  <2>4. LevelSound(t)' BY <2>1, <2>2 DEF LevelSound
  <2> QED BY <2>3, <2>4
<1> QED BY <1>1, <1>2 DEF Sound

\* A creation stays half done as it was if the grants over what it creates, and
\* the levels, do; what is deleted meanwhile loses them.
LEMMA HalfKept ==
  ASSUME NEW t \in Sessions, request'[t] = request[t], CreationHalf(t),
         Access!Active' \subseteq Access!Active,
         request[t].op = "create" =>
           /\ Steady(request[t].r)' => Steady(request[t].r)
           /\ \A u \in Access!Active' :
                /\ level'[u] = level[u]
                /\ \/ Held(grants', u, request[t].r) = Held(grants, u, request[t].r)
                   \/ ~Steady(request[t].r)' /\ Held(grants', u, request[t].r) = {}
  PROVE  CreationHalf(t)'
<1> SUFFICES ASSUME request[t].op = "create", NEW u \in Access!Active'
             PROVE  Half(request[t], u)'
  BY DEF CreationHalf
<1> DEFINE r == request[t].r
<1>1. Half(request[t], u) BY DEF CreationHalf
<1>2. level'[u] = level[u] OBVIOUS
<1>3. ByLevel(u, r)' = ByLevel(u, r) BY <1>2 DEF ByLevel
<1>4. CASE Held(grants', u, r) = Held(grants, u, r)
  BY <1>1, <1>3, <1>4 DEF Half, Unborn
<1>5. CASE ~Steady(r)' /\ Held(grants', u, r) = {}
  BY <1>1, <1>3, <1>5 DEF Half, Unborn
<1> QED BY <1>4, <1>5

LEMMA RereadKept ==
  ASSUME NEW t \in Sessions, request'[t] = request[t], LevelHalf(t),
         request[t].op = "apply" /\ request[t].u \in Access!Active' =>
           /\ request[t].u \in Access!Active
           /\ \A r \in Resources : Steady(r)' =>
                /\ Steady(r) /\ row'[r] = row[r]
                /\ Held(grants', request[t].u, r) = Held(grants, request[t].u, r)
  PROVE  LevelHalf(t)'
<1> SUFFICES ASSUME request[t].op = "apply", request[t].u \in Access!Active', NEW r \in Resources,
                    Steady(r)'
             PROVE  Reread(request[t], r)'
  BY DEF LevelHalf
<1>1. Reread(request[t], r) BY DEF LevelHalf
<1>2. r \in Access!SharedResources(request[t].u) <=> r \in Access!SharedResources(request[t].u)'
  BY DEF Access!SharedResources, Steady, Access!Exists
<1> QED BY <1>1, <1>2 DEF Reread

\* The steps that neither set a level nor add a user.
LEMMA ConsistentKept ==
  ASSUME Sound, Consistent, NEW s \in Sessions,
         \A t \in Sessions : t # s => request'[t] = request[t],
         Access!Active' \subseteq Access!Active,
         \A u \in Access!Active' : level'[u] = level[u],
         \* what is not created by the session
         \A r \in Resources : Steady(r)' /\ ~(request[s].op = "create" /\ request[s].r = r) =>
           /\ Steady(r) /\ row'[r] = row[r]
           /\ \A u \in Access!Active' : Held(grants', u, r) = Held(grants, u, r),
         \* what others create
         \A t \in Sessions : t # s /\ request[t].op = "create" =>
           \A u \in Access!Active' :
             \/ Held(grants', u, request[t].r) = Held(grants, u, request[t].r)
             \/ ~Steady(request[t].r)' /\ Held(grants', u, request[t].r) = {},
         \* what it creates
         request[s].op = "create" =>
           \/ request'[s].op = "create" /\ request'[s].r = request[s].r
           \/ /\ request'[s].op # "create"
              /\ \A r \in Resources : r = request[s].r /\ Steady(r)' =>
                   \A u \in Access!Active' : Held(grants', u, r) = DueGrants(u, r)',
         request'[s].op = "create" => \A t \in Sessions : t # s => request[t].op # "apply",
         request'[s].op = "apply" => \A t \in Sessions : t # s =>
           request[t].op # "create" /\ (request[t].op = "apply" =>
             request[t].u # request'[s].u),
         CreationHalf(s)', LevelHalf(s)'
  PROVE  Consistent'
<1>1. Apart' BY DEF Consistent, Apart
<1>2. ASSUME NEW u \in Access!Active', NEW r \in Resources, Steady(r)', ~InCreation(r)'
      PROVE  Held(grants', u, r) = DueGrants(u, r)'
  <2>1. CASE request[s].op = "create" /\ request[s].r = r
    BY <1>2, <2>1 DEF InCreation
  <2>2. CASE ~(request[s].op = "create" /\ request[s].r = r)
    <3>1. Steady(r) /\ row'[r] = row[r] /\ Held(grants', u, r) = Held(grants, u, r)
      BY <1>2, <2>2
    <3>2. ~InCreation(r) BY <1>2, <2>2 DEF InCreation
    <3>3. Held(grants, u, r) = DueGrants(u, r) BY <1>2, <3>1, <3>2 DEF Consistent, LevelsHeld
    <3>4. DueGrants(u, r)' = DueGrants(u, r) BY <1>2, <3>1 DEF DueGrants, ByLevel
    <3> QED BY <3>1, <3>3, <3>4
  <2> QED BY <2>1, <2>2
<1>3. LevelsHeld' BY <1>2 DEF LevelsHeld
<1>4. ASSUME NEW t \in Sessions, t # s PROVE CreationHalf(t)' /\ LevelHalf(t)'
  <2>1. request'[t] = request[t] /\ CreationHalf(t) /\ LevelHalf(t) BY <1>4 DEF Consistent
  <2>2. CreationHalf(t)'
    <3>1. request[t].op = "create" => request[t].r \in Resources
      BY Ops DEF Sound, Creation
    <3>2. request[t].op = "create" /\ request[s].op = "create" => request[t].r # request[s].r
      BY <1>4 DEF Sound, CreatedOnce
    <3> QED BY <1>4, <2>1, <3>1, <3>2, HalfKept
  <2>3. LevelHalf(t)'
    <3> SUFFICES ASSUME request[t].op = "apply", request[t].u \in Access!Active',
                        NEW r \in Resources, Steady(r)'
                 PROVE  /\ Steady(r) /\ row'[r] = row[r]
                        /\ Held(grants', request[t].u, r) = Held(grants, request[t].u, r)
      BY <2>1, RereadKept
    <3>1. request[s].op # "create" BY DEF Consistent, Apart
    <3> QED BY <3>1
  <2> QED BY <2>2, <2>3
<1> QED BY <1>1, <1>3, <1>4 DEF Consistent

LEMMA DeletionSame ==
  ASSUME NEW s \in Sessions, \A t \in Sessions : t # s => request'[t] = request[t],
         request[s].op # "delete", request'[s].op # "delete", NEW r
  PROVE  InDeletion(r)' <=> InDeletion(r)
BY DEF InDeletion

\* The steps that read, and write only what the session knows.
LEMMA QuietKept ==
  ASSUME IInv, Types', NEW s \in Sessions,
         \A t \in Sessions : t # s => request'[t] = request[t],
         UNCHANGED <<status, level, row, grants>>, asked \subseteq asked',
         request[s].op # "delete", request'[s].op # "delete",
         CreationSound(s)', LevelSound(s)',
         request'[s].op = "create" =>
           \A t \in Sessions : t # s /\ request[t].op = "create" =>
             request[t].r # request'[s].r,
         Calm' =>
           /\ Calm
           /\ request[s].op = "create" =>
                \/ request'[s].op = "create" /\ request'[s].r = request[s].r
                \/ /\ request'[s].op # "create"
                   /\ \A r \in Resources : r = request[s].r /\ Steady(r) =>
                        \A u \in Access!Active : Held(grants, u, r) = DueGrants(u, r)
           /\ request'[s].op = "create" => \A t \in Sessions : t # s =>
                request[t].op # "apply"
           /\ request'[s].op = "apply" => \A t \in Sessions : t # s =>
                request[t].op # "create" /\ (request[t].op = "apply" =>
                  request[t].u # request'[s].u)
           /\ CreationHalf(s)' /\ LevelHalf(s)'
  PROVE  IInv'
<1>1. Sound /\ (Calm => Consistent) BY DEF IInv
<1>2. Access!Members' = Access!Members /\ Access!Active' = Access!Active
  BY DEF Access!Members, Access!Active
<1>3. Mentioned' BY <1>1, <1>2 DEF Sound, Mentioned, Access!Exists
<1>4. Sound' BY <1>1, <1>2, <1>3, SoundKept
<1>5. ASSUME Calm' PROVE Consistent'
  <2>1. \A r \in Resources : Steady(r)' <=> Steady(r)
    BY DeletionSame DEF Steady, Access!Exists
  <2>2. \A u \in Access!Active, r \in Resources : DueGrants(u, r)' = DueGrants(u, r)
    BY DEF DueGrants, ByLevel
  <2>3. request[s].op = "create" => request[s].r \in Resources
    BY <1>1, Ops DEF Sound, Creation
  <2>4. Consistent BY <1>1, <1>5
  <2>5. \A u \in Access!Active' : level'[u] = level[u] OBVIOUS
  <2>6. \A r \in Resources : row'[r] = row[r] /\ \A u \in Access!Active' :
          Held(grants', u, r) = Held(grants, u, r)
    OBVIOUS
  <2>7. request[s].op = "create" =>
          \/ request'[s].op = "create" /\ request'[s].r = request[s].r
          \/ /\ request'[s].op # "create"
             /\ \A r \in Resources : r = request[s].r /\ Steady(r)' =>
                  \A u \in Access!Active' : Held(grants', u, r) = DueGrants(u, r)'
    BY <1>2, <1>5, <2>1, <2>2
  <2>8. \A t \in Sessions : \A u \in Access!Active' :
          Held(grants', u, request[t].r) = Held(grants, u, request[t].r)
    OBVIOUS
  <2> QED BY <1>1, <1>2, <1>5, <2>1, <2>4, <2>5, <2>6, <2>7, <2>8, ConsistentKept
<1> QED BY <1>4, <1>5 DEF IInv

\* The types of the steps that leave the tables alone.
LEMMA QuietTypes ==
  ASSUME Types, UNCHANGED <<status, level, row, grants>>,
         asked' \subseteq Resources,
         request' \in [Sessions -> {Access!Idle} \cup Creation \cup Application \cup Deletion],
         past' \in [mixed : BOOLEAN, crowded :
           BOOLEAN, failed : BOOLEAN, changes : 0 .. MaxChanges]
  PROVE  Types'
BY DEF Types

LEMMA CheckCreateKeeps ==
  ASSUME IInv, NEW s \in Sessions, NEW u \in Users, NEW r \in Resources,
         NEW whole \in BOOLEAN,
         Access!CheckCreate(s, u, r, whole)
  PROVE  IInv'
<1> DEFINE q == [op |-> "create", pc |-> IF whole THEN "whole" ELSE "insert", u |-> u, r |-> r,
                 left |-> {}]
<1>1. /\ request[s] = Access!Idle /\ u \in Access!Active /\ Access!MayUpdate(u, Kind[r])
      /\ r \notin asked
      /\ asked' = asked \cup {r} /\ request' = [request EXCEPT ![s] = q]
      /\ UNCHANGED <<status, level, row, grants>>
  BY DEF Access!CheckCreate
<1>2. Sound /\ Types /\ Mentioned BY DEF IInv, Sound
<1>3. /\ q \in Creation /\ q.op = "create" /\ q.u = u /\ q.r = r /\ q.left = {}
      /\ q.pc \in {"whole", "insert"}
  BY DEF Creation
<1> HIDE DEF q
<1>4. /\ request' \in [Sessions -> {Access!Idle} \cup Creation \cup Application \cup Deletion]
      /\ request'[s] = q /\ \A t \in Sessions : t # s => request'[t] = request[t]
  BY <1>1, <1>2, <1>3, OneSession
<1>5. /\ past' \in [mixed : BOOLEAN, crowded :
        BOOLEAN, failed : BOOLEAN, changes : 0 .. MaxChanges]
      /\ Calm' => Calm /\ Access!Doing("apply") = {}
  BY <1>2 DEF Access!CheckCreate, Types, Calm
<1>6. Types' BY <1>1, <1>2, <1>4, <1>5, QuietTypes DEF Types
<1>7. request[s].op = "none" BY <1>1, <1>2, Ops
<1>8. CreationSound(s)'
  <2>1. u \in Access!Members' /\ r \in asked' BY <1>1 DEF Access!Active, Access!Members
  <2>2. Kind[r] \in {"dashboard", "alarm"} \/ u = Admin BY <1>1 DEF Access!MayUpdate
  <2>3. row'[r] = Nobody BY <1>1, <1>2 DEF Mentioned, Access!Exists
  <2> QED BY <1>3, <1>4, <2>1, <2>2, <2>3, HeldNone DEF CreationSound
<1>9. LevelSound(s)' BY <1>3, <1>4 DEF LevelSound
<1>10. \A t \in Sessions : t # s /\ request[t].op = "create" => request[t].r # request'[s].r
  BY <1>1, <1>2, <1>3, <1>4 DEF Sound, CreationSound
<1>11. CreationHalf(s)'
  <2>1. \A v \in Users : Held(grants', v, r) = {} BY <1>1, <1>2 DEF Mentioned
  <2>2. Access!Active' \subseteq Users BY DEF Access!Active
  <2> QED BY <1>3, <1>4, <2>1, <2>2 DEF CreationHalf, Half, Unborn
<1>12. LevelHalf(s)' BY <1>3, <1>4 DEF LevelHalf
<1>13. Calm' => \A t \in Sessions : request[t].op # "apply" BY <1>5 DEF Access!Doing
<1> QED
  BY <1>1, <1>3, <1>4, <1>5, <1>6, <1>7, <1>8, <1>9, <1>10, <1>11, <1>12, <1>13, QuietKept

LEMMA SelectMembersKeeps ==
  ASSUME IInv, NEW s \in Sessions, Access!SelectMembers(s) \/ Access!SelectWhole(s)
  PROVE  IInv'
<1> DEFINE q == request[s]
           left == Access!Sharing(q.r, q.u)
           next == IF q.pc = "whole" THEN "commit" ELSE "share"
           n == [q EXCEPT !.pc = next, !.left = left]
<1>1. /\ q.op = "create" /\ q.pc \in {"whole", "select"}
      /\ UNCHANGED <<status, level, asked, row, grants, past>>
  BY DEF Access!SelectMembers, Access!SelectWhole
<1>2. Sound /\ Types /\ Mentioned /\ CreationSound(s) BY DEF IInv, Sound
<1>3. q \in Creation BY <1>1, <1>2, Ops
<1>4. /\ left \in SUBSET Grants
      /\ \A u \in Users, r \in Resources : Held(left, u, r) =
           IF r = q.r /\ u \in Access!Members \ {q.u} THEN ByLevel(u, r) ELSE {}
  BY <1>2, <1>3, HeldSharing DEF Types, Creation
<1> HIDE DEF left
<1>5. /\ n \in Creation /\ n.op = "create" /\ n.u = q.u /\ n.r = q.r /\ n.left = left
      /\ n.pc = next
  BY <1>3, <1>4 DEF Creation
<1>6. request' = [request EXCEPT ![s] = n]
  BY <1>1, <1>2 DEF Access!SelectMembers, Access!SelectWhole, left, Types
<1> HIDE DEF n
<1>7. /\ request' \in [Sessions -> {Access!Idle} \cup Creation \cup Application \cup Deletion]
      /\ request'[s] = n /\ \A t \in Sessions : t # s => request'[t] = request[t]
  BY <1>2, <1>5, <1>6, OneSession
<1>8. Types' BY <1>1, <1>2, <1>7, QuietTypes DEF Types
<1>9. CreationSound(s)'
  <2>1. Access!Members' = Access!Members BY <1>1 DEF Access!Members
  <2>2. Unborn(q) <=> Unborn(n) BY <1>1, <1>5 DEF Unborn
  <2>3. \A u \in Users, r \in Resources : Held(n.left, u, r) # {} =>
          u \in Access!Members /\ r = n.r
    BY <1>4, <1>5
  <2> QED BY <1>1, <1>2, <1>5, <1>7, <2>1, <2>2, <2>3 DEF CreationSound
<1>10. LevelSound(s)' BY <1>5, <1>7 DEF LevelSound
<1>11. \A t \in Sessions : t # s /\ request[t].op = "create" => request[t].r # request'[s].r
  BY <1>1, <1>2, <1>5, <1>7 DEF Sound, CreatedOnce
<1>12. ASSUME Calm'
       PROVE  /\ Calm /\ CreationHalf(s)' /\ LevelHalf(s)'
              /\ \A t \in Sessions : t # s => request[t].op # "apply"
  <2>1. Calm /\ Consistent BY <1>1, <1>12 DEF IInv, Calm
  <2>2. CreationHalf(s)'
    <3> SUFFICES ASSUME NEW u \in Access!Active' PROVE Half(request[s], u)'
      BY DEF CreationHalf
    <3>1. u \in Access!Active /\ u \in Users /\ u \in Access!Members
      BY <1>1 DEF Access!Active, Access!Members
    <3>2. Half(q, u) BY <1>1, <2>1, <3>1 DEF Consistent, CreationHalf
    <3>3. PICK r \in Resources : r = q.r BY <1>3 DEF Creation
    <3>4. Held(left, u, r) = IF u = q.u THEN {} ELSE ByLevel(u, r)
      BY <1>3, <1>4, <3>1, <3>3 DEF Creation
    <3>5. Steady(r)' => Steady(r)
      BY <1>1, <1>5, <1>7, DeletionSame DEF Steady, Access!Exists
    <3>6. ByLevel(u, r)' = ByLevel(u, r) BY <1>1 DEF ByLevel
    <3>7. request'[s].r = r /\ request'[s].u = q.u /\ request'[s].left = left
          /\ request'[s].pc = next
      BY <1>5, <1>7, <3>3
    <3>8. \A v, x : Held(grants', v, x) = Held(grants, v, x) BY <1>1
    <3> QED BY <1>1, <3>2, <3>3, <3>4, <3>5, <3>6, <3>7, <3>8 DEF Half, Unborn
  <2>3. LevelHalf(s)' BY <1>5, <1>7 DEF LevelHalf
  <2> QED BY <1>1, <2>1, <2>2, <2>3 DEF Consistent, Apart
<1> QED
  BY <1>1, <1>5, <1>7, <1>8, <1>9, <1>10, <1>11, <1>12, QuietKept

\* A session that ends its request.
LEMMA Ended ==
  ASSUME Types, NEW s \in Sessions, request' = [request EXCEPT ![s] = Access!Idle]
  PROVE  /\ request' \in [Sessions -> {Access!Idle} \cup Creation \cup Application \cup Deletion]
         /\ request'[s].op = "none" /\ \A t \in Sessions : t # s => request'[t] = request[t]
         /\ CreationSound(s)' /\ LevelSound(s)' /\ CreationHalf(s)' /\ LevelHalf(s)'
<1>1. /\ request' \in [Sessions -> {Access!Idle} \cup Creation \cup Application \cup Deletion]
      /\ request'[s] = Access!Idle /\ \A t \in Sessions : t # s => request'[t] = request[t]
  BY OneSession
<1>2. request'[s].op = "none" BY <1>1 DEF Access!Idle
<1> QED BY <1>1, <1>2 DEF CreationSound, LevelSound, CreationHalf, LevelHalf

LEMMA EndCreateKeeps ==
  ASSUME IInv, NEW s \in Sessions, Access!EndCreate(s)
  PROVE  IInv'
<1> DEFINE q == request[s]
<1>1. /\ q.op = "create" /\ q.pc = "share" /\ q.left = {}
      /\ request' = [request EXCEPT ![s] = Access!Idle]
      /\ UNCHANGED <<status, level, asked, row, grants, past>>
  BY DEF Access!EndCreate
<1>2. Sound /\ Types /\ CreationSound(s) BY DEF IInv, Sound
<1>3. Types' BY <1>1, <1>2, Ended, QuietTypes DEF Types
<1>4. ASSUME Calm'
      PROVE  Calm /\ \A r \in Resources : r = q.r /\ Steady(r) =>
                       \A u \in Access!Active : Held(grants, u, r) = DueGrants(u, r)
  <2>1. Calm /\ CreationHalf(s) BY <1>1, <1>4 DEF IInv, Calm, Consistent
  <2> SUFFICES ASSUME NEW r \in Resources, r = q.r, Steady(r), NEW u \in Access!Active
               PROVE  Held(grants, u, r) = DueGrants(u, r)
    BY <2>1
  <2>2. row[r] = q.u BY <1>1, <1>2 DEF Steady, Access!Exists, CreationSound
  <2>3. Half(q, u) BY <1>1, <2>1 DEF CreationHalf
  <2>4. Held(q.left, u, r) = {} BY <1>1, HeldNone
  <2> QED BY <1>1, <2>2, <2>3, <2>4 DEF Half, DueGrants
<1> QED BY <1>1, <1>2, <1>3, <1>4, Ended, QuietKept

LEMMA FailLevelKeeps ==
  ASSUME IInv, NEW s \in Sessions, Access!FailLevel(s)
  PROVE  IInv'
<1>1. /\ request[s].op = "apply" /\ request' = [request EXCEPT ![s] = Access!Idle]
      /\ UNCHANGED <<status, level, asked, row, grants, past>>
  BY DEF Access!FailLevel
<1>2. Types BY DEF IInv, Sound
<1>3. Types' BY <1>1, <1>2, Ended, QuietTypes DEF Types
<1> QED BY <1>1, <1>2, <1>3, Ended, QuietKept DEF Calm

\* The beginning of a level.
LEMMA LevelBegins ==
  ASSUME Access!AccessAssumption, IInv, NEW s \in Sessions, NEW u \in Users,
         NEW lvl \in Access!Levels,
         request[s] = Access!Idle, past.changes < MaxChanges,
         request' = [request EXCEPT ![s] = Access!Applying(u, lvl)], past' = Access!Overlaps(u)
  PROVE  /\ request' \in [Sessions -> {Access!Idle} \cup Creation \cup Application \cup Deletion]
         /\ request'[s] = Access!Applying(u, lvl) /\ request'[s].op = "apply" /\ request'[s].u = u
         /\ \A t \in Sessions : t # s => request'[t] = request[t]
         /\ past' \in [mixed : BOOLEAN, crowded : BOOLEAN, failed : BOOLEAN,
                       changes : 0 .. MaxChanges]
         /\ u \in Access!Members' \ {Admin} => LevelSound(s)'
         /\ CreationSound(s)' /\ CreationHalf(s)' /\ LevelHalf(s)'
         /\ Calm' => /\ Calm
                     /\ \A t \in Sessions :
                          request[t].op # "create" /\ (request[t].op = "apply" =>
                            request[t].u # u)
<1> DEFINE q == Access!Applying(u, lvl)
<1>1. Types BY DEF IInv, Sound
<1>2. /\ q \in Application /\ q.op = "apply" /\ q.u = u /\ q.gone = {} /\ q.new = {}
      /\ q.pc = "revoke"
  BY DEF Access!Applying, Application
<1> HIDE DEF q
<1>3. /\ request' \in [Sessions -> {Access!Idle} \cup Creation \cup Application \cup Deletion]
      /\ request'[s] = q /\ \A t \in Sessions : t # s => request'[t] = request[t]
  <2>1. request' = [request EXCEPT ![s] = q] BY DEF q
  <2> QED BY <1>1, <1>2, <2>1, OneSession
<1>4. /\ past' \in [mixed : BOOLEAN, crowded : BOOLEAN, failed : BOOLEAN,
                    changes : 0 .. MaxChanges]
      /\ Calm' => /\ Calm /\ Access!Doing("create") = {}
                  /\ ~\E t \in Access!Doing("apply") : request[t].u = u
  <2> DEFINE more == past.changes + 1
             mixed == past.mixed \/ Access!Doing("create") # {}
                 \/ \E t \in Access!Doing("apply") : request[t].u = u
  <2>1. past' = [past EXCEPT !.changes = more, !.mixed = mixed] BY DEF Access!Overlaps
  <2>2. more \in 0 .. MaxChanges /\ mixed \in BOOLEAN
    BY <1>1 DEF Access!AccessAssumption, Types
  <2>3. ~mixed => /\ ~past.mixed /\ Access!Doing("create") = {}
                  /\ ~\E t \in Access!Doing("apply") : request[t].u = u
    OBVIOUS
  <2> HIDE DEF more, mixed
  <2>4. /\ past' \in [mixed : BOOLEAN, crowded : BOOLEAN, failed : BOOLEAN,
                      changes : 0 .. MaxChanges]
        /\ past'.mixed = mixed /\ past'.failed = past.failed
    BY <1>1, <2>1, <2>2 DEF Types
  <2> QED BY <2>3, <2>4 DEF Calm
<1>5. u \in Access!Members' \ {Admin} => LevelSound(s)' BY <1>2, <1>3, HeldNone DEF LevelSound
<1>6. CreationSound(s)' /\ CreationHalf(s)' /\ LevelHalf(s)'
  BY <1>2, <1>3 DEF CreationSound, CreationHalf, LevelHalf, Reread
<1> QED BY <1>2, <1>3, <1>4, <1>5, <1>6 DEF Access!Doing, q

LEMMA SetAccessKeeps ==
  ASSUME Access!AccessAssumption, IInv, NEW s \in Sessions, NEW u \in Users,
         NEW lvl \in Access!Levels,
         Access!SetAccess(s, u, lvl)
  PROVE  IInv'
<1>1. /\ request[s] = Access!Idle /\ past.changes < MaxChanges /\ u \in Access!Members \ {Admin}
      /\ request' = [request EXCEPT ![s] = Access!Applying(u, lvl)] /\ past' = Access!Overlaps(u)
      /\ UNCHANGED <<status, level, asked, row, grants>>
  BY DEF Access!SetAccess
<1>2. Types BY DEF IInv, Sound
<1>3. request[s].op = "none" BY <1>1, <1>2, Ops
<1>4. u \in Access!Members' \ {Admin} BY <1>1 DEF Access!Members
<1>5. Types' BY <1>1, <1>2, LevelBegins, QuietTypes DEF Types
<1>6. /\ request'[s].op = "apply" /\ request'[s].u = u
      /\ \A t \in Sessions : t # s => request'[t] = request[t]
      /\ LevelSound(s)' /\ CreationSound(s)' /\ CreationHalf(s)' /\ LevelHalf(s)'
      /\ Calm' => /\ Calm
                  /\ \A t \in Sessions :
                       request[t].op # "create" /\ (request[t].op = "apply" =>
                         request[t].u # u)
  BY <1>1, <1>4, LevelBegins
<1> QED BY <1>1, <1>3, <1>5, <1>6, QuietKept

\* A level that has read what it takes, or what it gives.
LEMMA RereadsKeep ==
  ASSUME IInv, NEW s \in Sessions, Access!Revoke(s) \/ Access!GiveShared(s)
  PROVE  IInv'
<1> DEFINE q == request[s]
<1>1. /\ q.op = "apply" /\ UNCHANGED <<status, level, asked, row, grants, past>>
  BY DEF Access!Revoke, Access!GiveShared
<1>2. Sound /\ Types /\ Mentioned /\ LevelSound(s) BY DEF IInv, Sound
<1>3. q \in Application BY <1>1, <1>2, Ops
<1>4. PICK u \in Users, lvl \in Access!Levels : u = q.u /\ lvl = q.level
  BY <1>3 DEF Application
<1> DEFINE shared == Access!SharedResources(u)
           taken == grants \cap ({u} \X Access!Permissions \X shared)
           given == {u} \X Access!PermissionsFor(lvl) \X shared
<1>5. /\ taken \in SUBSET Grants /\ given \in SUBSET Grants
      /\ \A v, r : /\ Held(taken, v, r) = IF v = u /\ r \in shared THEN Held(grants, v, r) ELSE {}
                   /\ Held(given, v, r) = IF v = u /\ r \in shared
                        THEN Access!PermissionsFor(lvl) ELSE {}
  <2>1. Access!PermissionsFor(lvl) \in SUBSET Access!Permissions BY LevelPermissions
  <2>2. shared \subseteq Resources BY DEF Access!SharedResources
  <2> HIDE DEF shared
  <2>3. \A v, r : Held(taken, v, r) = IF v = u /\ r \in shared THEN Held(grants, v, r) ELSE {}
    BY HeldShared
  <2>4. \A v, r : Held(given, v, r) = IF v \in {u} /\ r \in shared
        THEN Access!PermissionsFor(lvl) ELSE {}
    BY <2>1 DEF Held
  <2> QED BY <1>2, <2>1, <2>2, <2>3, <2>4 DEF Types, Grants
<1>6. \A r : r \in shared => r \in asked BY <1>2 DEF Access!SharedResources, Mentioned
<1> DEFINE n == IF q.pc = "revoke" THEN [q EXCEPT !.pc = "give", !.gone = taken]
                ELSE [q EXCEPT !.pc = "commit", !.new = given]
<1>7. request' = [request EXCEPT ![s] = n]
  BY <1>2, <1>4 DEF Access!Revoke, Access!GiveShared, Types
<1>8. /\ q.pc \in {"revoke", "give"}
      /\ n \in Application /\ n.op = "apply" /\ n.u = u /\ n.level = lvl
      /\ n.pc = IF q.pc = "revoke" THEN "give" ELSE "commit"
      /\ n.gone = IF q.pc = "revoke" THEN taken ELSE q.gone
      /\ n.new = IF q.pc = "revoke" THEN q.new ELSE given
  <2>1. q.pc \in {"revoke", "give"} BY DEF Access!Revoke, Access!GiveShared
  <2> HIDE DEF taken, given
  <2> QED BY <1>3, <1>4, <1>5, <2>1 DEF Application
<1> HIDE DEF n, taken, given
<1>9. /\ request' \in [Sessions -> {Access!Idle} \cup Creation \cup Application \cup Deletion]
      /\ request'[s] = n /\ \A t \in Sessions : t # s => request'[t] = request[t]
  BY <1>2, <1>7, <1>8, OneSession
<1>10. Types' BY <1>1, <1>2, <1>9, QuietTypes DEF Types
<1>11. LevelSound(s)'
  <2>1. Access!Members' = Access!Members BY <1>1 DEF Access!Members
  <2>2. /\ u \in Access!Members \ {Admin}
        /\ \A v \in Users, r \in Resources :
             /\ Held(q.gone, v, r) # {} => v = u
             /\ Held(q.new, v, r) # {} => v = u /\ r \in asked
    BY <1>1, <1>2, <1>4 DEF LevelSound
  <2> HIDE DEF shared, q
  <2> QED BY <1>1, <1>5, <1>6, <1>8, <1>9, <2>1, <2>2 DEF LevelSound
<1>12. CreationSound(s)' /\ CreationHalf(s)' BY <1>8, <1>9 DEF CreationSound, CreationHalf
<1>13. ASSUME Calm'
       PROVE  /\ Calm /\ LevelHalf(s)'
              /\ \A t \in Sessions : t # s =>
                   request[t].op # "create" /\ (request[t].op = "apply" => request[t].u # u)
  <2>1. Calm /\ Consistent BY <1>1, <1>13 DEF IInv, Calm
  <2>2. LevelHalf(s)'
    <3> SUFFICES ASSUME u \in Access!Active', NEW r \in Resources, Steady(r)'
                 PROVE  Reread(request[s], r)'
      BY <1>8, <1>9 DEF LevelHalf
    <3>1. u \in Access!Active BY <1>1 DEF Access!Active
    <3>2. Steady(r)
      BY <1>1, <1>8, <1>9, DeletionSame DEF Steady, Access!Exists
    <3>3. Reread(q, r) BY <1>1, <1>4, <2>1, <3>1, <3>2 DEF Consistent, LevelHalf
    <3>4. Held(grants', u, r) = Held(grants, u, r) BY <1>1
    <3>5. /\ request'[s].u = u /\ request'[s].level = lvl /\ request'[s].pc = n.pc
          /\ request'[s].gone = n.gone /\ request'[s].new = n.new
      BY <1>8, <1>9
    <3>6. Held(q.gone, u, r) = (IF r \in shared THEN Held(grants, u, r) ELSE {}) \/ q.pc = "revoke"
      BY <1>4, <1>8, <3>3 DEF Reread
    <3>7. r \in Access!SharedResources(u)' <=> r \in shared
      BY <1>1 DEF Access!SharedResources, Access!Exists
    <3>8. /\ n.pc \in {"give", "commit"}
          /\ Held(n.gone, u, r) = IF r \in shared THEN Held(grants, u, r) ELSE {}
          /\ n.pc = "commit" => Held(n.new, u, r) = IF r \in shared
               THEN Access!PermissionsFor(lvl) ELSE {}
      BY <1>5, <1>8, <3>6
    <3>9. r \in Access!SharedResources(request[s].u)' <=> r \in shared
      BY <3>5, <3>7 DEF Access!SharedResources
    <3> HIDE DEF shared
    <3> QED BY <3>4, <3>5, <3>8, <3>9 DEF Reread
  <2> QED BY <1>1, <1>4, <2>1, <2>2 DEF Consistent, Apart
<1>14. request'[s].op = "apply" /\ request'[s].u = u BY <1>8, <1>9
<1> QED
  BY <1>1, <1>9, <1>10, <1>11, <1>12, <1>13, <1>14, QuietKept

\* The request of a session that is creating, with its user and resource.
LEMMA CreationOf ==
  ASSUME IInv, NEW s \in Sessions, request[s].op = "create"
  PROVE  \E w \in Users, r \in Resources :
           /\ request[s] \in Creation /\ w = request[s].u /\ r = request[s].r
           /\ w \in Access!Members /\ r \in asked
           /\ Kind[r] \in {"dashboard", "alarm"} \/ w = Admin
           /\ \A u \in Users, x \in Resources :
                Held(request[s].left, u, x) # {} => u \in Access!Members /\ x = r
           /\ row[r] = Nobody \/ (row[r] = w /\ ~Unborn(request[s]))
           /\ \A t \in Sessions : t # s /\ request[t].op = "create" => request[t].r # r
           /\ Calm => /\ Consistent
                      /\ \A t \in Sessions : t # s => request[t].op # "apply"
                      /\ \A u \in Access!Active : Half(request[s], u)
<1>1. request[s] \in Creation /\ CreationSound(s) /\ CreatedOnce BY Ops DEF IInv, Sound
<1>2. PICK w \in Users, r \in Resources : w = request[s].u /\ r = request[s].r
  BY <1>1 DEF Creation
<1>3. Calm => /\ Consistent
              /\ \A t \in Sessions : t # s => request[t].op # "apply"
              /\ \A u \in Access!Active : Half(request[s], u)
  BY DEF IInv, Consistent, Apart, CreationHalf
<1> QED BY <1>1, <1>2, <1>3 DEF CreationSound, CreatedOnce

LEMMA InsertKeeps ==
  ASSUME IInv, NEW s \in Sessions, Access!Insert(s)
  PROVE  IInv'
<1> DEFINE q == request[s]
           n == [q EXCEPT !.pc = "give"]
<1>1. /\ q.op = "create" /\ q.pc = "insert" /\ row' = [row EXCEPT ![q.r] = q.u]
      /\ UNCHANGED <<status, level, asked, grants, past>>
  BY DEF Access!Insert
<1>2. Sound /\ Types /\ Mentioned BY DEF IInv, Sound
<1>3. PICK w \in Users, r \in Resources :
        /\ q \in Creation /\ w = q.u /\ r = q.r
        /\ w \in Access!Members /\ r \in asked /\ (Kind[r] \in {"dashboard", "alarm"} \/ w = Admin)
        /\ \A u \in Users, x \in Resources : Held(q.left, u, x) # {} =>
             u \in Access!Members /\ x = r
        /\ \A t \in Sessions : t # s /\ request[t].op = "create" => request[t].r # r
        /\ Calm => /\ Consistent
                   /\ \A t \in Sessions : t # s => request[t].op # "apply"
                   /\ \A u \in Access!Active : Half(q, u)
  BY <1>1, CreationOf
<1>4. request' = [request EXCEPT ![s] = n] BY <1>2 DEF Access!Insert, Types
<1>5. /\ n \in Creation /\ n.op = "create" /\ n.pc = "give" /\ n.u = w /\ n.r = r
      /\ n.left = q.left
  BY <1>1, <1>3 DEF Creation
<1> HIDE DEF n
<1>6. /\ request' \in [Sessions -> {Access!Idle} \cup Creation \cup Application \cup Deletion]
      /\ request'[s] = n /\ \A t \in Sessions : t # s => request'[t] = request[t]
  BY <1>2, <1>4, <1>5, OneSession
<1>7. \A x \in Resources : row'[x] = IF x = r THEN w ELSE row[x] BY <1>1, <1>2, <1>3 DEF Types
<1>8. Access!Members' = Access!Members /\ Access!Active' = Access!Active
  BY <1>1 DEF Access!Members, Access!Active
<1>9. Types'
  <2>1. row' \in [Resources -> Users \cup {Nobody}] BY <1>1, <1>2, <1>3 DEF Types
  <2> QED BY <1>1, <1>2, <1>6, <2>1 DEF Types
<1>10. Mentioned' BY <1>1, <1>2, <1>3, <1>7, <1>8 DEF Mentioned, Access!Exists
<1>11. CreationSound(s)' /\ LevelSound(s)'
  BY <1>1, <1>3, <1>5, <1>6, <1>7, <1>8 DEF CreationSound, LevelSound, Unborn
<1>12. \A t \in Sessions : t # s /\ request[t].op = "create" =>
         row'[request[t].r] = row[request[t].r]
  BY <1>2, <1>3, <1>7, Ops DEF Creation
<1>13. request'[s].op = "create" /\ request'[s].r = q.r BY <1>3, <1>5, <1>6
<1>14. Sound'
  BY <1>1, <1>2, <1>3, <1>6, <1>8, <1>9, <1>10, <1>11, <1>12, <1>13, SoundKept
<1>15. ASSUME Calm' PROVE Consistent'
  <2>1. Calm /\ Consistent BY <1>1, <1>3, <1>15 DEF Calm
  <2>2. request[s].op # "delete" /\ request'[s].op # "delete" BY <1>1, <1>13
  <2>3. \A x \in Resources : x # r /\ Steady(x)' => Steady(x) /\ row'[x] = row[x]
    BY <1>6, <1>7, <2>2, DeletionSame DEF Steady, Access!Exists
  <2>4. CreationHalf(s)'
    <3> SUFFICES ASSUME NEW u \in Access!Active' PROVE Half(request[s], u)'
      BY DEF CreationHalf
    <3>1. Held(grants, u, r) = {} BY <1>1, <1>3, <1>8, <2>1 DEF Half, Unborn
    <3>2. Held(grants', u, r) = {} BY <1>1, <3>1
    <3>3. request'[s].r = r /\ request'[s].pc = "give" BY <1>5, <1>6
    <3> QED BY <3>2, <3>3 DEF Half, Unborn
  <2>5. LevelHalf(s)' BY <1>13 DEF LevelHalf
  <2>6. \A u, x : Held(grants', u, x) = Held(grants, u, x) BY <1>1
  <2>7. \A t \in Sessions : \A u \in Access!Active' :
          Held(grants', u, request[t].r) = Held(grants, u, request[t].r)
    BY <2>6
  <2>8. \A u \in Access!Active' : level'[u] = level[u] BY <1>1
  <2> QED
    BY <1>1, <1>2, <1>3, <1>6, <1>8, <1>13, <2>1, <2>3, <2>4, <2>5, <2>6, <2>7, <2>8,
       ConsistentKept
<1> QED BY <1>14, <1>15 DEF IInv

\* A step of a creation: it writes over its resource alone.
LEMMA CreationKept ==
  ASSUME IInv, Types', NEW s \in Sessions, NEW w \in Users, NEW r \in Resources,
         request[s].op = "create", request[s].u = w, request[s].r = r,
         UNCHANGED <<status, level, asked>>, Calm' => Calm,
         \A t \in Sessions : t # s => request'[t] = request[t],
         \A x \in Resources : x # r => row'[x] = row[x],
         row'[r] \in {row[r], w, Nobody},
         \A u \in Users, x \in Resources : x # r => Held(grants', u, x) = Held(grants, u, x),
         \A u \in Users : Held(grants', u, r) # {} => u \in Access!Members,
         request'[s].op \in {"create", "none"},
         request'[s].op = "create" =>
           request'[s].r = r /\ CreationSound(s)' /\ (Calm' => CreationHalf(s)'),
         request'[s].op = "none" /\ Calm' /\ Steady(r)' =>
           \A u \in Access!Active : Held(grants', u, r) = DueGrants(u, r)'
  PROVE  IInv'
<1>1. Sound /\ Mentioned /\ Types BY DEF IInv, Sound
<1>2. /\ w \in Access!Members /\ r \in asked /\ (Kind[r] \in {"dashboard", "alarm"} \/ w = Admin)
      /\ \A t \in Sessions : t # s /\ request[t].op = "create" => request[t].r # r
      /\ Calm => /\ Consistent
                 /\ \A t \in Sessions : t # s => request[t].op # "apply"
  BY CreationOf
<1>3. Access!Members' = Access!Members /\ Access!Active' = Access!Active
      /\ Access!Active \subseteq Users
  BY DEF Access!Members, Access!Active
<1>4. Mentioned'
  <2>1. ASSUME NEW x \in Resources, Access!Exists(x)'
        PROVE  x \in asked' /\ row'[x] \in Access!Members' /\ (Kind[x] \in {"dashboard", "alarm"}
            \/ row'[x] = Admin)
    BY <1>1, <1>2, <1>3, <2>1 DEF Mentioned, Access!Exists
  <2>2. ASSUME NEW u \in Users, NEW x \in Resources, Held(grants', u, x) # {}
        PROVE  u \in Access!Members' /\ x \in asked'
    BY <1>1, <1>2, <1>3, <2>2 DEF Mentioned
  <2> QED BY <1>1, <1>3, <2>1, <2>2 DEF Mentioned
<1>5. CreationSound(s)' /\ LevelSound(s)' BY DEF CreationSound, LevelSound
<1>6. \A t \in Sessions : t # s /\ request[t].op = "create" =>
        row'[request[t].r] = row[request[t].r]
  BY <1>1, <1>2, Ops DEF Creation
<1>7. Sound' BY <1>1, <1>2, <1>3, <1>4, <1>5, <1>6, SoundKept
<1>8. ASSUME Calm' PROVE Consistent'
  <2>1. Calm /\ Consistent BY <1>2, <1>8
  <2>2. \A x \in Resources : x # r /\ Steady(x)' => Steady(x)
    <3>1. request[s].op # "delete" /\ request'[s].op # "delete" OBVIOUS
    <3> QED BY <3>1, DeletionSame DEF Steady, Access!Exists
  <2>3. CreationHalf(s)' BY <1>8 DEF CreationHalf
  <2>4. LevelHalf(s)' BY DEF LevelHalf
  <2>5. \A t \in Sessions : t # s /\ request[t].op = "create" => \A u \in Access!Active' :
          Held(grants', u, request[t].r) = Held(grants, u, request[t].r)
    BY <1>1, <1>2, <1>3, Ops DEF Creation
  <2>6. \A u \in Access!Active' : level'[u] = level[u] OBVIOUS
  <2>7. \A x \in Resources : Steady(x)' /\ ~(request[s].op = "create" /\ request[s].r = x) =>
           /\ Steady(x) /\ row'[x] = row[x]
           /\ \A u \in Access!Active' : Held(grants', u, x) = Held(grants, u, x)
    BY <1>3, <2>2
  <2>8. request[s].op = "create" =>
           \/ request'[s].op = "create" /\ request'[s].r = request[s].r
           \/ /\ request'[s].op # "create"
              /\ \A x \in Resources : x = request[s].r /\ Steady(x)' =>
                   \A u \in Access!Active' : Held(grants', u, x) = DueGrants(u, x)'
    <3>1. CASE request'[s].op = "create" BY <3>1
    <3>2. CASE request'[s].op = "none"
      <4> SUFFICES ASSUME NEW x \in Resources, x = request[s].r, Steady(x)',
                          NEW u \in Access!Active'
                   PROVE  Held(grants', u, x) = DueGrants(u, x)'
        BY <3>2
      <4>1. x = r OBVIOUS
      <4>2. Steady(r)' BY <4>1 DEF Steady, Access!Exists, InDeletion
      <4>3. Held(grants', u, r) = DueGrants(u, r)' BY <1>3, <1>8, <3>2, <4>2
      <4>4. DueGrants(u, x)' = DueGrants(u, r)' BY <4>1
      <4> QED BY <4>1, <4>3, <4>4
    <3> QED BY <3>1, <3>2
  <2>9. request'[s].op = "create" => \A t \in Sessions : t # s => request[t].op # "apply"
    BY <1>2, <2>1
  <2> QED
    BY <1>1, <1>3, <2>1, <2>3, <2>4, <2>5, <2>6, <2>7, <2>8, <2>9, ConsistentKept
<1> QED BY <1>7, <1>8 DEF IInv

\* What the administrator and the owner get.
LEMMA Given ==
  ASSUME NEW w, NEW r
  PROVE  \A u, x : Held({Admin, w} \X Access!Permissions \X {r}, u, x) =
           IF u \in {Admin, w} /\ x = r THEN Access!Permissions ELSE {}
BY DEF Held

LEMMA GiveKeeps ==
  ASSUME Access!AccessAssumption, IInv, NEW s \in Sessions, Access!Give(s)
  PROVE  IInv'
<1> DEFINE q == request[s]
           n == [q EXCEPT !.pc = "select"]
<1>1. /\ q.op = "create" /\ q.pc = "give"
      /\ grants' = grants \cup ({Admin, q.u} \X Access!Permissions \X {q.r})
      /\ UNCHANGED <<status, level, asked, row, past>>
  BY DEF Access!Give
<1>2. Sound /\ Types /\ Mentioned BY DEF IInv, Sound
<1>3. PICK w \in Users, r \in Resources :
        /\ q \in Creation /\ w = q.u /\ r = q.r
        /\ w \in Access!Members /\ r \in asked /\ (Kind[r] \in {"dashboard", "alarm"} \/ w = Admin)
        /\ \A u \in Users, x \in Resources : Held(q.left, u, x) # {} =>
             u \in Access!Members /\ x = r
        /\ row[r] = Nobody \/ row[r] = w
        /\ Calm => \A u \in Access!Active : Half(q, u)
  <2>1. request[s].op = "create" BY <1>1
  <2> QED BY <2>1, CreationOf
<1>4. request' = [request EXCEPT ![s] = n] BY <1>2 DEF Access!Give, Types
<1>5. /\ n \in Creation /\ n.op = "create" /\ n.pc = "select" /\ n.u = w /\ n.r = r
      /\ n.left = q.left
  BY <1>1, <1>3 DEF Creation
<1> HIDE DEF n
<1>6. /\ request' \in [Sessions -> {Access!Idle} \cup Creation \cup Application \cup Deletion]
      /\ request'[s] = n /\ \A t \in Sessions : t # s => request'[t] = request[t]
  BY <1>2, <1>4, <1>5, OneSession
<1>7. /\ \A u, x : x # r \/ u \notin {Admin, w} => Held(grants', u, x) = Held(grants, u, x)
      /\ \A u \in {Admin, w} : Held(grants', u, r) = Access!Permissions
  <2> DEFINE more == {Admin, w} \X Access!Permissions \X {r}
  <2>1. grants' = grants \cup more BY <1>1, <1>3
  <2>2. /\ \A u, x : x # r \/ u \notin {Admin, w} => Held(more, u, x) = {}
        /\ \A u \in {Admin, w} : Held(more, u, r) = Access!Permissions
    BY Given
  <2> HIDE DEF more
  <2>3. \A u, x : Held(grants', u, x) = Held(grants, u, x) \cup Held(more, u, x)
    BY <2>1, HeldUnion
  <2>4. ASSUME NEW u, NEW x, x # r \/ u \notin {Admin, w}
        PROVE  Held(grants', u, x) = Held(grants, u, x)
    <3>1. Held(more, u, x) = {} BY <2>2, <2>4
    <3> QED BY <2>3, <3>1
  <2>5. ASSUME NEW u \in {Admin, w} PROVE Held(grants', u, r) = Access!Permissions
    <3>1. Held(more, u, r) = Access!Permissions BY <2>2
    <3>2. Held(grants, u, r) \subseteq Access!Permissions BY HeldPermissions
    <3> QED BY <2>3, <3>1, <3>2
  <2> QED BY <2>4, <2>5
<1>8. Access!Members' = Access!Members /\ Access!Active' = Access!Active
  BY <1>1 DEF Access!Members, Access!Active
<1>9. Types'
  <2>1. grants' \subseteq Grants
    BY <1>1, <1>2, <1>3 DEF Types, Grants, Access!AccessAssumption
  <2> QED BY <1>1, <1>2, <1>6, <2>1 DEF Types
<1>10. \A u \in Users : Held(grants', u, r) # {} => u \in Access!Members
  <2>1. Admin \in Access!Members
    BY <1>2 DEF Mentioned, Access!Members, Access!AccessAssumption
  <2> QED BY <1>2, <1>3, <1>7, <2>1 DEF Mentioned
<1>11. CreationSound(s)'
  BY <1>1, <1>3, <1>5, <1>6, <1>8 DEF CreationSound, Unborn
<1>12. ASSUME Calm' PROVE CreationHalf(s)'
  <2> SUFFICES ASSUME NEW u \in Access!Active' PROVE Half(request[s], u)'
    BY DEF CreationHalf
  <2>1. Steady(r)' => Steady(r)
    <3>1. request[s].op # "delete" /\ request'[s].op # "delete" BY <1>1, <1>5, <1>6
    <3> QED BY <1>1, <1>6, <3>1, DeletionSame DEF Steady, Access!Exists
  <2>2. Steady(r)' => Held(grants, u, r) = {}
    BY <1>1, <1>3, <1>8, <1>12, <2>1 DEF Half, Calm
  <2>3. Steady(r)' => Held(grants', u, r) = IF u \in {Admin, w} THEN Access!Permissions ELSE {}
    BY <1>7, <2>2
  <2>4. /\ request'[s].r = r /\ request'[s].pc = "select" /\ request'[s].u = w
    BY <1>5, <1>6
  <2> QED BY <2>3, <2>4 DEF Half, Unborn
<1>13. \A u \in Users, x \in Resources : x # r => Held(grants', u, x) = Held(grants, u, x)
  BY <1>7
<1>14. request'[s].op = "create" /\ request'[s].r = r BY <1>5, <1>6
<1>15. Calm' => Calm BY <1>1 DEF Calm
<1> QED
  BY <1>1, <1>3, <1>6, <1>9, <1>10, <1>11, <1>12, <1>13, <1>14, <1>15, CreationKept

LEMMA ShareWithKeeps ==
  ASSUME IInv, NEW s \in Sessions, NEW m \in Users, Access!ShareWith(s, m)
  PROVE  IInv'
<1> DEFINE q == request[s]
           moved == {g \in q.left : g[1] = m}
           rest == {g \in q.left : g[1] # m}
           n == [q EXCEPT !.left = rest]
<1>1. /\ q.op = "create" /\ q.pc = "share" /\ grants' = grants \cup moved
      /\ UNCHANGED <<status, level, asked, row, past>>
  BY DEF Access!ShareWith
<1>2. Sound /\ Types /\ Mentioned BY DEF IInv, Sound
<1>3. PICK w \in Users, r \in Resources :
        /\ q \in Creation /\ w = q.u /\ r = q.r
        /\ w \in Access!Members /\ r \in asked /\ (Kind[r] \in {"dashboard", "alarm"} \/ w = Admin)
        /\ \A u \in Users, x \in Resources : Held(q.left, u, x) # {} =>
             u \in Access!Members /\ x = r
        /\ row[r] = Nobody \/ row[r] = w
        /\ Calm => \A u \in Access!Active : Half(q, u)
  BY <1>1, CreationOf
<1>4. request' = [request EXCEPT ![s] = n]
  <2>1. q.left \ moved = rest OBVIOUS
  <2> QED BY <1>2, <2>1 DEF Access!ShareWith, Types
<1>5. q.left \in SUBSET Grants BY <1>3 DEF Creation
<1>6. /\ n \in Creation /\ n.op = "create" /\ n.pc = "share" /\ n.u = w /\ n.r = r
      /\ n.left = rest
  <2>1. rest \in SUBSET Grants BY <1>5
  <2> HIDE DEF rest
  <2> QED BY <1>1, <1>3, <2>1 DEF Creation
<1>7. \A u \in Users, x \in Resources :
        /\ Held(moved, u, x) = IF u = m THEN Held(q.left, u, x) ELSE {}
        /\ Held(rest, u, x) = IF u = m THEN {} ELSE Held(q.left, u, x)
  BY <1>5, HeldOf
<1>8. moved \in SUBSET Grants BY <1>5
<1> HIDE DEF n, moved, rest
<1>9. /\ request' \in [Sessions -> {Access!Idle} \cup Creation \cup Application \cup Deletion]
      /\ request'[s] = n /\ \A t \in Sessions : t # s => request'[t] = request[t]
  BY <1>2, <1>4, <1>6, OneSession
<1>10. \A u, x : Held(grants', u, x) = Held(grants, u, x) \cup Held(moved, u, x)
  BY <1>1, HeldUnion
<1>11. \A u \in Users, x \in Resources : Held(moved, u, x) # {} =>
         u \in Access!Members /\ x = r
  BY <1>3, <1>7
<1>12. Access!Members' = Access!Members /\ Access!Active' = Access!Active
      /\ Access!Active \subseteq Users
  BY <1>1 DEF Access!Members, Access!Active
<1>13. Types'
  <2>1. grants' \subseteq Grants BY <1>1, <1>2, <1>8 DEF Types
  <2> QED BY <1>1, <1>2, <1>9, <2>1 DEF Types
<1>14. ASSUME NEW u \in Users, NEW x \in Resources, x # r
       PROVE  Held(grants', u, x) = Held(grants, u, x)
  <2>1. Held(moved, u, x) = {} BY <1>11, <1>14
  <2> QED BY <1>10, <2>1
<1>15. ASSUME NEW u \in Users, Held(grants', u, r) # {} PROVE u \in Access!Members
  <2>1. Held(grants, u, r) # {} \/ Held(moved, u, r) # {} BY <1>10, <1>15
  <2> QED BY <1>2, <1>11, <2>1 DEF Mentioned
<1>16. CreationSound(s)'
  <2>1. \A u \in Users, x \in Resources : Held(rest, u, x) # {} =>
          u \in Access!Members /\ x = r
    BY <1>3, <1>7
  <2> QED BY <1>1, <1>3, <1>6, <1>9, <1>12, <2>1 DEF CreationSound, Unborn
<1>17. ASSUME Calm' PROVE CreationHalf(s)'
  <2> SUFFICES ASSUME NEW u \in Access!Active' PROVE Half(request[s], u)'
    BY DEF CreationHalf
  <2>1. Steady(r)' => Steady(r)
    <3>1. request[s].op # "delete" /\ request'[s].op # "delete" BY <1>1, <1>6, <1>9
    <3> QED BY <1>1, <1>9, <3>1, DeletionSame DEF Steady, Access!Exists
  <2>2. Half(q, u) BY <1>1, <1>3, <1>12, <1>17 DEF Calm
  <2>3. u \in Users BY <1>12
  <2>4. /\ request'[s].r = r /\ request'[s].pc = "share" /\ request'[s].u = w
        /\ request'[s].left = rest
    BY <1>6, <1>9
  <2>5. Held(grants', u, r) = Held(grants, u, r) \cup Held(moved, u, r) BY <1>10
  <2>6. /\ Held(moved, u, r) = IF u = m THEN Held(q.left, u, r) ELSE {}
        /\ Held(rest, u, r) = IF u = m THEN {} ELSE Held(q.left, u, r)
    BY <1>7, <2>3
  <2>7. Held(moved, u, r) \subseteq Access!Permissions BY HeldPermissions
  <2>8. ByLevel(u, r)' = ByLevel(u, r) BY <1>1 DEF ByLevel
  <2>9. CASE u \in {Admin, w}
    <3>1. Steady(r)' => Held(grants', u, r) = Access!Permissions
      BY <1>1, <1>3, <2>1, <2>2, <2>5, <2>7, <2>9 DEF Half
    <3> QED BY <2>4, <2>9, <3>1 DEF Half, Unborn
  <2>10. CASE u \notin {Admin, w}
    <3>1. Steady(r)' => Held(grants, u, r) \cup Held(q.left, u, r) = ByLevel(u, r)
      BY <1>1, <1>3, <2>1, <2>2, <2>10 DEF Half
    <3>2. Held(grants', u, r) \cup Held(rest, u, r) = Held(grants, u, r) \cup Held(q.left, u, r)
      BY <2>5, <2>6
    <3> QED BY <2>4, <2>8, <2>10, <3>1, <3>2 DEF Half, Unborn
  <2> QED BY <2>9, <2>10
<1>18. request'[s].op = "create" /\ request'[s].r = r BY <1>6, <1>9
<1>19. Calm' => Calm BY <1>1 DEF Calm
<1> QED
  BY <1>1, <1>3, <1>9, <1>13, <1>14, <1>15, <1>16, <1>17, <1>18, <1>19, CreationKept

LEMMA CommitWholeKeeps ==
  ASSUME Access!AccessAssumption, IInv, NEW s \in Sessions, Access!CommitWhole(s)
  PROVE  IInv'
<1> DEFINE q == request[s]
<1>1. /\ q.op = "create" /\ q.pc = "commit"
      /\ row' = [row EXCEPT ![q.r] = q.u]
      /\ request' = [request EXCEPT ![s] = Access!Idle]
      /\ UNCHANGED <<status, level, asked, past>>
  BY DEF Access!CommitWhole
<1>2. Sound /\ Types /\ Mentioned BY DEF IInv, Sound
<1>3. PICK w \in Users, r \in Resources :
        /\ q \in Creation /\ w = q.u /\ r = q.r
        /\ w \in Access!Members /\ r \in asked /\ (Kind[r] \in {"dashboard", "alarm"} \/ w = Admin)
        /\ \A u \in Users, x \in Resources : Held(q.left, u, x) # {} =>
             u \in Access!Members /\ x = r
        /\ row[r] = Nobody \/ row[r] = w
        /\ Calm => \A u \in Access!Active : Half(q, u)
  <2>1. request[s].op = "create" BY <1>1
  <2> QED BY <2>1, CreationOf
<1> DEFINE more == {Admin, w} \X Access!Permissions \X {r}
<1>4. grants' = grants \cup more \cup q.left BY <1>3 DEF Access!CommitWhole
<1>5. /\ q.left \in SUBSET Grants /\ more \in SUBSET Grants
  BY <1>3 DEF Creation, Grants, Access!AccessAssumption
<1>6. /\ \A u, x : x # r \/ u \notin {Admin, w} => Held(more, u, x) = {}
      /\ \A u \in {Admin, w} : Held(more, u, r) = Access!Permissions
  BY Given
<1> HIDE DEF more
<1>7. \A u, x :
        Held(grants', u, x) = Held(grants, u, x) \cup Held(more, u, x) \cup Held(q.left, u, x)
  BY <1>4 DEF Held
<1>8. /\ request' \in [Sessions -> {Access!Idle} \cup Creation \cup Application \cup Deletion]
      /\ request'[s].op = "none" /\ \A t \in Sessions : t # s => request'[t] = request[t]
  BY <1>1, <1>2, Ended
<1>9. \A x \in Resources : row'[x] = IF x = r THEN w ELSE row[x] BY <1>1, <1>2, <1>3 DEF Types
<1>10. Types'
  <2>1. grants' \subseteq Grants BY <1>2, <1>4, <1>5 DEF Types
  <2>2. row' \in [Resources -> Users \cup {Nobody}] BY <1>1, <1>2, <1>3 DEF Types
  <2> QED BY <1>1, <1>2, <1>8, <2>1, <2>2 DEF Types
<1>11. ASSUME NEW u \in Users, NEW x \in Resources, x # r
       PROVE  Held(grants', u, x) = Held(grants, u, x)
  <2>1. Held(more, u, x) = {} BY <1>6, <1>11
  <2>2. Held(q.left, u, x) = {} BY <1>3, <1>11
  <2> QED BY <1>7, <2>1, <2>2
<1>12. ASSUME NEW u \in Users, Held(grants', u, r) # {} PROVE u \in Access!Members
  <2>1. Held(grants, u, r) # {} \/ Held(more, u, r) # {} \/ Held(q.left, u, r) # {}
    BY <1>7, <1>12
  <2>2. Admin \in Access!Members
    BY <1>2 DEF Mentioned, Access!Members, Access!AccessAssumption
  <2>3. Held(more, u, r) # {} => u \in {Admin, w} BY <1>6
  <2> QED BY <1>2, <1>3, <2>1, <2>2, <2>3 DEF Mentioned
<1>13. ASSUME Calm', NEW u \in Access!Active PROVE Held(grants', u, r) = DueGrants(u, r)'
  <2>1. Half(q, u) BY <1>1, <1>3, <1>13 DEF Calm
  <2>2. Held(grants, u, r) = {} BY <1>1, <1>3, <2>1 DEF Half, Unborn
  <2>3. row'[r] = w BY <1>9
  <2>4. ByLevel(u, r)' = ByLevel(u, r) BY <1>1 DEF ByLevel
  <2>5. Held(grants', u, r) = Held(more, u, r) \cup Held(q.left, u, r)
    BY <1>7, <2>2
  <2>6. CASE u \in {Admin, w}
    <3>1. Held(more, u, r) = Access!Permissions BY <1>6, <2>6
    <3>2. Held(q.left, u, r) \subseteq Access!Permissions BY HeldPermissions
    <3>3. Held(grants', u, r) = Access!Permissions BY <2>5, <3>1, <3>2
    <3>4. DueGrants(u, r)' = Access!Permissions BY <2>3, <2>6 DEF DueGrants
    <3> QED BY <3>3, <3>4
  <2>7. CASE u \notin {Admin, w}
    <3>1. Held(more, u, r) = {} BY <1>6, <2>7
    <3>2. Held(q.left, u, r) = ByLevel(u, r) BY <1>1, <1>3, <2>1, <2>7 DEF Half
    <3>3. DueGrants(u, r)' = ByLevel(u, r)' BY <2>3, <2>7 DEF DueGrants
    <3> QED BY <2>4, <2>5, <3>1, <3>2, <3>3
  <2> QED BY <2>6, <2>7
<1>14. Calm' => Calm BY <1>1 DEF Calm
<1>15. row'[r] = w /\ \A x \in Resources : x # r => row'[x] = row[x] BY <1>9
<1> QED
  BY <1>1, <1>3, <1>8, <1>10, <1>11, <1>12, <1>13, <1>14, <1>15, CreationKept

LEMMA FailCreateKeeps ==
  ASSUME IInv, NEW s \in Sessions, Access!FailCreate(s)
  PROVE  IInv'
<1> DEFINE q == request[s]
<1>1. /\ q.op = "create"
      /\ row' = IF Kind[q.r] = "alarm" /\ q.pc # "insert" THEN [row EXCEPT ![q.r] = Nobody] ELSE row
      /\ past' = [past EXCEPT !.failed = @ \/ q.pc \in {"give", "select", "share"}]
      /\ request' = [request EXCEPT ![s] = Access!Idle]
      /\ UNCHANGED <<status, level, asked, grants>>
  BY DEF Access!FailCreate
<1>2. Sound /\ Types /\ Mentioned BY DEF IInv, Sound
<1>3. PICK w \in Users, r \in Resources :
        /\ q \in Creation /\ w = q.u /\ r = q.r
        /\ row[r] = Nobody \/ (row[r] = w /\ ~Unborn(q))
  BY <1>1, CreationOf
<1>4. /\ request' \in [Sessions -> {Access!Idle} \cup Creation \cup Application \cup Deletion]
      /\ request'[s].op = "none" /\ \A t \in Sessions : t # s => request'[t] = request[t]
  BY <1>1, <1>2, Ended
<1>5. /\ row' \in [Resources -> Users \cup {Nobody}]
      /\ \A x \in Resources : x # r => row'[x] = row[x]
      /\ row'[r] \in {row[r], Nobody}
  BY <1>1, <1>2, <1>3 DEF Types
<1>6. /\ past' \in [mixed : BOOLEAN, crowded :
        BOOLEAN, failed : BOOLEAN, changes : 0 .. MaxChanges]
      /\ Calm' => Calm /\ q.pc \notin {"give", "select", "share"}
  BY <1>1, <1>2 DEF Types, Calm
<1>7. Types' BY <1>1, <1>2, <1>4, <1>5, <1>6 DEF Types
<1>8. Calm' => ~Steady(r)'
  <2>1. q.pc \in {"whole", "insert", "give", "select", "share", "commit"} BY <1>3 DEF Creation
  <2>2. Calm' => row[r] = Nobody BY <1>3, <1>6, <2>1 DEF Unborn
  <2> QED BY <1>5, <2>2 DEF Steady, Access!Exists
<1>9. /\ \A u, x : Held(grants', u, x) = Held(grants, u, x)
      /\ \A u \in Users : Held(grants', u, r) # {} => u \in Access!Members
  BY <1>1, <1>2 DEF Mentioned
<1> QED
  BY <1>1, <1>3, <1>4, <1>5, <1>6, <1>7, <1>8, <1>9, CreationKept

-----------------------------------------------------------------------------
(* Deletions.                                                              *)

\* A deletion only takes: a resource keeps its row and its grants, or is not
\* steady and, if it had a row, it loses its grants or keeps them all.
LEMMA DeletionKept ==
  ASSUME IInv, Types', NEW s \in Sessions, NEW r \in Resources,
         request[s].op \in {"none", "delete"}, request'[s].op \in {"none", "delete"},
         UNCHANGED <<status, level, asked>>, Calm' => Calm,
         \A t \in Sessions : t # s => request'[t] = request[t],
         \A x \in Resources : x # r => row'[x] = row[x],
         row'[r] \in {row[r], Nobody},
         \A u \in Users, x \in Resources :
           \/ Held(grants', u, x) = Held(grants, u, x)
           \/ x = r /\ Held(grants', u, x) = {},
         Calm' => /\ ~Steady(r)'
                  /\ \A x \in Resources : x # r /\ Steady(x)' => Steady(x)
  PROVE  IInv'
<1>1. Sound /\ Mentioned /\ Types BY DEF IInv, Sound
<1>2. Access!Members' = Access!Members /\ Access!Active' = Access!Active
      /\ Access!Active \subseteq Users
  BY DEF Access!Members, Access!Active
<1>3. Mentioned'
  <2>1. ASSUME NEW x \in Resources, Access!Exists(x)'
        PROVE  row'[x] = row[x] /\ Access!Exists(x)
    BY <2>1 DEF Access!Exists
  <2>2. \A u \in Users, x \in Resources : Held(grants', u, x) # {} => Held(grants, u, x) # {}
    OBVIOUS
  <2> QED BY <1>1, <1>2, <2>1, <2>2 DEF Mentioned
<1>4. CreationSound(s)' /\ LevelSound(s)' BY DEF CreationSound, LevelSound
<1>5. \A t \in Sessions : t # s /\ request[t].op = "create" =>
        row'[request[t].r] \in {row[request[t].r], Nobody}
  BY <1>1, Ops DEF Creation
<1>6. Sound' BY <1>1, <1>2, <1>3, <1>4, <1>5, SoundKept
<1>7. ASSUME Calm' PROVE Consistent'
  <2>1. Consistent BY <1>7 DEF IInv
  <2>2. CreationHalf(s)' /\ LevelHalf(s)' BY DEF CreationHalf, LevelHalf
  <2>3. \A x \in Resources : Steady(x)' => x # r /\ Steady(x) BY <1>7
  <2>4. \A t \in Sessions : t # s /\ request[t].op = "create" =>
          \A u \in Access!Active' :
            \/ Held(grants', u, request[t].r) = Held(grants, u, request[t].r)
            \/ ~Steady(request[t].r)' /\ Held(grants', u, request[t].r) = {}
    <3> SUFFICES ASSUME NEW t \in Sessions, t # s, request[t].op = "create",
                        NEW u \in Access!Active'
                 PROVE  \/ Held(grants', u, request[t].r) = Held(grants, u, request[t].r)
                        \/ ~Steady(request[t].r)' /\ Held(grants', u, request[t].r) = {}
      OBVIOUS
    <3>1. PICK x \in Resources : x = request[t].r BY <1>1, Ops DEF Creation
    <3>2. \/ Held(grants', u, x) = Held(grants, u, x)
          \/ x = r /\ Held(grants', u, x) = {}
      BY <1>2
    <3>3. request'[t].r = x BY <3>1
    <3>4. x = r => ~Steady(request[t].r)' BY <1>7, <3>3 DEF Steady, Access!Exists, InDeletion
    <3> QED BY <3>1, <3>2, <3>4
  <2>5. \A u \in Access!Active' : level'[u] = level[u] OBVIOUS
  <2>6. \A x \in Resources : Steady(x)' => /\ Steady(x) /\ row'[x] = row[x]
                                           /\ \A u \in Access!Active' :
                                                Held(grants', u, x) = Held(grants, u, x)
    BY <1>2, <2>3
  <2> QED BY <1>1, <1>2, <2>1, <2>2, <2>4, <2>5, <2>6, ConsistentKept
<1> QED BY <1>6, <1>7 DEF IInv

\* What drops the grants over a resource.
LEMMA HeldDropped ==
  ASSUME grants \in SUBSET Grants, NEW r \in Resources
  PROVE  /\ grants \ (Users \X Access!Permissions \X {r}) \in SUBSET Grants
         /\ \A u \in Users, x \in Resources :
              Held(grants \ (Users \X Access!Permissions \X {r}), u, x) =
                IF x = r THEN {} ELSE Held(grants, u, x)
BY DEF Held, Grants

LEMMA DeletionKeeps ==
  ASSUME IInv, NEW s \in Sessions, NEW u \in Users, NEW r \in Resources, Access!Delete(s, u,
         r)
  PROVE  IInv'
<1> DEFINE n == [op |-> "delete", r |-> r]
<1>1. /\ request[s] = Access!Idle /\ request' = [request EXCEPT ![s] = n]
      /\ \/ grants' = grants \ (Users \X Access!Permissions \X {r}) /\ row' = row
         \/ row' = [row EXCEPT ![r] = Nobody] /\ grants' = grants
      /\ UNCHANGED <<status, level, asked, past>>
  BY DEF Access!Delete
<1>2. Sound /\ Types BY DEF IInv, Sound
<1>3. n \in Deletion /\ n.op = "delete" /\ n.r = r BY DEF Deletion
<1> HIDE DEF n
<1>4. /\ request' \in [Sessions -> {Access!Idle} \cup Creation \cup Application \cup Deletion]
      /\ request'[s] = n /\ \A t \in Sessions : t # s => request'[t] = request[t]
  BY <1>1, <1>2, <1>3, OneSession
<1>5. request[s].op = "none" /\ request'[s].op = "delete" /\ request'[s].r = r
  BY <1>1, <1>2, <1>3, <1>4, Ops
<1>6. grants' \in SUBSET Grants /\ row' \in [Resources -> Users \cup {Nobody}]
  BY <1>1, <1>2, HeldDropped DEF Types
<1>7. Types' BY <1>1, <1>2, <1>4, <1>6 DEF Types
<1>8. \A v \in Users, x \in Resources :
        \/ Held(grants', v, x) = Held(grants, v, x)
        \/ x = r /\ Held(grants', v, x) = {}
  <2>1. CASE grants' = grants BY <2>1
  <2>2. CASE grants' = grants \ (Users \X Access!Permissions \X {r})
    <3>1. \A v \in Users, x \in Resources :
            Held(grants', v, x) = IF x = r THEN {} ELSE Held(grants, v, x)
      BY <1>2, <2>2, HeldDropped DEF Types
    <3> QED BY <3>1
  <2> QED BY <1>1, <2>1, <2>2
<1>9. row'[r] \in {row[r], Nobody} /\ \A x \in Resources : x # r => row'[x] = row[x]
  BY <1>1, <1>2 DEF Types
<1>10. ~Steady(r)' BY <1>5 DEF Steady, InDeletion
<1>11. ASSUME NEW x \in Resources, x # r, Steady(x)' PROVE Steady(x)
  <2>1. InDeletion(x) => InDeletion(x)' BY <1>4, <1>5 DEF InDeletion
  <2> QED BY <1>9, <1>11, <2>1 DEF Steady, Access!Exists
<1>12. Calm' => Calm BY <1>1 DEF Calm
<1> QED
  BY <1>1, <1>4, <1>5, <1>7, <1>8, <1>9, <1>10, <1>11, <1>12, DeletionKept

LEMMA EndDeleteKeeps ==
  ASSUME IInv, NEW s \in Sessions, Access!EndDelete(s)
  PROVE  IInv'
<1>1. /\ request[s].op = "delete" /\ request' = [request EXCEPT ![s] = Access!Idle]
      /\ grants' = grants \ (Users \X Access!Permissions \X {request[s].r})
      /\ row' = [row EXCEPT ![request[s].r] = Nobody]
      /\ UNCHANGED <<status, level, asked, past>>
  BY DEF Access!EndDelete
<1>2. Sound /\ Types BY DEF IInv, Sound
<1>3. PICK r \in Resources : r = request[s].r BY <1>1, <1>2, Ops DEF Deletion
<1>4. /\ request' \in [Sessions -> {Access!Idle} \cup Creation \cup Application \cup Deletion]
      /\ request'[s].op = "none" /\ \A t \in Sessions : t # s => request'[t] = request[t]
  BY <1>1, <1>2, Ended
<1>5. /\ grants' \in SUBSET Grants
      /\ \A v \in Users, x \in Resources :
           Held(grants', v, x) = IF x = r THEN {} ELSE Held(grants, v, x)
  <2>1. grants' = grants \ (Users \X Access!Permissions \X {r}) BY <1>1, <1>3
  <2>2. grants \in SUBSET Grants BY <1>2 DEF Types
  <2> QED BY <2>1, <2>2, HeldDropped
<1>6. /\ row' \in [Resources -> Users \cup {Nobody}] /\ row'[r] = Nobody
      /\ \A x \in Resources : x # r => row'[x] = row[x]
  BY <1>1, <1>2, <1>3 DEF Types
<1>7. Types' BY <1>1, <1>2, <1>4, <1>5, <1>6 DEF Types
<1>8. ~Steady(r)' BY <1>6 DEF Steady, Access!Exists
<1>9. ASSUME NEW x \in Resources, x # r, Steady(x)' PROVE Steady(x)
  <2>1. InDeletion(x) => InDeletion(x)' BY <1>3, <1>4, <1>9 DEF InDeletion
  <2> QED BY <1>6, <1>9, <2>1 DEF Steady, Access!Exists
<1>10. Calm' => Calm BY <1>1 DEF Calm
<1>11. \A v \in Users, x \in Resources :
         \/ Held(grants', v, x) = Held(grants, v, x)
         \/ x = r /\ Held(grants', v, x) = {}
  BY <1>5
<1> QED
  BY <1>1, <1>4, <1>6, <1>7, <1>8, <1>9, <1>10, <1>11, DeletionKept

LEMMA FailDeleteKeeps ==
  ASSUME IInv, NEW s \in Sessions, Access!FailDelete(s)
  PROVE  IInv'
<1>1. /\ request[s].op = "delete" /\ request' = [request EXCEPT ![s] = Access!Idle]
      /\ past' = [past EXCEPT !.failed = TRUE]
      /\ UNCHANGED <<status, level, asked, row, grants>>
  BY DEF Access!FailDelete
<1>2. Sound /\ Types BY DEF IInv, Sound
<1>3. PICK r \in Resources : r = request[s].r BY <1>1, <1>2, Ops DEF Deletion
<1>4. /\ request' \in [Sessions -> {Access!Idle} \cup Creation \cup Application \cup Deletion]
      /\ request'[s].op = "none" /\ \A t \in Sessions : t # s => request'[t] = request[t]
  BY <1>1, <1>2, Ended
<1>5. ~Calm' BY <1>1, <1>2 DEF Calm, Types
<1>6. Types' BY <1>1, <1>2, <1>4 DEF Types
<1>7. \A v, x : Held(grants', v, x) = Held(grants, v, x) BY <1>1
<1> QED BY <1>1, <1>4, <1>5, <1>6, <1>7, DeletionKept

-----------------------------------------------------------------------------
(* Users and levels.                                                       *)

LEMMA RemoveUserKeeps ==
  ASSUME IInv, NEW s \in Sessions, NEW u \in Users, Access!RemoveUser(s, u)
  PROVE  IInv'
<1>1. /\ request[s] = Access!Idle /\ u # Admin
      /\ grants' = {g \in grants : g[1] # u}
      /\ row' = [r \in Resources |-> IF row[r] = u THEN Nobody ELSE row[r]]
      /\ status' = [status EXCEPT ![u] = "deleted"]
      /\ past' = [past EXCEPT !.crowded = @ \/ Access!Doing("create") # {}]
      /\ UNCHANGED <<level, asked, request>>
      /\ u \in Access!Members
  BY DEF Access!RemoveUser
<1>2. Sound /\ Types /\ Mentioned BY DEF IInv, Sound
<1>3. request[s].op = "none" BY <1>1, <1>2, Ops
<1>4. Access!Members' = Access!Members /\ Access!Active' \subseteq Access!Active
      /\ Access!Active \subseteq Users /\ u \notin Access!Active'
      /\ status'[Admin] = "active" /\ status' \in [Users -> {"absent", "active", "deleted"}]
  BY <1>1, <1>2 DEF Access!Members, Access!Active, Types, Mentioned
<1>5. /\ grants' \in SUBSET Grants
      /\ \A v \in Users, x \in Resources :
           Held(grants', v, x) = IF v = u THEN {} ELSE Held(grants, v, x)
  <2>1. grants \in SUBSET Grants BY <1>2 DEF Types
  <2>2. grants' \in SUBSET Grants BY <1>1, <2>1
  <2>3. ASSUME NEW v \in Users, NEW x \in Resources
        PROVE  Held(grants', v, x) = IF v = u THEN {} ELSE Held(grants, v, x)
    <3> DEFINE kept == {g \in grants : g[1] # u}
    <3>1. Held(kept, v, x) = IF v = u THEN {} ELSE Held(grants, v, x) BY <2>1 DEF Held, Grants
    <3>2. grants' = kept BY <1>1
    <3> HIDE DEF kept
    <3> QED BY <3>1, <3>2
  <2> QED BY <2>2, <2>3
<1>6. /\ row' \in [Resources -> Users \cup {Nobody}]
      /\ \A x \in Resources : row'[x] \in {row[x], Nobody}
  BY <1>1, <1>2 DEF Types
<1>7. /\ past' \in [mixed : BOOLEAN, crowded :
        BOOLEAN, failed : BOOLEAN, changes : 0 .. MaxChanges]
      /\ Calm' => Calm
  BY <1>1, <1>2 DEF Types, Calm
<1>8. Types' BY <1>1, <1>2, <1>4, <1>5, <1>6, <1>7 DEF Types
<1>9. Mentioned'
  <2>1. ASSUME NEW x \in Resources, Access!Exists(x)'
        PROVE  row'[x] = row[x] /\ Access!Exists(x)
    BY <1>6, <2>1 DEF Access!Exists
  <2>2. \A v \in Users, x \in Resources : Held(grants', v, x) # {} => Held(grants, v, x) # {}
    BY <1>5
  <2> QED BY <1>1, <1>2, <1>4, <2>1, <2>2 DEF Mentioned
<1>10. CreationSound(s)' /\ LevelSound(s)' BY <1>1, <1>3 DEF CreationSound, LevelSound
<1>11. \A t \in Sessions : t # s /\ request[t].op = "create" =>
         row'[request[t].r] \in {row[request[t].r], Nobody}
  BY <1>2, <1>6, Ops DEF Creation
<1>12. Sound'
  BY <1>1, <1>2, <1>3, <1>4, <1>8, <1>9, <1>10, <1>11, SoundKept
<1>13. ASSUME Calm' PROVE Consistent'
  <2>1. Consistent BY <1>7, <1>13 DEF IInv
  <2>2. CreationHalf(s)' /\ LevelHalf(s)' BY <1>1, <1>3 DEF CreationHalf, LevelHalf
  <2>3. \A x \in Resources : Steady(x)' => Steady(x) /\ row'[x] = row[x]
    BY <1>1, <1>6 DEF Steady, Access!Exists, InDeletion
  <2>4. \A v \in Access!Active', x \in Resources : Held(grants', v, x) = Held(grants, v, x)
    BY <1>4, <1>5
  <2>5. \A t \in Sessions : t # s /\ request[t].op = "create" =>
          \A v \in Access!Active' :
            Held(grants', v, request[t].r) = Held(grants, v, request[t].r)
    BY <1>2, <2>4, Ops DEF Creation
  <2>6. \A v \in Access!Active' : level'[v] = level[v] BY <1>1
  <2>7. \A t \in Sessions : request'[t] = request[t] BY <1>1
  <2> QED
    BY <1>2, <1>3, <1>4, <2>1, <2>2, <2>3, <2>4, <2>5, <2>6, <2>7, ConsistentKept
<1> QED BY <1>12, <1>13 DEF IInv

LEMMA AddUserKeeps ==
  ASSUME Access!AccessAssumption, IInv, NEW s \in Sessions, NEW u \in Users,
         NEW lvl \in Access!Levels,
         Access!AddUser(s, u, lvl)
  PROVE  IInv'
<1>1. /\ request[s] = Access!Idle /\ past.changes < MaxChanges /\ status[u] = "absent"
      /\ status' = [status EXCEPT ![u] = "active"]
      /\ request' = [request EXCEPT ![s] = Access!Applying(u, lvl)] /\ past' = Access!Overlaps(u)
      /\ UNCHANGED <<level, asked, row, grants>>
  BY DEF Access!AddUser
<1>2. Sound /\ Types /\ Mentioned BY DEF IInv, Sound
<1>3. request[s].op = "none" BY <1>1, <1>2, Ops
<1>4. /\ Access!Members' = Access!Members \cup {u} /\ Access!Active' = Access!Active \cup {u}
      /\ u \notin Access!Members
      /\ u # Admin /\ u \in Access!Members' \ {Admin} /\ status'[Admin] = "active"
      /\ status' \in [Users -> {"absent", "active", "deleted"}]
  BY <1>1, <1>2 DEF Access!Members, Access!Active, Types, Mentioned, Access!AccessAssumption
<1>5. /\ request' \in [Sessions -> {Access!Idle} \cup Creation \cup Application \cup Deletion]
      /\ request'[s].op = "apply" /\ request'[s].u = u
      /\ \A t \in Sessions : t # s => request'[t] = request[t]
      /\ past' \in [mixed : BOOLEAN, crowded :
           BOOLEAN, failed : BOOLEAN, changes : 0 .. MaxChanges]
      /\ LevelSound(s)' /\ CreationSound(s)' /\ CreationHalf(s)' /\ LevelHalf(s)'
      /\ Calm' => /\ Calm
                  /\ \A t \in Sessions :
                       request[t].op # "create" /\ (request[t].op = "apply" =>
                         request[t].u # u)
  BY <1>1, <1>4, LevelBegins
<1>6. Types' BY <1>1, <1>2, <1>4, <1>5 DEF Types
<1>7. Mentioned' BY <1>1, <1>2, <1>4 DEF Mentioned, Access!Exists
<1>8. Sound' BY <1>1, <1>2, <1>4, <1>5, <1>6, <1>7, SoundKept
<1>9. ASSUME Calm' PROVE Consistent'
  <2>1. /\ Calm /\ Consistent
        /\ \A t \in Sessions :
             request[t].op # "create" /\ (request[t].op = "apply" => request[t].u # u)
    BY <1>5, <1>9 DEF IInv
  <2>2. Apart' BY <1>5, <2>1 DEF Apart, Consistent
  <2>3. \A x \in Resources : Steady(x)' <=> Steady(x)
    BY <1>1, <1>3, <1>5, DeletionSame DEF Steady, Access!Exists
  <2>4. ASSUME NEW v \in Access!Active', NEW x \in Resources, Steady(x)'
        PROVE  Held(grants', v, x) = DueGrants(v, x)'
    <3>1. Held(grants', v, x) = Held(grants, v, x) /\ DueGrants(v, x)' = DueGrants(v, x)
      BY <1>1 DEF DueGrants, ByLevel
    <3>2. CASE v \in Access!Active
      BY <2>1, <2>3, <2>4, <3>1, <3>2 DEF Consistent, LevelsHeld, InCreation
    <3>3. CASE v = u
      <4>1. Held(grants, u, x) = {} /\ level[u] = "none" BY <1>2, <1>4 DEF Mentioned, Types
      <4>2. u \notin {Admin, row[x]} BY <1>2, <1>4, <2>3, <2>4 DEF Mentioned, Steady
      <4>3. Access!PermissionsFor(level[u]) = {} BY <4>1 DEF Access!PermissionsFor
      <4> QED BY <3>1, <3>3, <4>1, <4>2, <4>3 DEF DueGrants, ByLevel
    <3> QED BY <1>4, <3>2, <3>3
  <2>5. LevelsHeld' BY <2>4 DEF LevelsHeld
  <2>6. ASSUME NEW t \in Sessions, t # s PROVE CreationHalf(t)' /\ LevelHalf(t)'
    <3>1. request'[t] = request[t] /\ request[t].op # "create" /\ LevelHalf(t)
      BY <1>5, <2>1, <2>6 DEF Consistent
    <3>2. CreationHalf(t)' BY <3>1 DEF CreationHalf
    <3>3. request[t].op = "apply" /\ request[t].u \in Access!Active' =>
            request[t].u \in Access!Active
      BY <1>4, <2>1
    <3>4. \A x \in Resources : Steady(x)' =>
            /\ Steady(x) /\ row'[x] = row[x]
            /\ Held(grants', request[t].u, x) = Held(grants, request[t].u, x)
      BY <1>1, <2>3
    <3>5. LevelHalf(t)' BY <3>1, <3>3, <3>4, RereadKept
    <3> QED BY <3>2, <3>5
  <2> QED BY <1>5, <2>2, <2>5, <2>6 DEF Consistent
<1> QED BY <1>8, <1>9 DEF IInv

LEMMA CommitLevelKeeps ==
  ASSUME IInv, NEW s \in Sessions, Access!CommitLevel(s)
  PROVE  IInv'
<1> DEFINE q == request[s]
<1>1. /\ q.op = "apply" /\ q.pc = "commit"
      /\ grants' = (grants \ q.gone) \cup q.new
      /\ level' = [level EXCEPT ![q.u] = q.level]
      /\ request' = [request EXCEPT ![s] = Access!Idle]
      /\ UNCHANGED <<status, asked, row, past>>
  BY DEF Access!CommitLevel
<1>2. Sound /\ Types /\ Mentioned /\ LevelSound(s) BY DEF IInv, Sound
<1>3. q \in Application BY <1>1, <1>2, Ops
<1>4. PICK u \in Users, lvl \in Access!Levels : u = q.u /\ lvl = q.level
  BY <1>3 DEF Application
<1>5. q.gone \in SUBSET Grants /\ q.new \in SUBSET Grants BY <1>3 DEF Application
<1>6. /\ u \in Access!Members \ {Admin}
      /\ \A v \in Users, x \in Resources :
           /\ Held(q.gone, v, x) # {} => v = u
           /\ Held(q.new, v, x) # {} => v = u /\ x \in asked
  BY <1>1, <1>2, <1>4 DEF LevelSound
<1>7. \A v, x :
        Held(grants', v, x) = (Held(grants, v, x) \ Held(q.gone, v, x)) \cup Held(q.new, v, x)
  BY <1>1 DEF Held
<1>8. level' \in [Users -> Access!Levels] /\ level'[u] = lvl /\ \A v \in Users : v # u =>
        level'[v] = level[v]
  BY <1>1, <1>2, <1>4 DEF Types
<1>9. /\ request' \in [Sessions -> {Access!Idle} \cup Creation \cup Application \cup Deletion]
      /\ request'[s].op = "none" /\ \A t \in Sessions : t # s => request'[t] = request[t]
      /\ CreationSound(s)' /\ LevelSound(s)' /\ CreationHalf(s)' /\ LevelHalf(s)'
  BY <1>1, <1>2, Ended
<1>10. Types' BY <1>1, <1>2, <1>5, <1>8, <1>9 DEF Types
<1>11. Access!Members' = Access!Members /\ Access!Active' = Access!Active
      /\ Access!Active \subseteq Users
  BY <1>1 DEF Access!Members, Access!Active
<1>12. ASSUME NEW v \in Users, v # u, NEW x \in Resources
       PROVE  Held(grants', v, x) = Held(grants, v, x)
  <2>1. Held(q.gone, v, x) = {} /\ Held(q.new, v, x) = {} BY <1>6, <1>12
  <2> QED BY <1>7, <2>1
<1>13. Mentioned'
  <2>1. ASSUME NEW v \in Users, NEW x \in Resources, Held(grants', v, x) # {}
        PROVE  v \in Access!Members /\ x \in asked
    <3>1. Held(grants, v, x) # {} \/ Held(q.new, v, x) # {} BY <1>7, <2>1
    <3> QED BY <1>2, <1>6, <3>1 DEF Mentioned
  <2>2. \A v \in Users : level'[v] # "none" => v \in Access!Members
    BY <1>2, <1>6, <1>8 DEF Mentioned
  <2> QED BY <1>1, <1>2, <1>11, <2>1, <2>2 DEF Mentioned, Access!Exists
<1>14. \A t \in Sessions : row'[request[t].r] = row[request[t].r] BY <1>1
<1>15. Sound' BY <1>1, <1>2, <1>9, <1>10, <1>11, <1>13, <1>14, SoundKept
<1>16. ASSUME Calm' PROVE Consistent'
  <2>1. /\ Calm /\ Consistent /\ LevelHalf(s)
        /\ \A t \in Sessions :
             request[t].op # "create" /\ (t # s /\ request[t].op = "apply" =>
               request[t].u # u)
    BY <1>1, <1>4, <1>16 DEF IInv, Calm, Consistent, Apart
  <2>2. Apart' BY <1>9, <2>1 DEF Apart, Consistent
  <2>3. ASSUME NEW x \in Resources, Steady(x)' PROVE Steady(x)
    <3>1. InDeletion(x) => InDeletion(x)' BY <1>1, <1>9 DEF InDeletion
    <3> QED BY <1>1, <2>3, <3>1 DEF Steady, Access!Exists
  <2>4. ASSUME NEW v \in Access!Active', NEW x \in Resources, Steady(x)'
        PROVE  Held(grants', v, x) = DueGrants(v, x)'
    <3>1. Held(grants, v, x) = DueGrants(v, x) /\ Access!Exists(x)
      BY <1>11, <2>1, <2>3, <2>4 DEF Consistent, LevelsHeld, InCreation, Steady
    <3>2. row'[x] = row[x] BY <1>1
    <3>3. CASE v # u
      <4>1. DueGrants(v, x)' = DueGrants(v, x)
        BY <1>8, <1>11, <3>2, <3>3 DEF DueGrants, ByLevel
      <4> QED BY <1>11, <1>12, <3>1, <3>3, <4>1
    <3>4. CASE v = u
      <4>1. Reread(q, x) BY <1>1, <1>4, <1>11, <2>1, <2>3, <2>4, <3>4 DEF LevelHalf
      <4>2. Kind[x] \in {"dashboard", "alarm"} \/ row[x] = Admin
        BY <1>2, <3>1 DEF Mentioned
      <4>3. CASE x \in Access!SharedResources(u)
        <5>1. Held(q.gone, u, x) = Held(grants, u, x)
              /\ Held(q.new, u, x) = Access!PermissionsFor(lvl)
          BY <1>1, <1>4, <4>1, <4>3 DEF Reread
        <5>2. Held(grants', u, x) = Access!PermissionsFor(lvl) BY <1>7, <5>1
        <5>3. Kind[x] # "group" /\ u \notin {Admin, row[x]}
          BY <1>6, <4>2, <4>3 DEF Access!SharedResources
        <5>4. DueGrants(u, x)' = Access!PermissionsFor(lvl)
          BY <1>8, <3>2, <5>3 DEF DueGrants, ByLevel
        <5> QED BY <3>4, <5>2, <5>4
      <4>4. CASE x \notin Access!SharedResources(u)
        <5>1. Held(q.gone, u, x) = {} /\ Held(q.new, u, x) = {}
          BY <1>1, <1>4, <4>1, <4>4 DEF Reread
        <5>2. Held(grants', u, x) = Held(grants, u, x) BY <1>7, <5>1
        <5>3. Kind[x] = "group" \/ row[x] = u BY <3>1, <4>4 DEF Access!SharedResources
        <5>4. DueGrants(u, x)' = DueGrants(u, x) BY <3>2, <5>3 DEF DueGrants, ByLevel
        <5> QED BY <3>1, <3>4, <5>2, <5>4
      <4> QED BY <4>3, <4>4
    <3> QED BY <3>3, <3>4
  <2>5. LevelsHeld' BY <2>4 DEF LevelsHeld
  <2>6. ASSUME NEW t \in Sessions, t # s PROVE CreationHalf(t)' /\ LevelHalf(t)'
    <3>1. request'[t] = request[t] /\ request[t].op # "create" /\ LevelHalf(t)
      BY <1>9, <2>1, <2>6 DEF Consistent
    <3>2. CreationHalf(t)' BY <3>1 DEF CreationHalf
    <3>3. request[t].op = "apply" => request[t].u \in Users /\ request[t].u # u
      BY <1>2, <2>1, <2>6, Ops DEF Application
    <3>4. request[t].op = "apply" => \A x \in Resources : Steady(x)' =>
            /\ Steady(x) /\ row'[x] = row[x]
            /\ Held(grants', request[t].u, x) = Held(grants, request[t].u, x)
      BY <1>1, <1>12, <2>3, <3>3
    <3>5. LevelHalf(t)' BY <1>11, <3>1, <3>4, RereadKept
    <3> QED BY <3>2, <3>5
  <2> QED BY <1>9, <2>2, <2>5, <2>6 DEF Consistent
<1> QED BY <1>15, <1>16 DEF IInv

-----------------------------------------------------------------------------
(* The limits of the users.                                                *)

Dashboards(u) == {r \in Resources : Kind[r] = "dashboard" /\ row[r] \in {u}}

\* The instance counts as the library does.
LEMMA AccessCounts ==
  \A S : (Access!IsFiniteSet(S) <=> IsFiniteSet(S)) /\ Access!Cardinality(S) = Cardinality(S)
BY DEF Access!IsFiniteSet, IsFiniteSet, Access!Cardinality, Cardinality

\* What a user has, counted.
LEMMA CountIs ==
  ASSUME Access!AccessAssumption, NEW u \in Users
  PROVE  Access!Count({u}) = Cardinality(Dashboards(u)) /\ Access!Count({u}) \in Nat
      /\ IsFiniteSet(Dashboards(u))
<1>1. Access!Count({u}) = Cardinality(Dashboards(u)) BY AccessCounts DEF Access!Count, Dashboards
<1>2. Dashboards(u) \in SUBSET Resources BY DEF Dashboards
<1>3. IsFiniteSet(Dashboards(u)) BY <1>2, FS_Subset, AccessCounts DEF Access!AccessAssumption
<1> QED BY <1>1, <1>3, FS_CardinalityType

LEMMA CountShrinks ==
  ASSUME Access!AccessAssumption, Nobody \notin Users, NEW u \in Users,
         \A x \in Resources : row'[x] \in {row[x], Nobody}
  PROVE  Access!Count({u})' <= Access!Count({u}) /\ Access!Count({u}) \in Nat
      /\ Access!Count({u})' \in Nat
<1>1. Dashboards(u)' \in SUBSET Dashboards(u) BY DEF Dashboards
<1>2. Access!Count({u}) = Cardinality(Dashboards(u)) /\ Access!Count({u}) \in Nat
      /\ IsFiniteSet(Dashboards(u))
  BY CountIs
<1>3. Access!Count({u})' = Cardinality(Dashboards(u)') BY AccessCounts DEF Access!Count, Dashboards
<1>4. IsFiniteSet(Dashboards(u)') /\ Cardinality(Dashboards(u)') <= Cardinality(Dashboards(u))
  BY <1>1, <1>2, FS_Subset
<1>5. Cardinality(Dashboards(u)') \in Nat BY <1>4, FS_CardinalityType
<1> QED BY <1>2, <1>3, <1>4, <1>5

\* A row that is new to its owner.
LEMMA CountGrows ==
  ASSUME Access!AccessAssumption, NEW u \in Users, NEW w \in Users, NEW r \in Resources,
         \A x \in Resources : row'[x] = IF x = r THEN w ELSE row[x]
  PROVE  /\ Access!Count({u}) \in Nat /\ Access!Count({u})' \in Nat
         /\ Access!Count({u})' <= IF Kind[r] = "dashboard" /\ u = w THEN Access!Count({u}) + 1
              ELSE Access!Count({u})
<1>1. Access!Count({u}) = Cardinality(Dashboards(u)) /\ Access!Count({u}) \in Nat
      /\ IsFiniteSet(Dashboards(u))
  BY CountIs
<1>2. Access!Count({u})' = Cardinality(Dashboards(u)') BY AccessCounts DEF Access!Count, Dashboards
<1> DEFINE S == IF Kind[r] = "dashboard" /\ u = w THEN Dashboards(u) \cup {r} ELSE Dashboards(u)
<1>3. Dashboards(u)' \in SUBSET S BY DEF Dashboards
<1>4. /\ IsFiniteSet(S)
      /\ Cardinality(S) <= IF Kind[r] = "dashboard" /\ u = w THEN Access!Count({u}) + 1
           ELSE Access!Count({u})
      /\ Cardinality(S) \in Nat
  <2>1. CASE Kind[r] = "dashboard" /\ u = w
    <3>1. /\ IsFiniteSet(Dashboards(u) \cup {r})
          /\ Cardinality(Dashboards(u) \cup {r}) \in {Access!Count({u}), Access!Count({u}) + 1}
      BY <1>1, FS_AddElement
    <3> QED BY <1>1, <2>1, <3>1
  <2>2. CASE ~(Kind[r] = "dashboard" /\ u = w) BY <1>1, <2>2
  <2> QED BY <2>1, <2>2
<1> HIDE DEF S
<1>5. IsFiniteSet(Dashboards(u)') /\ Cardinality(Dashboards(u)') <= Cardinality(S)
  BY <1>3, <1>4, FS_Subset
<1>6. Cardinality(Dashboards(u)') \in Nat BY <1>5, FS_CardinalityType
<1> QED BY <1>1, <1>2, <1>4, <1>5, <1>6

\* The steps that add no row and check nothing.
LEMMA CapsKept ==
  ASSUME Access!AccessAssumption, IInv, Caps, NEW s \in Sessions,
         \A t \in Sessions : t # s => request'[t] = request[t],
         UNCHANGED <<status, limit>>, ~past'.crowded => ~past.crowded,
         request'[s].op = "create" =>
           /\ request[s].op = "create"
           /\ request'[s].u = request[s].u /\ request'[s].r = request[s].r
           /\ Unborn(request'[s]) => Unborn(request[s]),
         \A x \in Resources : row'[x] \in {row[x], Nobody}
  PROVE  Caps'
<1>1. Access!Limited' = Access!Limited /\ Access!Limited \subseteq Users
  BY DEF Access!Limited, Access!Members
<1>2. \A u \in Users : Access!Count({u})' <= Access!Count({u}) /\ Access!Count({u}) \in Nat
      /\ Access!Count({u})' \in Nat
  BY CountShrinks DEF Access!AccessAssumption
<1>3. \A u \in Access!Limited : limit[u] \in Nat BY <1>1 DEF Caps, Access!Limited
<1> SUFFICES ASSUME ~past'.crowded
             PROVE  /\ \A t, v \in Sessions :
                         request'[t].op = "create" /\ request'[v].op = "create" => t = v
                    /\ \A u \in Access!Limited : Access!Count({u})' <= limit[u]
                    /\ \A t \in Sessions : Capped(t)'
  BY <1>1 DEF Caps
<1>4. \A u \in Access!Limited : Access!Count({u}) <= limit[u] BY DEF Caps
<1>5. ASSUME NEW u \in Access!Limited PROVE Access!Count({u})' <= limit[u]
  <2>1. u \in Users BY <1>1
  <2>2. Access!Count({u})' <= Access!Count({u}) /\ Access!Count({u}) \in Nat
        /\ Access!Count({u})' \in Nat
    BY <1>2, <2>1
  <2> QED BY <1>3, <1>4, <2>2
<1>6. \A t, v \in Sessions : request'[t].op = "create" /\ request'[v].op = "create" => t = v
  BY DEF Caps
<1>7. ASSUME NEW t \in Sessions PROVE Capped(t)'
  <2> SUFFICES ASSUME request'[t].op = "create", Unborn(request'[t]),
                      Kind[request'[t].r] = "dashboard", NEW u \in Access!Limited, u = request'[t].u
               PROVE  Access!Count({u})' < limit[u]
    BY <1>1 DEF Capped, Unborn
  <2>1. /\ request[t].op = "create" /\ Unborn(request[t])
        /\ request[t].u = request'[t].u /\ request[t].r = request'[t].r
    BY DEF Unborn
  <2>2. u \in Users BY <1>1
  <2>3. Access!Count({u}) < limit[u] BY <2>1 DEF Caps, Capped
  <2>4. Access!Count({u})' <= Access!Count({u}) /\ Access!Count({u}) \in Nat
        /\ Access!Count({u})' \in Nat
    BY <1>2, <2>2
  <2> QED BY <1>3, <2>3, <2>4
<1> QED BY <1>5, <1>6, <1>7

LEMMA CreationStepsCap ==
  ASSUME Access!AccessAssumption, IInv, Caps, NEW s \in Sessions,
         \/ Access!Give(s) \/ Access!SelectMembers(s) \/ Access!SelectWhole(s)
              \/ Access!EndCreate(s) \/ Access!FailCreate(s)
         \/ \E m \in Users : Access!ShareWith(s, m)
  PROVE  Caps'
<1>1. Types BY DEF IInv, Sound
<1>2. request[s].op = "create"
  BY DEF Access!Give, Access!SelectMembers, Access!SelectWhole, Access!EndCreate,
      Access!FailCreate, Access!ShareWith
<1>3. request[s] \in Creation /\ request[s].r \in Resources BY <1>1, <1>2, Ops DEF Creation
<1>4. UNCHANGED <<status, limit>>
  BY DEF Access!Give, Access!SelectMembers, Access!SelectWhole, Access!EndCreate,
      Access!FailCreate, Access!ShareWith
<1>5. past'.crowded = past.crowded
  <2>1. CASE Access!FailCreate(s) BY <1>1, <2>1 DEF Access!FailCreate, Types
  <2>2. CASE ~Access!FailCreate(s)
    BY <2>2
    DEF Access!Give, Access!SelectMembers, Access!SelectWhole, Access!EndCreate,
        Access!ShareWith
  <2> QED BY <2>1, <2>2
<1>6. \A x \in Resources : row'[x] \in {row[x], Nobody}
  <2>1. CASE Access!FailCreate(s) BY <1>1, <1>3, <2>1 DEF Access!FailCreate, Types
  <2>2. CASE ~Access!FailCreate(s)
    BY <2>2
    DEF Access!Give, Access!SelectMembers, Access!SelectWhole, Access!EndCreate,
        Access!ShareWith
  <2> QED BY <2>1, <2>2
<1>7. /\ \A t \in Sessions : t # s => request'[t] = request[t]
      /\ request'[s].op = "create" =>
           /\ request'[s].u = request[s].u /\ request'[s].r = request[s].r
           /\ Unborn(request'[s]) => Unborn(request[s])
  <2>1. CASE Access!EndCreate(s) \/ Access!FailCreate(s)
    <3>1. request' = [request EXCEPT ![s] = Access!Idle]
      BY <2>1 DEF Access!EndCreate, Access!FailCreate
    <3> QED BY <1>1, <3>1, Ended
  <2>2. CASE Access!Give(s) BY <1>1, <1>3, <2>2 DEF Access!Give, Types, Creation, Unborn
  <2>3. CASE Access!SelectMembers(s)
    BY <1>1, <1>3, <2>3 DEF Access!SelectMembers, Types, Creation, Unborn
  <2>4. CASE Access!SelectWhole(s)
    BY <1>1, <1>3, <2>4 DEF Access!SelectWhole, Types, Creation, Unborn
  <2>5. ASSUME NEW m \in Users, Access!ShareWith(s, m)
        PROVE  /\ \A t \in Sessions : t # s => request'[t] = request[t]
               /\ request'[s].op = "create" =>
                    /\ request'[s].u = request[s].u /\ request'[s].r = request[s].r
                    /\ Unborn(request'[s]) => Unborn(request[s])
    BY <1>1, <1>3, <2>5 DEF Access!ShareWith, Types, Creation, Unborn
  <2> QED BY <2>1, <2>2, <2>3, <2>4, <2>5
<1> QED BY <1>2, <1>4, <1>5, <1>6, <1>7, CapsKept

LEMMA OtherStepsCap ==
  ASSUME Access!AccessAssumption, IInv, Caps, NEW s \in Sessions,
         \/ Access!Revoke(s) \/ Access!GiveShared(s) \/ Access!CommitLevel(s) \/ Access!FailLevel(s)
         \/ Access!EndDelete(s) \/ Access!FailDelete(s)
         \/ \E u \in Users, r \in Resources : Access!Delete(s, u, r)
         \/ \E u \in Users, lvl \in Access!Levels : Access!SetAccess(s, u, lvl)
  PROVE  Caps'
<1>1. Types BY DEF IInv, Sound
<1>2. UNCHANGED <<status, limit>>
  BY DEF Access!Revoke, Access!GiveShared, Access!CommitLevel, Access!FailLevel,
      Access!EndDelete, Access!FailDelete, Access!Delete, Access!SetAccess
<1>3. past'.crowded = past.crowded
  <2>1. CASE Access!FailDelete(s) BY <1>1, <2>1 DEF Access!FailDelete, Types
  <2>2. ASSUME NEW u \in Users, NEW lvl \in Access!Levels, Access!SetAccess(s, u, lvl)
        PROVE  past'.crowded = past.crowded
    BY <1>1, <2>2 DEF Access!SetAccess, Access!Overlaps, Types
  <2> QED
    BY <2>1, <2>2
    DEF Access!Revoke, Access!GiveShared, Access!CommitLevel, Access!FailLevel,
        Access!EndDelete, Access!Delete
<1>4. \A x \in Resources : row'[x] \in {row[x], Nobody}
  <2>1. CASE Access!EndDelete(s)
    <3>1. request[s].r \in Resources BY <1>1, <2>1, Ops DEF Access!EndDelete, Deletion
    <3> QED BY <1>1, <2>1, <3>1 DEF Access!EndDelete, Types
  <2>2. ASSUME NEW u \in Users, NEW r \in Resources, Access!Delete(s, u, r)
        PROVE  \A x \in Resources : row'[x] \in {row[x], Nobody}
    BY <1>1, <2>2 DEF Access!Delete, Types
  <2> QED
    BY <2>1, <2>2
    DEF Access!Revoke, Access!GiveShared, Access!CommitLevel, Access!FailLevel,
        Access!FailDelete, Access!SetAccess
<1>5. (\A t \in Sessions : t # s => request'[t] = request[t]) /\ request'[s].op # "create"
  <2>1. CASE Access!CommitLevel(s) \/ Access!FailLevel(s) \/ Access!EndDelete(s)
        \/ Access!FailDelete(s)
    <3>1. request' = [request EXCEPT ![s] = Access!Idle]
      BY <2>1 DEF Access!CommitLevel, Access!FailLevel, Access!EndDelete, Access!FailDelete
    <3> QED BY <1>1, <3>1, Ended
  <2>2. CASE Access!Revoke(s) \/ Access!GiveShared(s)
    <3>1. request[s] \in Application /\ request[s].op = "apply"
      BY <1>1, <2>2, Ops DEF Access!Revoke, Access!GiveShared
    <3>2. CASE Access!Revoke(s) BY <1>1, <3>1, <3>2 DEF Access!Revoke, Types, Application
    <3>3. CASE Access!GiveShared(s)
      BY <1>1, <3>1, <3>3 DEF Access!GiveShared, Types, Application
    <3> QED BY <2>2, <3>2, <3>3
  <2>3. ASSUME NEW u \in Users, NEW r \in Resources, Access!Delete(s, u, r)
        PROVE  (\A t \in Sessions : t # s =>
               request'[t] = request[t]) /\ request'[s].op # "create"
    BY <1>1, <2>3 DEF Access!Delete, Types
  <2>4. ASSUME NEW u \in Users, NEW lvl \in Access!Levels, Access!SetAccess(s, u, lvl)
        PROVE  (\A t \in Sessions : t # s =>
               request'[t] = request[t]) /\ request'[s].op # "create"
    BY <1>1, <2>4 DEF Access!SetAccess, Access!Applying, Types
  <2> QED BY <2>1, <2>2, <2>3, <2>4
<1> QED BY <1>2, <1>3, <1>4, <1>5, CapsKept

LEMMA CheckCreateCaps ==
  ASSUME Access!AccessAssumption, IInv, Caps, NEW s \in Sessions, NEW u \in Users,
         NEW r \in Resources,
         NEW whole \in BOOLEAN, Access!CheckCreate(s, u, r, whole)
  PROVE  Caps'
<1>1. Types BY DEF IInv, Sound
<1>2. /\ UNCHANGED <<status, limit, row>>
      /\ Kind[r] = "dashboard" => Access!CanCreate(u)
      /\ past'.crowded = (past.crowded \/ Access!Doing("create") # {})
      /\ request'[s].op = "create" /\ request'[s].u = u /\ request'[s].r = r
      /\ \A t \in Sessions : t # s => request'[t] = request[t]
  BY <1>1 DEF Access!CheckCreate, Types
<1>3. Access!Limited' = Access!Limited /\ Access!Members' = Access!Members
  BY <1>2 DEF Access!Limited, Access!Members
<1> SUFFICES ASSUME ~past'.crowded
             PROVE  /\ \A t, v \in Sessions :
                         request'[t].op = "create" /\ request'[v].op = "create" => t = v
                    /\ \A v \in Access!Limited : Access!Count({v})' <= limit[v]
                    /\ \A t \in Sessions : Capped(t)'
  BY <1>2, <1>3 DEF Caps
<1>4. ~past.crowded /\ \A t \in Sessions : request[t].op # "create"
  BY <1>1, <1>2 DEF Access!Doing
<1>5. \A v : Access!Count({v})' = Access!Count({v}) BY <1>2 DEF Access!Count
<1>6. \A v \in Access!Limited : Access!Count({v})' <= limit[v] BY <1>4, <1>5 DEF Caps
<1>7. ASSUME NEW t \in Sessions PROVE Capped(t)'
  <2>1. CASE t # s BY <1>2, <1>4, <2>1 DEF Capped
  <2>2. CASE t = s
    <3>1. Kind[r] = "dashboard" /\ u \in Access!Limited => Access!Count({u})' < limit[u]
      BY <1>2, <1>5 DEF Access!CanCreate, Access!Limited
    <3> QED BY <1>2, <1>3, <2>2, <3>1 DEF Capped
  <2> QED BY <2>1, <2>2
<1> QED BY <1>2, <1>4, <1>6, <1>7

\* A row is added.
LEMMA RowsCap ==
  ASSUME Access!AccessAssumption, IInv, Caps, NEW s \in Sessions,
         Access!Insert(s) \/ Access!CommitWhole(s)
  PROVE  Caps'
<1>1. Types BY DEF IInv, Sound
<1>2. /\ request[s].op = "create" /\ Unborn(request[s])
      /\ UNCHANGED <<status, limit, past>>
      /\ row' = [row EXCEPT ![request[s].r] = request[s].u]
  BY DEF Access!Insert, Access!CommitWhole, Unborn
<1>3. PICK w \in Users, r \in Resources :
        request[s] \in Creation /\ w = request[s].u /\ r = request[s].r
  BY <1>1, <1>2, Ops DEF Creation
<1>4. /\ \A t \in Sessions : t # s => request'[t] = request[t]
      /\ request'[s].op = "create" => ~Unborn(request'[s])
  <2>1. CASE Access!Insert(s) BY <1>1, <1>3, <2>1 DEF Access!Insert, Types, Creation, Unborn
  <2>2. CASE Access!CommitWhole(s)
    <3>1. request' = [request EXCEPT ![s] = Access!Idle] BY <2>2 DEF Access!CommitWhole
    <3> QED BY <1>1, <3>1, Ended
  <2> QED BY <2>1, <2>2
<1>5. \A x \in Resources : row'[x] = IF x = r THEN w ELSE row[x] BY <1>1, <1>2, <1>3 DEF Types
<1>6. Access!Limited' = Access!Limited /\ Access!Limited \subseteq Users
  BY <1>2 DEF Access!Limited, Access!Members
<1>7. \A u \in Access!Limited : limit[u] \in Nat BY <1>6 DEF Caps, Access!Limited
<1> SUFFICES ASSUME ~past.crowded
             PROVE  /\ \A t, v \in Sessions :
                         request'[t].op = "create" /\ request'[v].op = "create" => t = v
                    /\ \A u \in Access!Limited : Access!Count({u})' <= limit[u]
                    /\ \A t \in Sessions : Capped(t)'
  BY <1>2, <1>6 DEF Caps
<1>8. ASSUME NEW u \in Access!Limited PROVE Access!Count({u})' <= limit[u]
  <2>1. /\ Access!Count({u}) \in Nat /\ Access!Count({u})' \in Nat
        /\ Access!Count({u})' <= IF Kind[r] = "dashboard" /\ u = w THEN Access!Count({u}) + 1
             ELSE Access!Count({u})
    BY <1>5, <1>6, CountGrows
  <2>2. Access!Count({u}) <= limit[u] BY DEF Caps
  <2>3. Kind[r] = "dashboard" /\ u = w => Access!Count({u}) < limit[u]
    BY <1>2, <1>3 DEF Caps, Capped
  <2> QED BY <1>7, <2>1, <2>2, <2>3
<1>9. \A t \in Sessions : t # s => request[t].op # "create" BY <1>2 DEF Caps
<1>10. \A t \in Sessions : Capped(t)' BY <1>4, <1>9 DEF Capped, Unborn
<1> QED BY <1>4, <1>8, <1>9, <1>10

LEMMA UsersCap ==
  ASSUME Access!AccessAssumption, IInv, Caps, NEW s \in Sessions, NEW u \in Users,
         Access!RemoveUser(s, u) \/ \E lvl \in Access!Levels : Access!AddUser(s, u, lvl)
  PROVE  Caps'
<1>1. Types BY DEF IInv, Sound
<1>2. Access!Limited \subseteq Users BY DEF Access!Limited, Access!Members
<1>3. \A v \in Access!Limited : limit[v] \in Nat BY <1>2 DEF Caps, Access!Limited
<1>4. CASE Access!RemoveUser(s, u)
  <2>1. /\ u \in Access!Members /\ limit' = [limit EXCEPT ![u] = NoLimit]
        /\ status' = [status EXCEPT ![u] = "deleted"]
        /\ request' = request
        /\ past'.crowded = (past.crowded \/ Access!Doing("create") # {})
        /\ \A x \in Resources : row'[x] \in {row[x], Nobody}
    BY <1>1, <1>4 DEF Access!RemoveUser, Types
  <2>2. /\ limit' \in [Users -> Nat \cup {NoLimit}] /\ Access!Limited' \subseteq Access!Limited
        /\ \A v \in Access!Limited' : limit'[v] = limit[v]
        /\ \A v \in Users : status'[v] = "absent" => limit'[v] = NoLimit
    BY <1>1, <2>1 DEF Access!Limited, Access!Members, Caps, Types
  <2> SUFFICES ASSUME ~past'.crowded
               PROVE  /\ \A t \in Sessions : request'[t].op # "create"
                      /\ \A v \in Access!Limited' : Access!Count({v})' <= limit'[v]
    BY <2>2 DEF Caps, Capped
  <2>3. ~past.crowded /\ \A t \in Sessions : request[t].op # "create"
    BY <1>1, <2>1 DEF Access!Doing
  <2>4. ASSUME NEW v \in Access!Limited' PROVE Access!Count({v})' <= limit'[v]
    <3>1. v \in Users /\ v \in Access!Limited /\ limit'[v] = limit[v] /\ limit[v] \in Nat
      BY <1>2, <1>3, <2>2
    <3>2. Access!Count({v})' <= Access!Count({v}) /\ Access!Count({v}) \in Nat
          /\ Access!Count({v})' \in Nat
      BY <2>1, <3>1, CountShrinks DEF Access!AccessAssumption
    <3>3. Access!Count({v}) <= limit[v] BY <2>3, <3>1 DEF Caps
    <3> QED BY <3>1, <3>2, <3>3
  <2> QED BY <2>1, <2>3, <2>4
<1>5. ASSUME NEW lvl \in Access!Levels, Access!AddUser(s, u, lvl) PROVE Caps'
  <2>1. /\ status[u] = "absent" /\ status' = [status EXCEPT ![u] = "active"]
        /\ UNCHANGED <<limit, row>> /\ past'.crowded = past.crowded
        /\ request'[s].op = "apply"
        /\ \A t \in Sessions : t # s => request'[t] = request[t]
    BY <1>1, <1>5 DEF Access!AddUser, Access!Overlaps, Access!Applying, Types
  <2>2. Access!Limited' = Access!Limited
    BY <1>1, <2>1 DEF Access!Limited, Access!Members, Caps, Types
  <2>3. \A v : Access!Count({v})' = Access!Count({v}) BY <2>1 DEF Access!Count
  <2>4. \A v \in Users : status'[v] = "absent" => limit'[v] = NoLimit
    BY <1>1, <2>1 DEF Caps, Types
  <2>5. ASSUME ~past.crowded, NEW t \in Sessions PROVE Capped(t)'
    BY <2>1, <2>2, <2>3, <2>5 DEF Caps, Capped, Unborn
  <2> QED BY <2>1, <2>2, <2>3, <2>4, <2>5 DEF Caps
<1> QED BY <1>4, <1>5

-----------------------------------------------------------------------------
(* Theorems.                                                               *)

LEMMA InitSound == ASSUME Access!AccessAssumption, Access!Init PROVE IInv
<1>1. Types BY DEF Access!AccessAssumption, Access!Init, Types, Access!Levels, Access!Idle
<1>2. \A s \in Sessions : request[s].op = "none" BY DEF Access!Init, Access!Idle
<1>3. /\ \A r \in Resources : row[r] = Nobody
      /\ \A u \in Users, r \in Resources : Held(grants, u, r) = {}
  BY HeldNone DEF Access!Init
<1>4. status[Admin] = "active" /\ \A u \in Users : level[u] = "none"
  BY DEF Access!Init, Access!AccessAssumption
<1>5. Sound
  BY <1>1, <1>2, <1>3, <1>4
  DEF Sound, Mentioned, Access!Exists, CreatedOnce, CreationSound, LevelSound
<1>6. Consistent
  BY <1>2, <1>3
  DEF Consistent, Apart, LevelsHeld, Steady, Access!Exists, CreationHalf, LevelHalf
<1> QED BY <1>5, <1>6 DEF IInv

LEMMA NextSound == ASSUME Access!AccessAssumption, IInv, [Access!Next]_Access!vars PROVE IInv'
<1>1. CASE UNCHANGED Access!vars
  <2>1. /\ UNCHANGED <<status, level, asked, row, grants, request, past>>
        /\ Access!Members' = Access!Members /\ Access!Active' = Access!Active
    BY <1>1 DEF Access!vars, Access!Members, Access!Active
  <2>2. Sound' <=> Sound
    BY <2>1 DEF Sound, Types, Mentioned, Access!Exists, CreatedOnce, CreationSound, LevelSound
  <2>3. \A r \in Resources : (Steady(r)' <=> Steady(r)) /\ (InCreation(r)' <=> InCreation(r))
    BY <2>1 DEF Steady, Access!Exists, InDeletion, InCreation
  <2>4. \A u \in Access!Active, r \in Resources : DueGrants(u, r)' = DueGrants(u, r)
    BY <2>1 DEF DueGrants, ByLevel
  <2>5. (Apart /\ LevelsHeld)' <=> Apart /\ LevelsHeld
    BY <2>1, <2>3, <2>4 DEF Apart, LevelsHeld
  <2>6. ASSUME Consistent, NEW s \in Sessions PROVE CreationHalf(s)' /\ LevelHalf(s)'
    <3>1. request'[s] = request[s] /\ CreationHalf(s) /\ LevelHalf(s)
      BY <2>1, <2>6 DEF Consistent
    <3>2. Steady(request[s].r)' <=> Steady(request[s].r)
      BY <2>1 DEF Steady, Access!Exists, InDeletion
    <3>3. CreationHalf(s)' BY <2>1, <3>1, <3>2, HalfKept
    <3>4. LevelHalf(s)' BY <2>1, <2>3, <3>1, RereadKept
    <3> QED BY <3>3, <3>4
  <2> QED BY <2>1, <2>2, <2>5, <2>6 DEF IInv, Calm, Consistent
<1>2. ASSUME NEW s \in Sessions, NEW u \in Users, NEW r \in Resources, Access!Delete(s, u, r)
      PROVE  IInv'
  BY <1>2, DeletionKeeps
<1>3. ASSUME NEW s \in Sessions, NEW u \in Users, NEW r \in Resources, NEW whole \in BOOLEAN,
             Access!CheckCreate(s, u, r, whole)
      PROVE  IInv'
  BY <1>3, CheckCreateKeeps
<1>4. ASSUME NEW s \in Sessions, NEW u \in Users, NEW lvl \in Access!Levels,
             Access!SetAccess(s, u, lvl) \/ Access!AddUser(s, u, lvl)
      PROVE  IInv'
  BY <1>4, SetAccessKeeps, AddUserKeeps
<1>5. ASSUME NEW s \in Sessions, NEW u \in Users, Access!ShareWith(s, u) \/ Access!RemoveUser(s, u)
      PROVE  IInv'
  BY <1>5, ShareWithKeeps, RemoveUserKeeps
<1>6. ASSUME NEW s \in Sessions, \/ Access!Insert(s) \/ Access!Give(s) \/ Access!SelectMembers(s)
      \/ Access!EndCreate(s)
                                 \/ Access!SelectWhole(s) \/ Access!CommitWhole(s)
                                      \/ Access!FailCreate(s)
      PROVE  IInv'
  BY <1>6, InsertKeeps, GiveKeeps, SelectMembersKeeps, EndCreateKeeps, CommitWholeKeeps,
     FailCreateKeeps
<1>7. ASSUME NEW s \in Sessions, \/ Access!Revoke(s) \/ Access!GiveShared(s)
      \/ Access!CommitLevel(s) \/ Access!FailLevel(s)
                                 \/ Access!EndDelete(s) \/ Access!FailDelete(s)
      PROVE  IInv'
  BY <1>7, RereadsKeep, CommitLevelKeeps, FailLevelKeeps, EndDeleteKeeps, FailDeleteKeeps
<1> QED BY <1>1, <1>2, <1>3, <1>4, <1>5, <1>6, <1>7 DEF Access!Next

\* The requests are typed, ask only for what may be asked for, and, while
\* nothing has been mixed or has failed, are where their steps have left the grants.
THEOREM AccessInvariance == ASSUME Access!AccessAssumption PROVE Access!Spec => []IInv
<1>1. Access!Init => IInv BY InitSound
<1>2. IInv /\ [Access!Next]_Access!vars => IInv' BY NextSound
<1> QED BY <1>1, <1>2, PTL DEF Access!Spec

\* The tables of the organization keep their types under every request.
THEOREM AccessTyped == ASSUME Access!AccessAssumption PROVE Access!Spec => []Access!TypeOK
<1>1. IInv => Access!TypeOK
  <2> SUFFICES ASSUME IInv PROVE Access!TypeOK OBVIOUS
  <2>1. Types BY DEF IInv, Sound
  <2>2. \A s \in Sessions : request[s].op \in {"none", "create", "apply", "delete"}
    BY <2>1, Ops
  <2> QED BY <2>1, <2>2 DEF Access!TypeOK, Types, Grants
<1> QED BY <1>1, AccessInvariance, PTL

\* When every request has ended, the grants of each user are those of its level
\* over what the others share, and all of them over its own and for the
\* administrator (OrganizationAccess::setAccess, shareWithOrganization, destroy),
\* unless levels were set while something was being created or a request
\* that is no transaction failed.
THEOREM LevelsKept == ASSUME Access!AccessAssumption PROVE Access!Spec => []Access!LevelKept
<1>1. IInv => Access!LevelKept
  <2> SUFFICES ASSUME IInv, \A s \in Sessions :
        request[s] = Access!Idle, ~past.mixed, ~past.failed,
                      NEW u \in Access!Active, NEW r \in Resources, Access!Exists(r)
               PROVE  {p \in Access!Permissions : <<u, p, r>> \in grants} =
                        IF u \in {Admin, row[r]} THEN Access!Permissions
                        ELSE IF Kind[r] = "group" THEN {} ELSE Access!PermissionsFor(level[u])
    BY DEF Access!LevelKept
  <2>1. Consistent BY DEF IInv, Calm
  <2>2. \A s \in Sessions : request[s].op = "none" BY DEF Access!Idle
  <2>3. Steady(r) /\ ~InCreation(r) BY <2>2 DEF Steady, InDeletion, InCreation
  <2>4. Held(grants, u, r) = DueGrants(u, r) BY <2>1, <2>3 DEF Consistent, LevelsHeld
  <2> QED BY <2>4 DEF Held, DueGrants, ByLevel
<1> QED BY <1>1, AccessInvariance, PTL

LEMMA InitCaps == ASSUME Access!AccessAssumption, Access!Init PROVE Caps
<1>1. \A s \in Sessions : request[s].op = "none" BY DEF Access!Init, Access!Idle
<1>2. /\ limit \in [Users -> Nat \cup {NoLimit}]
      /\ \A u \in Users : status[u] = "absent" => limit[u] = NoLimit
  BY DEF Access!Init, Access!AccessAssumption
<1>3. ASSUME NEW u \in Access!Limited PROVE Access!Count({u}) <= limit[u]
  <2>1. u \in Users /\ limit[u] \in Nat BY <1>2 DEF Access!Limited, Access!Members
  <2>2. Dashboards(u) = {} BY <2>1 DEF Dashboards, Access!Init, Access!AccessAssumption
  <2>3. Access!Count({u}) = 0 BY <2>1, <2>2, CountIs, FS_EmptySet
  <2> QED BY <2>1, <2>3
<1> QED BY <1>1, <1>2, <1>3 DEF Caps, Capped

LEMMA NextCaps ==
  ASSUME Access!AccessAssumption, IInv, Caps, [Access!Next]_Access!vars
  PROVE  Caps'
<1>1. CASE UNCHANGED Access!vars
  BY <1>1 DEF Access!vars, Caps, Capped, Unborn, Access!Count, Access!Limited, Access!Members
<1>2. ASSUME NEW s \in Sessions, NEW u \in Users, NEW r \in Resources, NEW whole \in BOOLEAN,
             Access!CheckCreate(s, u, r, whole)
      PROVE  Caps'
  BY <1>2, CheckCreateCaps
<1>3. ASSUME NEW s \in Sessions, NEW u \in Users,
             Access!RemoveUser(s, u) \/ \E lvl \in Access!Levels : Access!AddUser(s, u, lvl)
      PROVE  Caps'
  BY <1>3, UsersCap
<1>4. ASSUME NEW s \in Sessions, Access!Insert(s) \/ Access!CommitWhole(s) PROVE Caps'
  BY <1>4, RowsCap
<1>5. ASSUME NEW s \in Sessions,
             \/ Access!Give(s) \/ Access!SelectMembers(s) \/ Access!SelectWhole(s)
                  \/ Access!EndCreate(s) \/ Access!FailCreate(s)
             \/ \E m \in Users : Access!ShareWith(s, m)
      PROVE  Caps'
  BY <1>5, CreationStepsCap
<1>6. ASSUME NEW s \in Sessions,
             \/ Access!Revoke(s) \/ Access!GiveShared(s) \/ Access!CommitLevel(s)
                  \/ Access!FailLevel(s)
             \/ Access!EndDelete(s) \/ Access!FailDelete(s)
             \/ \E u \in Users, r \in Resources : Access!Delete(s, u, r)
             \/ \E u \in Users, lvl \in Access!Levels : Access!SetAccess(s, u, lvl)
      PROVE  Caps'
  BY <1>6, OtherStepsCap
<1> QED BY <1>1, <1>2, <1>3, <1>4, <1>5, <1>6 DEF Access!Next

\* Nobody with a limit of its own has more dashboards than it (canCreate, read
\* before the row is inserted), whoever deletes, fails, joins or leaves
\* meanwhile, unless two checks overlapped or a user was removed during one.
THEOREM OwnLimitsKept ==
  ASSUME Access!AccessAssumption
  PROVE  Access!Spec => []Access!OwnLimitKept
<1>1. Access!Init => IInv /\ Caps BY InitSound, InitCaps
<1>2. IInv /\ Caps /\ [Access!Next]_Access!vars => IInv' /\ Caps' BY NextSound, NextCaps
<1>3. Caps => Access!OwnLimitKept BY DEF Caps, Access!OwnLimitKept
<1> QED BY <1>1, <1>2, <1>3, PTL DEF Access!Spec
=============================================================================
