---------------------------- MODULE LocationSync ----------------------------
(***************************************************************************)
(* The location that the entities of one device share.  Each notification  *)
(* of an entity goes through LocationStandarizer and LocationSynchronizer: *)
(* the newest location known is written to the realtime rows and the time  *)
(* series of the other entities, and the entity itself gets it from the    *)
(* jobs that its notification starts afterwards.  Notifications wait in a  *)
(* queue, come in any order, may be retried, and several workers overlap.  *)
(*                                                                         *)
(* A report changes what the broker knows of its entity at a new instant   *)
(* and its notification carries all of that, each attribute with the       *)
(* instant of its own last change.  The retries of a notification and its  *)
(* DLQ are in CbNotification; the races inside a realtime job, which is    *)
(* one step here, in RealtimeRows.  The entities are of types that have    *)
(* realtime jobs: all but CrowdFlowEvent.                                  *)
(***************************************************************************)
EXTENDS Integers, Sequences, FiniteSets

CONSTANTS
  Workers,    \* processes that handle notifications
  Entities,   \* the entities of the device
  Places,     \* values of a location
  None,       \* no value
  MaxReports, \* bound on the reports
  MaxFaults   \* bound on the calls that fail and the workers that die

LocationAssumption ==
  /\ Cardinality(Entities) > 1
  /\ None \notin Places
  /\ MaxReports \in Nat /\ MaxFaults \in Nat

VARIABLES
  now,      \* instant of the last report
  known,    \* known[e]: the attributes of entity e in the broker
  queue,    \* notifications that wait for a worker
  job,      \* job[w]: the notification worker w handles
  rows,     \* rows[e]: the entity_properties rows of the location of e
  series,   \* locations in the time series
  jobs,     \* realtime jobs that wait, of those that carry a location
  faults,   \* faults so far
  newest,   \* history: the newest location a notification carried
  past      \* history: what the code gives no guarantee after

vars == <<now, known, queue, job, rows, series, jobs, faults, newest, past>>

Time == 0 .. MaxReports
Location == [at : Places \cup {None}, ts : Time]
Unknown == [at |-> None, ts |-> 0]
Attributes == [location : Location, latlon : Location]
Idle == [pc |-> "idle"]

TypeOK ==
  /\ now \in Time
  /\ known \in [Entities -> Attributes]
  /\ \A n \in queue : n.entity \in Entities /\ n.attrs \in Attributes
  /\ \A w \in Workers : job[w].pc \in {"idle", "sync", "commit", "dispatch"}
  /\ \A e \in Entities : \A i \in DOMAIN rows[e] : rows[e][i] \in Location \ {Unknown}
  /\ series \subseteq [entity : Entities, location : Location]
  /\ jobs \subseteq [entity : Entities, location : Location]
  /\ faults \in 0 .. MaxFaults
  /\ newest \in Location
  /\ past \in [raced : BOOLEAN, older : BOOLEAN, missed : BOOLEAN, gap : BOOLEAN]

Init ==
  /\ now = 0
  /\ known = [e \in Entities |-> [location |-> Unknown, latlon |-> Unknown]]
  /\ queue = {}
  /\ job = [w \in Workers |-> Idle]
  /\ rows = [e \in Entities |-> <<>>]
  /\ series = {} /\ jobs = {}
  /\ faults = 0
  /\ newest = Unknown
  /\ past = [raced |-> FALSE, older |-> FALSE, missed |-> FALSE, gap |-> FALSE]

Fault == faults < MaxFaults /\ faults' = faults + 1

-----------------------------------------------------------------------------
(* The processors of a notification.                                       *)

\* LocationStandarizer: latitude and longitude, with the newer of their
\* instants, give the location unless it is newer or already the same.
Standardized(attrs) ==
  LET loc == attrs.location  latlon == attrs.latlon IN
  IF latlon = Unknown \/ latlon.at = loc.at \/ latlon.ts <= loc.ts THEN loc ELSE latlon

\* get_related_entities_attrs: of several rows, the last of the newest.
Related(e) ==
  LET newer == {i \in DOMAIN rows[e] : \A j \in DOMAIN rows[e] : rows[e][i].ts >= rows[e][j].ts}
  IN  IF newer = {} THEN 0 ELSE CHOOSE i \in newer : \A j \in newer : i >= j

\* __get_latest_location, over the entities other than e.  Several rows may be
\* of one instant: which comes first depends on the query.
Latest(e) ==
  LET found == {rows[x][Related(x)] : x \in {y \in Entities \ {e} : rows[y] # <<>>}}
  IN  IF found = {} THEN {Unknown} ELSE {l \in found : \A m \in found : l.ts >= m.ts}

\* __update_notification_location: the location that all the entities get.
Chosen(own, latest) == IF own = Unknown \/ own.ts < latest.ts THEN latest ELSE own

-----------------------------------------------------------------------------
(* The broker.                                                             *)

\* The entity notifies a new location, new coordinates or something else.
Report(e, attrs) ==
  /\ now < MaxReports
  /\ now' = now + 1
  /\ known' = [known EXCEPT ![e] = attrs]
  /\ queue' = queue \cup {[entity |-> e, attrs |-> attrs, sent |-> now']}
  /\ newest' = LET l == Standardized(attrs) IN IF l.ts > newest.ts THEN l ELSE newest
  /\ UNCHANGED <<job, rows, series, jobs, faults, past>>

ReportSomething(e) ==
  \/ Report(e, known[e])
  \/ \E p \in Places :
       \/ Report(e, [known[e] EXCEPT !.location = [at |-> p, ts |-> now + 1]])
       \/ Report(e, [known[e] EXCEPT !.latlon = [at |-> p, ts |-> now + 1]])

-----------------------------------------------------------------------------
(* EntitySync, for one entity.                                             *)

Newest(e) == IF rows[e] = <<>> THEN 0 ELSE rows[e][Related(e)].ts

\* The processors up to the choice of the location.  The code has no guarantee
\* after two writers overlap, or when the row of the entity itself, which it
\* does not look at, is newer than what it chooses.
Process(w, n) ==
  /\ job[w] = Idle
  /\ \E latest \in Latest(n.entity) :
       LET chosen == Chosen(Standardized(n.attrs), latest) IN
       /\ job' = [job EXCEPT ![w] =
            [pc |-> IF chosen = Unknown THEN "dispatch" ELSE "sync", n |-> n, loc |-> chosen,
             seen |-> [e \in Entities |-> IF rows[e] = <<>> THEN Unknown ELSE rows[e][Related(e)]],
             id |-> [e \in Entities |-> Related(e)]]]
       /\ past' = [past EXCEPT !.raced = @ \/ jobs # {} \/ \E v \in Workers : job[v] # Idle,
                               !.older = @ \/ chosen.ts < Newest(n.entity)]
  /\ queue' = queue \ {n}
  /\ UNCHANGED <<now, known, rows, series, jobs, faults, newest>>

\* Mutant of Behind: an entity without a location is left without one.
BehindOrAbsent(j) ==
  {e \in Entities \ {j.n.entity} : j.id[e] # 0 /\ j.seen[e].at # j.loc.at}

\* __sync_entity_locations skips an entity whose row has the value already.
Behind(j) == {e \in Entities \ {j.n.entity} : j.id[e] = 0 \/ j.seen[e].at # j.loc.at}

\* __sync_location_to_ts_database, which swallows every exception.
SyncSeries(w, failed) ==
  LET j == job[w] IN
  /\ j.pc = "sync"
  /\ failed \subseteq Behind(j)
  /\ IF failed = {} THEN UNCHANGED faults ELSE Fault
  /\ series' = series \cup {[entity |-> e, location |-> j.loc] : e \in Behind(j) \ failed}
  /\ past' = [past EXCEPT !.gap = @ \/ failed # {}]
  /\ job' = [job EXCEPT ![w].pc = "commit"]
  /\ UNCHANGED <<now, known, queue, rows, jobs, newest>>

\* The bulk insert and update of the rows, in one commit: nothing is compared
\* with what the rows have by then.
CommitLocations(w) ==
  LET j == job[w] IN
  /\ j.pc = "commit"
  /\ rows' = [e \in Entities |->
       IF e \notin Behind(j) THEN rows[e]
       ELSE IF j.id[e] = 0 THEN Append(rows[e], j.loc)
       ELSE [rows[e] EXCEPT ![j.id[e]] = j.loc]]
  /\ job' = [job EXCEPT ![w].pc = "dispatch"]
  /\ UNCHANGED <<now, known, queue, series, jobs, faults, newest, past>>

Own(j) == [entity |-> j.n.entity, location |-> j.loc]

\* _dispatch_jobs: the series of the entity and then its realtime job, whose
\* enqueueing may fail without consequence for the notification.
Dispatch(w, enqueued) ==
  LET j == job[w]  own == IF j.loc = Unknown THEN {} ELSE {Own(j)} IN
  /\ j.pc = "dispatch"
  /\ series' = series \cup own
  /\ IF enqueued THEN UNCHANGED faults ELSE own # {} /\ Fault
  /\ jobs' = IF enqueued THEN jobs \cup own ELSE jobs
  /\ past' = [past EXCEPT !.missed = @ \/ ~enqueued]
  /\ job' = [job EXCEPT ![w] = Idle]
  /\ UNCHANGED <<now, known, queue, rows, newest>>

\* The worker dies, an exception of the databases ends the job, or the series
\* of the entity fails: the notification is delivered again.  A failure in the
\* processors is not retried and is that of TransformFails in CbNotification.
Again(w) ==
  /\ job[w] # Idle
  /\ Fault
  /\ queue' = queue \cup {job[w].n}
  /\ job' = [job EXCEPT ![w] = Idle]
  /\ UNCHANGED <<now, known, rows, series, jobs, newest, past>>

\* update_entity_property: the first row, unless it is as new.
Update(r) ==
  IF rows[r.entity] = <<>> THEN <<r.location>>
  ELSE IF rows[r.entity][1].ts >= r.location.ts THEN rows[r.entity]
  ELSE [rows[r.entity] EXCEPT ![1] = r.location]

\* The realtime job of an entity.
Realtime(r) ==
  /\ jobs' = jobs \ {r}
  /\ rows' = [rows EXCEPT ![r.entity] = Update(r)]
  /\ UNCHANGED <<now, known, queue, job, series, faults, newest, past>>

\* update_entity logs an error and the message is acknowledged.
RealtimeFails(r) ==
  /\ Fault
  /\ jobs' = jobs \ {r}
  /\ past' = [past EXCEPT !.missed = TRUE]
  /\ UNCHANGED <<now, known, queue, job, rows, series, newest>>

Next ==
  \/ \E e \in Entities : ReportSomething(e)
  \/ \E w \in Workers :
       \/ \E n \in queue : Process(w, n)
       \/ \E failed \in SUBSET Entities : SyncSeries(w, failed)
       \/ CommitLocations(w)
       \/ \E enqueued \in BOOLEAN : Dispatch(w, enqueued)
       \/ Again(w)
  \/ \E r \in jobs : Realtime(r) \/ RealtimeFails(r)

Spec == Init /\ [][Next]_vars

-----------------------------------------------------------------------------
(* Properties.                                                             *)

Quiet == queue = {} /\ jobs = {} /\ \A w \in Workers : job[w] = Idle

\* "This processor synchronizes the location of an entity with the device
\* related entities": once nothing is left to do, every entity of the device
\* has one row, at the newest place any of them notified, in whatever order the
\* notifications came and however often they were repeated; unless two writers
\* overlapped, a realtime job was lost, or a notification was older than the row
\* of its own entity and newer than all the others.
Agreed ==
  Quiet /\ newest # Unknown /\ ~past.raced /\ ~past.older /\ ~past.missed =>
    \A e \in Entities : Len(rows[e]) = 1 /\ rows[e][1].at = newest.at

\* What a query of the present finds is also in the history of the entity.
InHistory ==
  ~past.gap =>
    \A e \in Entities : \A i \in DOMAIN rows[e] :
      [entity |-> e, location |-> rows[e][i]] \in series

\* Both, about the readers of a location.
LocationsAgree == Agreed /\ InHistory

=============================================================================
