------------------------------ MODULE CrowdFlows ------------------------------
(***************************************************************************)
(* What the crowd ETLs make of the detections of a window: the visits to   *)
(* each entity (ProcessVisitorsTransform) and the transits between them    *)
(* (CrowdFlowsMunicipalityTransform), each over all visitors and over      *)
(* those of each type.  Both publish their figures, entity by entity and   *)
(* attribute by attribute, while detections keep arriving and visitors     *)
(* keep being classified.  Averages are left out: they come from the same  *)
(* durations as the minimum and the maximum.                               *)
(***************************************************************************)
EXTENDS Integers, FiniteSets, FiniteSetsExt, Sequences, SequencesExt

CONSTANTS
  Entities,  \* the CrowdFlowEvent entities of the requests
  Visitors,
  Windows,   \* the windows <<start_date, end_date>> of the requests
  MaxTime,   \* last instant of the model
  MaxRows,   \* bound on the detections
  MaxRuns    \* bound on the executions of the ETLs

FlowsAssumption ==
  /\ {MaxTime, MaxRows, MaxRuns} \subseteq Nat
  /\ Windows \subseteq (0 .. MaxTime) \X (0 .. MaxTime)

VARIABLES
  rows,   \* the detections in the time series, in the order they were stored
  type,   \* the type stored for each visitor (crowd_visitors)
  job,    \* the execution that has extracted and transformed its window
  runs,   \* executions so far
  broker  \* broker[k][id]: the attributes ETL k has published of an entity

vars == <<rows, type, job, runs, broker>>

Types == {"Tourist", "Resident", "ShortTermVisitor"}
All == "All"
Classes == Types \cup {All}
Jobs == {"visits", "flows"}
Attributes == Classes \X {"count", "unique", "durations"}
Unset == [a \in Attributes |-> IF a[2] = "durations" THEN {} ELSE 0]
Idle == [result |-> {}]
Ids == Entities \X Entities  \* a flow, or an entity: <<e, e>>

TypeOK ==
  /\ rows \in Seq([visitor : Visitors, entity : Entities, time : 0 .. MaxTime])
  /\ Len(rows) <= MaxRows
  /\ type \in [Visitors -> Types]
  /\ job = Idle \/ (job.etl \in Jobs /\ job.window \in Windows)
  /\ runs \in 0 .. MaxRuns
  /\ \A k \in Jobs, id \in Ids, c \in Classes : broker[k][id][<<c, "count">>] \in 0 .. MaxRows

Init ==
  /\ rows = <<>>
  /\ type = [v \in Visitors |-> "ShortTermVisitor"]
  /\ job = Idle /\ runs = 0
  /\ broker = [k \in Jobs |-> [id \in Ids |-> Unset]]

-----------------------------------------------------------------------------
(* The detections of a visitor in a window, ordered by time.               *)

Seen(w) == {i \in DOMAIN rows : w[1] <= rows[i].time /\ rows[i].time <= w[2]}
VisitorsOf(w) == {rows[i].visitor : i \in Seen(w)}

\* sort_values("timeinstant"): equal times stay in the order of the rows.
Path(v, w) ==
  LET Before(i, j) == rows[i].time < rows[j].time \/ (rows[i].time = rows[j].time /\ i < j)
  IN  [n \in 1 .. Cardinality({i \in Seen(w) : rows[i].visitor = v}) |->
         rows[SetToSortSeq({i \in Seen(w) : rows[i].visitor = v}, Before)[n]]]

\* shift(1): the first detection has no origin and counts as a new visit.
NewVisit(p, i) == i = 1 \/ p[i].entity # p[i - 1].entity

-----------------------------------------------------------------------------
(* ProcessVisitorsTransform.                                               *)

\* The rows with the visit_id of row i: visits are numbered along the rows
\* sorted by entity and time.
Visit(p, i) ==
  {j \in i .. Len(p) : /\ p[j].entity = p[i].entity
                       /\ \A k \in i + 1 .. j : p[k].entity = p[i].entity => ~NewVisit(p, k)}

\* __calculate_visitor_flow: a visit lasts from its first origin, the last
\* detection elsewhere; its origin is the first one that is not missing.
VisitsOf(v, w) ==
  LET p == Path(v, w)
  IN  {[visitor |-> v, entity |-> p[i].entity, first |-> i,
        origin   |-> IF i > 1 THEN p[i - 1].entity
                     ELSE IF Cardinality(Visit(p, 1)) > 1 THEN p[1].entity ELSE "nan",
        duration |-> p[Max(Visit(p, i))].time - p[Max({1, i - 1})].time] :
       i \in {n \in DOMAIN p : NewVisit(p, n)}}

Visits(w) == UNION {VisitsOf(v, w) : v \in VisitorsOf(w)}

OfClass(xs, c, types) == IF c = All THEN xs ELSE {x \in xs : types[x.visitor] = c}

\* The attributes of a payload: a duration over nothing is left out.
Figures(id, c, xs, timed) ==
  {[id |-> id, name |-> <<c, "count">>, value |-> Cardinality(xs)]}
  \cup {[id |-> id, name |-> <<c, "durations">>, value |-> {y.duration : y \in timed}] :
           x \in timed}

Unique(id, c, xs) ==
  {[id |-> id, name |-> <<c, "unique">>, value |-> Cardinality({x.visitor : x \in xs})]}

\* The result starts from the durations, of the visits whose origin is their
\* entity; the counts are merged into it from the left.  A class without
\* visits at an entity leaves no figures.
VisitResult(w, types) ==
  LET Timed(xs) == {x \in xs : x.origin = x.entity}
      At(e, c) == OfClass({x \in Visits(w) : x.entity = e}, c, types)
  IN  UNION {Figures(<<x[1], x[1]>>, x[2], At(x[1], x[2]), Timed(At(x[1], x[2])))
               \cup Unique(<<x[1], x[1]>>, x[2], At(x[1], x[2])) :
             x \in {y \in Entities \X Classes : Timed(At(y[1], All)) # {} /\ At(y[1], y[2]) # {}}}

-----------------------------------------------------------------------------
(* CrowdFlowsMunicipalityTransform.                                        *)

\* Mutant of TransitsOf: the detections at the same entity are not left out.
TransitsOfRows(v, w) ==
  LET p == Path(v, w)
  IN  {[visitor |-> v, from |-> p[i - 1].entity, to |-> p[i].entity, first |-> i,
        duration |-> p[i].time - p[i - 1].time] : i \in 2 .. Len(p)}

\* __calculate_visitor_flow and __add_time_difference: the detections at
\* another entity than the one before; the first has no origin to group by.
TransitsOf(v, w) ==
  LET p == Path(v, w)
  IN  {[visitor |-> v, from |-> p[i - 1].entity, to |-> p[i].entity, first |-> i,
        duration |-> p[i].time - p[i - 1].time] :
       i \in {n \in DOMAIN p : n > 1 /\ NewVisit(p, n)}}

Transits(w) == UNION {TransitsOf(v, w) : v \in VisitorsOf(w)}

\* __aggregate_by_origin_entity, whatever the aggregation mode: the flows
\* that leave an entity and those that reach it; a sum over none is zero.
FlowResult(w, types) ==
  LET Between(o, d, c) == OfClass({x \in Transits(w) : x.from = o /\ x.to = d}, c, types)
      Around(e, c) == OfClass({x \in Transits(w) : e \in {x.from, x.to}}, c, types)
      Flow(id, c, xs) == Figures(id, c, xs, xs)
  IN  UNION ({Flow(<<x[1], x[2]>>, x[3], Between(x[1], x[2], x[3])) :
                x \in {y \in Entities \X Entities \X Classes : Between(y[1], y[2], y[3]) # {}}}
             \cup {Flow(<<x[1], x[1]>>, x[2], Around(x[1], x[2])) :
                     x \in {y \in Entities \X Classes : Around(y[1], All) # {}}})

Result(k, w) == IF k = "visits" THEN VisitResult(w, type) ELSE FlowResult(w, type)

-----------------------------------------------------------------------------
(* The steps of the ETLs.                                                  *)

\* A detection is stored, in the order of time or late.
Detect(v, e, t) ==
  /\ Len(rows) < MaxRows
  /\ rows' = Append(rows, [visitor |-> v, entity |-> e, time |-> t])
  /\ UNCHANGED <<type, job, runs, broker>>

\* CrowdClassificationETL changes the type of a visitor.
Classify(v, t) ==
  /\ type[v] # "Resident" /\ t \in {"Tourist", "Resident"} \ {type[v]}
  /\ type' = [type EXCEPT ![v] = t]
  /\ UNCHANGED <<rows, job, runs, broker>>

\* extract and transform, from the rows and the types of this moment.
\* Without rows, or without figures, nothing is published.
Extract(k, w) ==
  /\ job = Idle /\ runs < MaxRuns /\ Result(k, w) # {}
  /\ job' = [etl |-> k, window |-> w, result |-> Result(k, w)]
  /\ runs' = runs + 1
  /\ UNCHANGED <<rows, type, broker>>

Sent == {x.id : x \in job.result}

\* The attributes of an entity after its payload: those without a value are
\* not sent, and keep the one they had.
Updated(id) ==
  [a \in Attributes |->
     IF \E x \in job.result : x.id = id /\ x.name = a
     THEN (CHOOSE x \in job.result : x.id = id /\ x.name = a).value
     ELSE broker[job.etl][id][a]]

\* load and _send_to_iota: an entity the IoT Agent refuses does not stop the
\* next ones.  The entities of one ETL are written by its executions alone.
Load(refused) ==
  /\ job # Idle
  /\ broker' = [broker EXCEPT ![job.etl] =
       [id \in Ids |-> IF id \in Sent \ refused THEN Updated(id) ELSE @[id]]]
  /\ job' = Idle
  /\ UNCHANGED <<rows, type, runs>>

\* No scope, service or apikey for the user: nothing is sent.
NoService ==
  /\ job # Idle
  /\ job' = Idle
  /\ UNCHANGED <<rows, type, runs, broker>>

Next ==
  \/ \E v \in Visitors, e \in Entities, t \in 0 .. MaxTime : Detect(v, e, t)
  \/ \E v \in Visitors, t \in Types : Classify(v, t)
  \/ \E k \in Jobs, w \in Windows : Extract(k, w)
  \/ \E refused \in SUBSET Sent : Load(refused)
  \/ NoService

Spec == Init /\ [][Next]_vars

-----------------------------------------------------------------------------
(* Properties.                                                             *)

\* The visits to an entity are the transits that reach it and the visitors
\* first seen there: the two ETLs, each with its own reading of the
\* detections, agree on every window, for every class of visitors.
VisitsAreArrivals ==
  \A w \in Windows, e \in Entities, c \in Classes :
    Cardinality(OfClass({x \in Visits(w) : x.entity = e}, c, type))
      = Cardinality(OfClass({x \in Transits(w) : x.to = e}, c, type))
        + Cardinality({v \in VisitorsOf(w) : /\ Path(v, w)[1].entity = e
                                             /\ c \in {All, type[v]}})

\* "se calcula el total de visitas de cada entidad, también por categoría de
\* visitante": the published totals of the categories add up to the total.
\* The code does not keep this (see the README): no run checks it.
CategoriesAddUp ==
  \A e \in Entities :
    LET Count(c) == broker["visits"][<<e, e>>][<<c, "count">>]
    IN  Count(All) = MapThenSumSet(Count, Types)

=============================================================================
