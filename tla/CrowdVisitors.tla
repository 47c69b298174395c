----------------------------- MODULE CrowdVisitors -----------------------------
(***************************************************************************)
(* The types of the visitors of one user.  CrowdClassificationETL derives  *)
(* them from the detections of a week or a month and from the types stored *)
(* before, and stores them in crowd_visitors: in chunks, each one deleted  *)
(* and inserted again in two transactions.  The report of unique visitors  *)
(* counts the new ones from the dates of those rows.  The weeks of a range *)
(* are enqueued together and run on as many workers as there are.          *)
(***************************************************************************)
EXTENDS Integers, FiniteSets, FiniteSetsExt, Functions

CONSTANTS
  Workers,       \* processes that run classifications
  Visitors,
  Hours,         \* hours a visitor may be around in a day
  Length,        \* days of a window: 7 or a month in the code
  ResidentDays,  \* resident_threshold_days (2 in the code)
  TouristHours,  \* tourist_min_hours (3 in the code)
  ChunkSize,     \* chunk_size of __store_visitors (5000 in the code)
  MaxDay,        \* last day of the model
  MaxStays,      \* bound on the detections
  MaxRuns        \* bound on the classifications

VisitorsAssumption ==
  /\ Hours \subseteq Nat
  /\ {Length, ResidentDays, TouristHours, ChunkSize, MaxDay, MaxStays, MaxRuns}
       \subseteq Nat
  /\ ChunkSize > 0

VARIABLES
  today,
  stays,   \* the detections: visitor, day and hours between first and last
  table,   \* the rows of crowd_visitors; equal rows count as one
  job,     \* job[w]: the classification of a worker
  runs,    \* classifications so far
  report,  \* the report of unique visitors: one in the model
  first,   \* history: the day a visitor was first stored
  best,    \* history: the highest type stored for a visitor
  apart    \* history: no two classifications overlapped and none was killed

vars == <<today, stays, table, job, runs, report, first, best, apart>>

Types == {"ShortTermVisitor", "Tourist", "Resident"}
Idle == [pc |-> "idle"]
Never == MaxDay + 1

TypeOK ==
  /\ today \in 0 .. MaxDay
  /\ stays \subseteq [visitor : Visitors, day : 0 .. MaxDay, hours : Hours]
  /\ table \subseteq [visitor : Visitors, type : Types \ {"ShortTermVisitor"}, day : 0 .. MaxDay]
  /\ \A w \in Workers : job[w].pc \in {"idle", "deleting", "inserting"}
  /\ runs \in 0 .. MaxRuns
  /\ report.pc \in {"none", "classified", "created", "published"}
  /\ first \in [Visitors -> 0 .. Never] /\ best \in [Visitors -> Types] /\ apart \in BOOLEAN

Init ==
  /\ today = 0 /\ stays = {} /\ table = {}
  /\ job = [w \in Workers |-> Idle] /\ runs = 0
  /\ report = [pc |-> "none"]
  /\ first = [v \in Visitors |-> Never] /\ best = [v \in Visitors |-> "ShortTermVisitor"]
  /\ apart = TRUE

-----------------------------------------------------------------------------
(* Classification.                                                         *)

Between(from, to) == {s \in stays : from <= s.day /\ s.day < to}
Stored == {r.visitor : r \in table}

\* previous_visitor_types: of several rows of a visitor, any may come last.
Previous ==
  {types \in [Stored -> Types] :
     \A v \in Stored : [visitor |-> v, type |-> types[v]] \in
                         {[visitor |-> r.visitor, type |-> r.type] : r \in table}}

Days(v, seen) == Cardinality({s.day : s \in {x \in seen : x.visitor = v}})
Total(v, seen) == MapThenSumSet(LAMBDA s : s.hours, {x \in seen : x.visitor = v})

\* Mutant of TypeOf: only the detections count.
TypeOfAnew(v, seen, previous) ==
  IF Days(v, seen) > ResidentDays THEN "Resident"
  ELSE IF Total(v, seen) > TouristHours THEN "Tourist" ELSE "ShortTermVisitor"

\* classify_visitor: who was stored before is a resident from now on.
TypeOf(v, seen, previous) ==
  IF Days(v, seen) > ResidentDays \/ v \in DOMAIN previous THEN "Resident"
  ELSE IF Total(v, seen) > TouristHours THEN "Tourist" ELSE "ShortTermVisitor"

\* extract and transform, for the window that begins at a day; short term
\* visitors are not stored.
Classify(w, from, previous) ==
  LET seen == Between(from, from + Length)
      type == [v \in {s.visitor : s \in seen} |-> TypeOf(v, seen, previous)]
      kept == {v \in DOMAIN type : type[v] # "ShortTermVisitor"}
  IN  /\ job[w] = Idle /\ runs < MaxRuns /\ seen # {}
      /\ from + Length <= today
      /\ runs' = runs + 1
      /\ job' = IF kept = {} THEN job
                ELSE [job EXCEPT ![w] = [pc |-> "deleting", left |-> Restrict(type, kept)]]
      /\ apart' = (apart /\ \A v \in Workers : job[v] = Idle)
      /\ UNCHANGED <<today, stays, table, report, first, best>>

\* create_or_update_crowd_visitors_batch, first transaction: the rows of the
\* visitors of a chunk are deleted ...
DeleteChunk(w, chunk) ==
  /\ job[w].pc = "deleting"
  /\ chunk \subseteq DOMAIN job[w].left
  /\ Cardinality(chunk) = Min({ChunkSize, Cardinality(DOMAIN job[w].left)})
  /\ table' = {r \in table : r.visitor \notin chunk}
  /\ job' = [job EXCEPT ![w] = [pc |-> "inserting", left |-> @.left, chunk |-> chunk]]
  /\ UNCHANGED <<today, stays, runs, report, first, best, apart>>

\* ... and in the second one inserted, created and updated now.
InsertChunk(w) ==
  LET Type(v) == job[w].left[v]
      rest == (DOMAIN job[w].left) \ job[w].chunk
  IN  /\ job[w].pc = "inserting"
      /\ table' = table \cup {[visitor |-> v, type |-> Type(v), day |-> today] : v \in job[w].chunk}
      /\ job' = [job EXCEPT ![w] = IF rest = {} THEN Idle
                                   ELSE [pc |-> "deleting", left |-> Restrict(@.left, rest)]]
      /\ first' = [v \in Visitors |-> IF v \in job[w].chunk THEN Min({first[v], today}) ELSE first[v]]
      /\ best' = [v \in Visitors |-> IF v \notin job[w].chunk \/ best[v] = "Resident" THEN best[v]
                                     ELSE Type(v)]
      /\ UNCHANGED <<today, stays, runs, report, apart>>

\* A worker is killed or its database fails.
Killed(w) ==
  /\ job[w] # Idle
  /\ job' = [job EXCEPT ![w] = Idle] /\ apart' = FALSE
  /\ UNCHANGED <<today, stays, table, runs, report, first, best>>

-----------------------------------------------------------------------------
(* The report of unique visitors, of the window that ends today.           *)

\* The period that ends a day, and its visitors.
Period(end) == Between(end - Length, end)
Unique(end) == {s.visitor : s \in Period(end)}

\* transform: the stored types are read and the visitors classified again ...
ReportClassified(previous) ==
  LET Are(t) == {v \in Unique(today) : TypeOf(v, Period(today), previous) = t}
  IN  /\ report.pc = "none" /\ Unique(today) # {} /\ today >= Length
      /\ report' = [pc |-> "classified", start |-> today - Length, stored |-> Stored,
                    unique |-> Unique(today),
                    residents |-> Are("Resident"), tourists |-> Are("Tourist")]
      /\ UNCHANGED <<today, stays, table, job, runs, first, best, apart>>

\* Rows created, or updated, since a day: both dates are those of the insertion.
Since(day) == {r.visitor : r \in {x \in table : x.day >= day}}

\* ... then the rows created since the start of the period are read ...
ReportCreated ==
  /\ report.pc = "classified"
  /\ report' = [pc |-> "created", start |-> report.start, stored |-> report.stored,
                unique |-> report.unique, new |-> Since(report.start),
                residents |-> report.residents, tourists |-> report.tourists]
  /\ UNCHANGED <<today, stays, table, job, runs, first, best, apart>>

\* Residents, or tourists, updated since then or not stored before.
New(are, updated) == (are \cap updated) \cup (are \ report.stored)

\* ... and those updated since; the same counts go to every entity.
ReportUpdated ==
  LET updated == Since(report.start)
  IN  /\ report.pc = "created"
      /\ report' = [pc |-> "published", start |-> report.start, unique |-> report.unique,
                    new |-> report.new, residents |-> New(report.residents, updated),
                    tourists |-> New(report.tourists, updated)]
      /\ UNCHANGED <<today, stays, table, job, runs, first, best, apart>>

-----------------------------------------------------------------------------

\* A visitor is around for some hours of today.
Stay(v, h) ==
  /\ Cardinality(stays) < MaxStays /\ \A s \in stays : s.visitor = v => s.day # today
  /\ stays' = stays \cup {[visitor |-> v, day |-> today, hours |-> h]}
  /\ UNCHANGED <<today, table, job, runs, report, first, best, apart>>

NextDay ==
  /\ today < MaxDay /\ today' = today + 1
  /\ UNCHANGED <<stays, table, job, runs, report, first, best, apart>>

Next ==
  \/ \E v \in Visitors, h \in Hours : Stay(v, h)
  \/ NextDay
  \/ \E w \in Workers :
       \/ \E from \in 0 .. MaxDay, previous \in Previous : Classify(w, from, previous)
       \/ \E chunk \in SUBSET Visitors : DeleteChunk(w, chunk)
       \/ InsertChunk(w) \/ Killed(w)
  \/ \E previous \in Previous : ReportClassified(previous)
  \/ ReportCreated \/ ReportUpdated

Spec == Init /\ [][Next]_vars

-----------------------------------------------------------------------------
(* Properties.                                                             *)

\* A visitor who was ever stored stays stored, in one row and never below
\* the highest type so far, if the classifications did not overlap: deleting
\* and inserting each chunk again loses nothing of what was known.
ClassificationKept ==
  apart /\ (\A w \in Workers : job[w] = Idle) =>
    \A v \in Visitors : best[v] # "ShortTermVisitor" =>
      {r.type : r \in {x \in table : x.visitor = v}} = {best[v]}

\* "Un visitante que cambia de tipo (por ejemplo, de turista a residente)
\* cuenta como «residente nuevo», pero no como «visitante único nuevo»": who
\* was stored before the window is not among its new visitors.
ReclassifiedIsNotNew ==
  report.pc = "published" => \A v \in report.new : first[v] >= report.start

=============================================================================
