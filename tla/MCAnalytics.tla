---------------------------- MODULE MCAnalytics -----------------------------
(***************************************************************************)
(* Small instances of the analytics and of the data they come from, for    *)
(* their safety: the crowd predictions, the anomaly models (runs that die, *)
(* and runs that fail), the queries of time series, the cache of the crowd *)
(* ETLs and their schedule (its calendar and its jobs), the flows and the  *)
(* classification of visitors, the importation of files (every kind of     *)
(* file, and two imports at a time), and the ingestion of the OTE archive, *)
(* which the module extends.  They share no state: part says which moves.  *)
(***************************************************************************)
EXTENDS MCOteIngestion, Sequences, TLC

CONSTANTS
  Twins,   \* two sessions, runs, visitors or processes: interchangeable
  None     \* no value

VARIABLES
  part,  \* the component that moves; those of the others rest
  day, data, weather, rows, lock, admin, promised, store, task, broken,
  pending, processed, sidecars, model, kills, errors, stored, request,
  answer, options, series, stage, failed, file, arrived, started, job,
  closed, late, cut, asked, all, version, queue, executions, runs, unsafe,
  type, broker, today, stays, table, report, first, best, apart, status,
  steps, entities, realtime, fate

allVars ==
  <<part, vars,
    day, data, weather, rows, lock, admin, promised, store, task, broken,
    pending, processed, sidecars, model, kills, errors, stored, request,
    answer, options, series, stage, failed, file, arrived, started, job,
    closed, late, cut, asked, all, version, queue, executions, runs, unsafe,
    type, broker, today, stays, table, report, first, best, apart, status,
    steps, entities, realtime, fate>>

Interchangeable == Permutations(Twins)

\* Two of the three detections are of the second entity.
Detected == [r \in {"r1", "r2", "r3"} |-> IF r = "r1" THEN "e1" ELSE "e2"]

\* Three months from a Monday; ranges of days within one, over two or all of
\* them, one of them reversed.
Quarter == <<31, 28, 31>>
Asked == {<<2, 10>>, <<0, 59>>, <<40, 33>>, <<5, 75>>, <<2, 3>>}
EveryEtl == {"visitors", "flows", "cache", "weekly", "monthly", "unique"}

\* Two files of anomaly points: the second repeats a time, has one more of
\* the same entity or of a second one, and a measure more than the first.
PointsOfOne == <<{<<"a", 1>>}, {<<"a", 1>>, <<"a", 2>>}>>
PointsOfTwo == <<{<<"a", 1>>}, {<<"a", 1>>, <<"b", 1>>}>>
MeasuresOf == <<{"m"}, {"m", "n"}>>

\* What is asked of the time series.
Asking == INSTANCE TimeSeriesRequests
Stopped == {"select", "page", "connection"}

\* Files with good rows, and with rows that lack a time, an entity, an owner,
\* a type or values, in each format.
Good(e) == [of |-> e, at |-> "good", owner |-> "both", typed |-> TRUE, filled |-> TRUE]
Lists ==
  LET Untimed(e) == [Good(e) EXCEPT !.at = "none"]
      Garbled(e) == [Good(e) EXCEPT !.at = "bad"]
      Owned(e, by) == [Good(e) EXCEPT !.owner = by]
      Untyped(e) == [Good(e) EXCEPT !.typed = FALSE]
      Blank(e) == [Good(e) EXCEPT !.filled = FALSE]
  IN  {<<Good("e1"), Good("e2")>>, <<Untimed("e1"), Good("e2")>>,
       <<Good("nobody"), Garbled("e1")>>, <<Owned("e1", "none"), Good("e2")>>,
       <<Owned("e1", "half"), Good("e2")>>, <<Blank("e1"), Untyped("e2")>>,
       <<Good("e1"), Good("e1")>>}
Files ==
  {[format |-> g, owned |-> TRUE, rows |-> r] :
     g \in {"csv", "geojson", "kml", "jsonld"}, r \in Lists}
  \cup {[format |-> g, owned |-> FALSE, rows |-> r] : g \in {"csv", "kml"}, r \in Lists}
  \cup {[format |-> g, owned |-> TRUE, rows |-> <<>>] : g \in {"other", "geojson"}}
FewFiles ==
  {[format |-> "csv", owned |-> TRUE, rows |-> r] :
     r \in {<<Good("e1"), Good("e2")>>,
            <<[Good("e2") EXCEPT !.at = "none"], [Good("e1") EXCEPT !.owner = "none"]>>}}
Failures == {"kill", "download", "broker", "series", "realtime", "delete"}

-----------------------------------------------------------------------------
(* The components.                                                         *)

Crowd == INSTANCE CrowdModel WITH
  Admins <- Twins, Events <- {{1}, {1, 2, 3}}, MaxDay <- 3, Window <- 2,
  FullAfter <- 2, LongHistory <- 2, MaxTrees <- 3, MaxRows <- 2,
  Faults <- {}, MaxFaults <- 0, run <- task, faults <- broken
Anomalies == INSTANCE AnomalyModel WITH
  Runs <- Twins, Files <- {1, 2}, Points <- PointsOfOne,
  Measures <- MeasuresOf, Regime <- 2, MaxKills <- 1, MaxErrors <- 0,
  run <- task
Learning == INSTANCE AnomalyModel WITH
  Runs <- Twins, Files <- {1, 2}, Points <- PointsOfTwo,
  Measures <- MeasuresOf, Regime <- 2, MaxKills <- 0, MaxErrors <- 1,
  run <- task
Queries == INSTANCE TimeSeriesQuery WITH
  Times <- Asking!Dates, Calendar <- Asking!Diary, Measures <- {"m", "n"},
  Requests <- Asking!AllRequests, PageCap <- 2, Second <- 2,
  Faults <- Stopped
Cache == INSTANCE CrowdDataCache WITH
  Workers <- Twins, Entities <- {"e1", "e2"}, Rows <- {"r1", "r2", "r3"},
  EntityOf <- Detected, Limit <- 1, MaxForced <- 1
Cut == INSTANCE EtlSchedule WITH
  Workers <- Twins, Users <- {}, Kinds <- EveryEtl, MonthLengths <- Quarter,
  FirstWeekday <- 0, Ranges <- Asked, MaxAsked <- 1
Etls == INSTANCE EtlSchedule WITH
  Workers <- Twins, Users <- {"u1"}, Kinds <- {"visitors"},
  MonthLengths <- Quarter, FirstWeekday <- 0,
  Ranges <- {<<2, 3>>, <<2, 4>>}, MaxAsked <- 2
Flows == INSTANCE CrowdFlows WITH
  Entities <- {"A", "B"}, Visitors <- Twins, Windows <- {<<0, 1>>},
  MaxTime <- 1, MaxRows <- 3, MaxRuns <- 1
Classified == INSTANCE CrowdVisitors WITH
  Workers <- {"w1"}, Visitors <- Twins, Hours <- {0, 4}, Length <- 2,
  ResidentDays <- 1, TouristHours <- 3, ChunkSize <- 1, MaxDay <- 3,
  MaxStays <- 3, MaxRuns <- 2
Import == INSTANCE DataImportation WITH
  Workers <- {"w1"}, Imports <- {"i1"}, Entities <- {"e1", "e2"},
  Nobody <- "nobody", Contents <- Files, Faults <- Failures, MaxFaults <- 2,
  faults <- broken
TwoImports == INSTANCE DataImportation WITH
  Workers <- Twins, Imports <- {"i1", "i2"}, Entities <- {"e1", "e2"},
  Nobody <- "nobody", Contents <- FewFiles, Faults <- Failures,
  MaxFaults <- 2, faults <- broken

ASSUME MCAnalyticsAssumption ==
  /\ OteIngestionAssumption
  /\ Crowd!Parameters
  /\ Anomalies!Parameters
  /\ Learning!Parameters
  /\ Queries!Parameters
  /\ Cache!CacheAssumption
  /\ Cut!ScheduleAssumption
  /\ Etls!ScheduleAssumption
  /\ Flows!FlowsAssumption
  /\ Classified!VisitorsAssumption
  /\ Import!ImportationAssumption
  /\ TwoImports!ImportationAssumption

OthersDumped ==
  <<part,
    day, data, weather, rows, lock, admin, promised, store, task, broken,
    pending, processed, sidecars, model, kills, errors, stored, request,
    answer, options, series, stage, failed, file, arrived, started, job,
    closed, late, cut, asked, all, version, queue, executions, runs, unsafe,
    type, broker, today, stays, table, report, first, best, apart, status,
    steps, entities, realtime, fate>>
StillDumped ==
  /\ day = 0 /\ data = 0 /\ weather = 0 /\ rows = 0 /\ lock = 0 /\ admin = 0
  /\ promised = 0 /\ store = 0 /\ task = 0 /\ broken = 0 /\ pending = 0
  /\ processed = 0 /\ sidecars = 0 /\ model = 0 /\ kills = 0 /\ errors = 0
  /\ stored = 0 /\ request = 0 /\ answer = 0 /\ options = 0 /\ series = 0
  /\ stage = 0 /\ failed = 0 /\ file = 0 /\ arrived = 0 /\ started = 0
  /\ job = 0 /\ closed = 0 /\ late = 0 /\ cut = 0 /\ asked = 0 /\ all = 0
  /\ version = 0 /\ queue = 0 /\ executions = 0 /\ runs = 0 /\ unsafe = 0
  /\ type = 0 /\ broker = 0 /\ today = 0 /\ stays = 0 /\ table = 0
  /\ report = 0 /\ first = 0 /\ best = 0 /\ apart = 0 /\ status = 0
  /\ steps = 0 /\ entities = 0 /\ realtime = 0 /\ fate = 0
OthersCrowd ==
  <<part, vars,
    pending, processed, sidecars, model, kills, errors, stored, request,
    answer, options, series, stage, failed, file, arrived, started, job,
    closed, late, cut, asked, all, version, queue, executions, runs, unsafe,
    type, broker, today, stays, table, report, first, best, apart, status,
    steps, entities, realtime, fate>>
StillCrowd ==
  /\ Init
  /\ pending = 0 /\ processed = 0 /\ sidecars = 0 /\ model = 0 /\ kills = 0
  /\ errors = 0 /\ stored = 0 /\ request = 0 /\ answer = 0 /\ options = 0
  /\ series = 0 /\ stage = 0 /\ failed = 0 /\ file = 0 /\ arrived = 0
  /\ started = 0 /\ job = 0 /\ closed = 0 /\ late = 0 /\ cut = 0
  /\ asked = 0 /\ all = 0 /\ version = 0 /\ queue = 0 /\ executions = 0
  /\ runs = 0 /\ unsafe = 0 /\ type = 0 /\ broker = 0 /\ today = 0
  /\ stays = 0 /\ table = 0 /\ report = 0 /\ first = 0 /\ best = 0
  /\ apart = 0 /\ status = 0 /\ steps = 0 /\ entities = 0 /\ realtime = 0
  /\ fate = 0
OthersAnomalies ==
  <<part, vars,
    day, data, weather, rows, admin, promised, store, broken, stored,
    request, answer, options, series, stage, failed, file, arrived, started,
    job, closed, late, cut, asked, all, version, queue, executions, runs,
    unsafe, type, broker, today, stays, table, report, first, best, apart,
    status, steps, entities, realtime, fate>>
StillAnomalies ==
  /\ Init
  /\ day = 0 /\ data = 0 /\ weather = 0 /\ rows = 0 /\ admin = 0
  /\ promised = 0 /\ store = 0 /\ broken = 0 /\ stored = 0 /\ request = 0
  /\ answer = 0 /\ options = 0 /\ series = 0 /\ stage = 0 /\ failed = 0
  /\ file = 0 /\ arrived = 0 /\ started = 0 /\ job = 0 /\ closed = 0
  /\ late = 0 /\ cut = 0 /\ asked = 0 /\ all = 0 /\ version = 0 /\ queue = 0
  /\ executions = 0 /\ runs = 0 /\ unsafe = 0 /\ type = 0 /\ broker = 0
  /\ today = 0 /\ stays = 0 /\ table = 0 /\ report = 0 /\ first = 0
  /\ best = 0 /\ apart = 0 /\ status = 0 /\ steps = 0 /\ entities = 0
  /\ realtime = 0 /\ fate = 0
OthersQueries ==
  <<part, vars,
    day, data, weather, rows, lock, admin, promised, store, task, broken,
    pending, processed, sidecars, model, kills, errors, file, arrived,
    started, job, closed, late, cut, asked, all, version, queue, executions,
    runs, unsafe, type, broker, today, stays, table, report, first, best,
    apart, status, steps, entities, realtime, fate>>
StillQueries ==
  /\ Init
  /\ day = 0 /\ data = 0 /\ weather = 0 /\ rows = 0 /\ lock = 0 /\ admin = 0
  /\ promised = 0 /\ store = 0 /\ task = 0 /\ broken = 0 /\ pending = 0
  /\ processed = 0 /\ sidecars = 0 /\ model = 0 /\ kills = 0 /\ errors = 0
  /\ file = 0 /\ arrived = 0 /\ started = 0 /\ job = 0 /\ closed = 0
  /\ late = 0 /\ cut = 0 /\ asked = 0 /\ all = 0 /\ version = 0 /\ queue = 0
  /\ executions = 0 /\ runs = 0 /\ unsafe = 0 /\ type = 0 /\ broker = 0
  /\ today = 0 /\ stays = 0 /\ table = 0 /\ report = 0 /\ first = 0
  /\ best = 0 /\ apart = 0 /\ status = 0 /\ steps = 0 /\ entities = 0
  /\ realtime = 0 /\ fate = 0
OthersCache ==
  <<part, vars,
    day, data, weather, rows, lock, admin, promised, store, task, broken,
    pending, processed, sidecars, model, kills, errors, stored, request,
    answer, options, stage, failed, asked, all, version, queue, executions,
    runs, unsafe, type, broker, today, stays, table, report, first, best,
    apart, status, steps, entities, realtime, fate>>
StillCache ==
  /\ Init
  /\ day = 0 /\ data = 0 /\ weather = 0 /\ rows = 0 /\ lock = 0 /\ admin = 0
  /\ promised = 0 /\ store = 0 /\ task = 0 /\ broken = 0 /\ pending = 0
  /\ processed = 0 /\ sidecars = 0 /\ model = 0 /\ kills = 0 /\ errors = 0
  /\ stored = 0 /\ request = 0 /\ answer = 0 /\ options = 0 /\ stage = 0
  /\ failed = 0 /\ asked = 0 /\ all = 0 /\ version = 0 /\ queue = 0
  /\ executions = 0 /\ runs = 0 /\ unsafe = 0 /\ type = 0 /\ broker = 0
  /\ today = 0 /\ stays = 0 /\ table = 0 /\ report = 0 /\ first = 0
  /\ best = 0 /\ apart = 0 /\ status = 0 /\ steps = 0 /\ entities = 0
  /\ realtime = 0 /\ fate = 0
OthersCut ==
  <<part, vars,
    day, data, weather, rows, lock, admin, promised, store, broken, pending,
    processed, sidecars, model, kills, errors, stored, request, answer,
    options, series, stage, failed, file, arrived, started, job, closed,
    late, cut, type, broker, today, stays, table, report, first, best,
    apart, status, steps, entities, realtime, fate>>
StillCut ==
  /\ Init
  /\ day = 0 /\ data = 0 /\ weather = 0 /\ rows = 0 /\ lock = 0 /\ admin = 0
  /\ promised = 0 /\ store = 0 /\ broken = 0 /\ pending = 0 /\ processed = 0
  /\ sidecars = 0 /\ model = 0 /\ kills = 0 /\ errors = 0 /\ stored = 0
  /\ request = 0 /\ answer = 0 /\ options = 0 /\ series = 0 /\ stage = 0
  /\ failed = 0 /\ file = 0 /\ arrived = 0 /\ started = 0 /\ job = 0
  /\ closed = 0 /\ late = 0 /\ cut = 0 /\ type = 0 /\ broker = 0
  /\ today = 0 /\ stays = 0 /\ table = 0 /\ report = 0 /\ first = 0
  /\ best = 0 /\ apart = 0 /\ status = 0 /\ steps = 0 /\ entities = 0
  /\ realtime = 0 /\ fate = 0
OthersFlows ==
  <<part, vars,
    day, data, weather, lock, admin, promised, store, task, broken, pending,
    processed, sidecars, model, kills, errors, stored, request, answer,
    options, series, stage, failed, file, arrived, started, closed, late,
    cut, asked, all, version, queue, executions, unsafe, today, stays,
    table, report, first, best, apart, status, steps, entities, realtime,
    fate>>
StillFlows ==
  /\ Init
  /\ day = 0 /\ data = 0 /\ weather = 0 /\ lock = 0 /\ admin = 0
  /\ promised = 0 /\ store = 0 /\ task = 0 /\ broken = 0 /\ pending = 0
  /\ processed = 0 /\ sidecars = 0 /\ model = 0 /\ kills = 0 /\ errors = 0
  /\ stored = 0 /\ request = 0 /\ answer = 0 /\ options = 0 /\ series = 0
  /\ stage = 0 /\ failed = 0 /\ file = 0 /\ arrived = 0 /\ started = 0
  /\ closed = 0 /\ late = 0 /\ cut = 0 /\ asked = 0 /\ all = 0
  /\ version = 0 /\ queue = 0 /\ executions = 0 /\ unsafe = 0 /\ today = 0
  /\ stays = 0 /\ table = 0 /\ report = 0 /\ first = 0 /\ best = 0
  /\ apart = 0 /\ status = 0 /\ steps = 0 /\ entities = 0 /\ realtime = 0
  /\ fate = 0
OthersClassified ==
  <<part, vars,
    day, data, weather, rows, lock, admin, promised, store, task, broken,
    pending, processed, sidecars, model, kills, errors, stored, request,
    answer, options, series, stage, failed, file, arrived, started, closed,
    late, cut, asked, all, version, queue, executions, unsafe, type, broker,
    status, steps, entities, realtime, fate>>
StillClassified ==
  /\ Init
  /\ day = 0 /\ data = 0 /\ weather = 0 /\ rows = 0 /\ lock = 0 /\ admin = 0
  /\ promised = 0 /\ store = 0 /\ task = 0 /\ broken = 0 /\ pending = 0
  /\ processed = 0 /\ sidecars = 0 /\ model = 0 /\ kills = 0 /\ errors = 0
  /\ stored = 0 /\ request = 0 /\ answer = 0 /\ options = 0 /\ series = 0
  /\ stage = 0 /\ failed = 0 /\ file = 0 /\ arrived = 0 /\ started = 0
  /\ closed = 0 /\ late = 0 /\ cut = 0 /\ asked = 0 /\ all = 0
  /\ version = 0 /\ queue = 0 /\ executions = 0 /\ unsafe = 0 /\ type = 0
  /\ broker = 0 /\ status = 0 /\ steps = 0 /\ entities = 0 /\ realtime = 0
  /\ fate = 0
OthersImport ==
  <<part, vars,
    day, data, weather, rows, lock, admin, promised, store, task, pending,
    processed, sidecars, model, kills, errors, request, answer, options,
    stage, failed, arrived, started, closed, late, cut, asked, all, version,
    executions, runs, unsafe, type, today, stays, table, report, first,
    best, apart>>
StillImport ==
  /\ Init
  /\ day = 0 /\ data = 0 /\ weather = 0 /\ rows = 0 /\ lock = 0 /\ admin = 0
  /\ promised = 0 /\ store = 0 /\ task = 0 /\ pending = 0 /\ processed = 0
  /\ sidecars = 0 /\ model = 0 /\ kills = 0 /\ errors = 0 /\ request = 0
  /\ answer = 0 /\ options = 0 /\ stage = 0 /\ failed = 0 /\ arrived = 0
  /\ started = 0 /\ closed = 0 /\ late = 0 /\ cut = 0 /\ asked = 0
  /\ all = 0 /\ version = 0 /\ executions = 0 /\ runs = 0 /\ unsafe = 0
  /\ type = 0 /\ today = 0 /\ stays = 0 /\ table = 0 /\ report = 0
  /\ first = 0 /\ best = 0 /\ apart = 0

InitAll ==
  \/ part = "dumps" /\ Init /\ StillDumped
  \/ part = "crowd" /\ Crowd!Init /\ StillCrowd
  \/ part = "anomalies" /\ Anomalies!Init /\ StillAnomalies
  \/ part = "learning" /\ Learning!Init /\ StillAnomalies
  \/ part = "queries" /\ Queries!Init /\ StillQueries
  \/ part = "cache" /\ Cache!Init /\ StillCache
  \/ part = "calendar" /\ Cut!Init /\ StillCut
  \/ part = "jobs" /\ Etls!Init /\ StillCut
  \/ part = "flows" /\ Flows!Init /\ StillFlows
  \/ part = "visitors" /\ Classified!Init /\ StillClassified
  \/ part = "files" /\ Import!Init /\ StillImport
  \/ part = "imports" /\ TwoImports!Init /\ StillImport

NextAll ==
  \/ part = "dumps" /\ Next /\ UNCHANGED OthersDumped
  \/ part = "crowd" /\ Crowd!Next /\ UNCHANGED OthersCrowd
  \/ part = "anomalies" /\ Anomalies!Next /\ UNCHANGED OthersAnomalies
  \/ part = "learning" /\ Learning!Next /\ UNCHANGED OthersAnomalies
  \/ part = "queries" /\ Queries!Next /\ UNCHANGED OthersQueries
  \/ part = "cache" /\ Cache!Next /\ UNCHANGED OthersCache
  \/ part = "calendar" /\ Cut!Next /\ UNCHANGED OthersCut
  \/ part = "jobs" /\ Etls!Next /\ UNCHANGED OthersCut
  \/ part = "flows" /\ Flows!Next /\ UNCHANGED OthersFlows
  \/ part = "visitors" /\ Classified!Next /\ UNCHANGED OthersClassified
  \/ part = "files" /\ Import!Next /\ UNCHANGED OthersImport
  \/ part = "imports" /\ TwoImports!Next /\ UNCHANGED OthersImport

SpecAll == InitAll /\ [][NextAll]_allVars

-----------------------------------------------------------------------------
(* Properties: those of each component, of the states where it moves.       *)

\* The type invariants of the components.
TypesOK ==
  /\ TypeOK
  /\ part = "crowd" => Crowd!TypeOK
  /\ part = "anomalies" => Anomalies!TypeOK
  /\ part = "learning" => Learning!TypeOK
  /\ part = "queries" => Queries!TypeOK
  /\ part = "cache" => Cache!TypeOK
  /\ part = "calendar" => Cut!TypeOK
  /\ part = "jobs" => Etls!TypeOK
  /\ part = "flows" => Flows!TypeOK
  /\ part = "visitors" => Classified!TypeOK
  /\ part = "files" => Import!TypeOK
  /\ part = "imports" => TwoImports!TypeOK

\* The bundle of the crowd models is sound: see CrowdModel.
BundleSound == part = "crowd" => Crowd!BundleSound

\* No anomaly model learns a point twice, whatever runs overlap or die.
LearnedOnce ==
  /\ part = "anomalies" => Anomalies!LearnedOnce
  /\ part = "learning" => Learning!LearnedOnce

\* The pages of Mintaka leave out of a range what the code says they may, and
\* either source of time series gives exactly the rows it should wherever it
\* reads the request as TimeScope does.
PagesWhole == part = "queries" => Queries!PagesWhole
AnswersExact == part = "queries" => Queries!AnswersExact

\* A cached hour leads its readers to every row of it.
RowsReachable == part = "cache" => Cache!RowsReachable

\* The windows of an ETL tile the days asked for, and each runs once.
WindowsOnce ==
  /\ part = "calendar" => Cut!WindowsOnce
  /\ part = "jobs" => Etls!WindowsOnce

\* A visit counted at a destination is an arrival there.
VisitsAreArrivals == part = "flows" => Flows!VisitsAreArrivals

\* A visitor keeps the highest type stored, and one row.
ClassificationKept == part = "visitors" => Classified!ClassificationKept

\* A completed import saved every good row, and a file is kept until tried.
ImportSound ==
  /\ part = "files" => Import!ImportSound
  /\ part = "imports" => TwoImports!ImportSound

=============================================================================
