----------------------------- MODULE CrowdModel -----------------------------
(* The occupancy model of src/predictions: the daily run that refreshes the   *)
(* weather, trains (warm or in full) and predicts, the bundle of three files  *)
(* it keeps in the object storage, and the events registry, a CSV file of     *)
(* the same storage that the management API edits.                            *)
(*                                                                            *)
(* Time is counted in local days. An event is the set of its days; the zones  *)
(* an event applies to are left out, so an event stands for one that applies  *)
(* to the zone looked at. A model is known by the days whose rows it learned, *)
(* the columns it was fitted with, its trees, and whether each of its trees   *)
(* saw real precipitation or the constant default. The hyperparameters, the   *)
(* calendar's time zone (guarded as the weather is) and the numbers are not   *)
(* in the model.                                                              *)
EXTENDS Integers, Sequences, FiniteSets, SequencesExt, FiniteSetsExt

CONSTANTS Admins,       \* sessions of the management API that edit the registry
          Events,       \* the events they may register: sets of days
          MaxDay,       \* bound: the last day
          MaxRows,      \* bound: rows of the registry
          Window,       \* days the warm start reads
          FullAfter,    \* FULL_RETRAIN_AFTER_DAYS
          LongHistory,  \* days of data from which the 28-day features exist
          MaxTrees,     \* MAX_ESTIMATORS, in increments; a full training takes one
          Faults,       \* the faults allowed, of FaultNames
          MaxFaults,    \* bound: how many of them
          None          \* no file, no value

FaultNames == {"during", "unreadable", "refresh", "upload"}

ModelType == [days : SUBSET (0..MaxDay), columns : {"7d", "28d"}, trees : 1..(MaxTrees + 1),
              rain : SUBSET BOOLEAN]

Parameters == /\ MaxDay \in Nat /\ Window \in Nat /\ LongHistory \in Nat
              /\ MaxRows \in Nat /\ FullAfter \in Nat \ {0} /\ MaxTrees \in Nat
              /\ Events \subseteq SUBSET (0..MaxDay)
              /\ Faults \subseteq FaultNames /\ MaxFaults \in Nat
              /\ None \notin Admins /\ None \notin {"7d", "28d"} /\ None \notin ModelType

VARIABLES day,       \* today
          data,      \* the last day with measures
          weather,   \* configured: coordinates set; filled: the weather cache has hours
          rows,      \* the rows of events_registry.csv
          lock,      \* the session inside the advisory lock, or None
          admin,     \* what each session read, listed and is about to write
          promised,  \* how many of each event the accepted writes leave
          store,     \* the bundle: columns, metrics and model
          run,       \* the daily run
          faults

registry == <<rows, lock, admin, promised>>
vars == <<day, data, weather, rows, lock, admin, promised, store, run, faults>>

Quiet == [listed |-> None, write |-> None, read |-> <<>>]
Asleep == [pc |-> "idle", loaded |-> None, mode |-> "full", cached |-> None, new |-> None,
           exit |-> "none", started |-> <<>>, had |-> FALSE, forecast |-> "none"]

Fault(f) == f \in Faults /\ faults < MaxFaults

Init == /\ day = 0 /\ data = 0
        /\ weather = [configured |-> FALSE, filled |-> FALSE]
        /\ rows = <<>> /\ lock = None /\ promised = [e \in Events |-> 0]
        /\ admin = [a \in Admins |-> Quiet]
        /\ store = [columns |-> None, metrics |-> None, model |-> None]
        /\ run = Asleep
        /\ faults = 0

-----------------------------------------------------------------------------
(* The registry as the management API edits it.                               *)
Count(rs, e) == Cardinality({i \in DOMAIN rs : rs[i] = e})

(* GET lists the rows with their ids: the place and a digest of the row.      *)
List(a, i) == /\ i \in DOMAIN rows /\ admin[a].write = None
              /\ admin' = [admin EXCEPT ![a].listed = [index |-> i, event |-> rows[i]]]
              /\ UNCHANGED <<day, data, weather, rows, lock, promised, store, run, faults>>

(* A session enters the lock and reads the file, to append an event or to     *)
(* delete the one it listed.                                                  *)
LockUnlocked(a, write) == /\ admin[a].write = None
                          /\ lock' = None
                          /\ admin' = [admin EXCEPT ![a].write = write, ![a].read = rows]
Lock(a, write) == /\ lock = None
                  /\ lock' = a
                  /\ admin' = [admin EXCEPT ![a].write = write, ![a].read = rows]

AppendEvent(a, e) == /\ Len(rows) < MaxRows /\ admin[a].write = None
                     /\ Lock(a, [op |-> "append", event |-> e])
                     /\ UNCHANGED <<day, data, weather, rows, promised, store, run, faults>>
Delete(a) == /\ admin[a].listed # None /\ admin[a].write = None
             /\ Lock(a, [op |-> "delete", event |-> admin[a].listed.event])
             /\ UNCHANGED <<day, data, weather, rows, promised, store, run, faults>>

(* It writes the whole file back and leaves the lock. A row that is no longer *)
(* where it was listed is not deleted (409).                                  *)
AsListed(a) == LET i == admin[a].listed.index
               IN i \in DOMAIN admin[a].read /\ admin[a].read[i] = admin[a].listed.event

Write(a) ==
  LET w == admin[a].write IN
  /\ w # None
  /\ CASE w.op = "append" -> /\ rows' = Append(admin[a].read, w.event)
                             /\ promised' = [promised EXCEPT ![w.event] = @ + 1]
       [] w.op = "delete" /\ AsListed(a) ->
                             /\ rows' = RemoveAt(admin[a].read, admin[a].listed.index)
                             /\ promised' = [promised EXCEPT ![w.event] = @ - 1]
       [] OTHER -> UNCHANGED <<rows, promised>>
  /\ lock' = None
  /\ admin' = [admin EXCEPT ![a] = Quiet]
  /\ IF run.pc = "idle" THEN UNCHANGED faults ELSE Fault("during") /\ faults' = faults + 1
  /\ UNCHANGED <<day, data, weather, store, run>>

-----------------------------------------------------------------------------
(* The daily run. One process per day: what it caches dies with it.           *)
EventDays(rs) == UNION Range(rs)

(* load_events_registry: an unreadable storage is an empty registry.          *)
Reading(rs) == \/ rs = rows /\ UNCHANGED faults
               \/ rs = <<>> /\ Fault("unreadable") /\ faults' = faults + 1
Readings == {rows, <<>>}

(* The weather cache is refreshed where the tenant has coordinates; a failed  *)
(* refresh is logged and the run goes on.                                     *)
Refresh == /\ run.pc = "refresh"
           /\ \/ /\ weather' = [weather EXCEPT !.filled = @ \/ weather.configured]
                 /\ UNCHANGED faults
              \/ /\ weather.configured /\ Fault("refresh")
                 /\ faults' = faults + 1 /\ UNCHANGED weather
           /\ run' = [run EXCEPT !.pc = "decide"]
           /\ UNCHANGED <<day, data, registry, store>>

(* fingerprint: the days up to until of each event, as a multiset.            *)
UpTo(e, until) == {d \in e : d <= until}
Fingerprint(rs, until) ==
  LET seen == {i \in DOMAIN rs : UpTo(rs[i], until) # {}}
  IN {<<UpTo(rs[i], until), Cardinality({j \in seen : UpTo(rs[j], until) = UpTo(rs[i], until)})>> : i \in seen}

(* The bundle loads only if its three files are there.                        *)
Bundle == IF None \in {store.columns, store.metrics, store.model} THEN None ELSE store

(* A full training is due by the bundle alone, or else because the registry,  *)
(* read only then, is another one.                                            *)
DueAsStored(b) == \/ day - b.metrics.fullAt >= FullAfter
                  \/ b.metrics.available # weather.configured
Due(b, rs) == \/ DueAsStored(b)
              \/ Fingerprint(rs, b.metrics.until) # b.metrics.fingerprint
Room(b) == b.model.trees < MaxTrees

(* FORCE_FULL_RETRAIN leaves the stored bundle out.                           *)
Decide(forced, rs) ==
  /\ run.pc = "decide"
  /\ LET b == IF forced THEN None ELSE Bundle
         warm == b # None /\ ~Due(b, rs) /\ Room(b)
     IN /\ IF b # None /\ ~DueAsStored(b) THEN Reading(rs) ELSE rs = rows /\ UNCHANGED faults
        /\ run' = [run EXCEPT !.loaded = b, !.pc = "table",
                              !.mode = IF warm THEN "incremental" ELSE "full"]
  /\ UNCHANGED <<day, data, weather, registry, store>>

(* The history is read; the registry is cached for the rest of the process.   *)
Table(rs) == /\ run.pc = "table"
             /\ Reading(rs)
             /\ run' = [run EXCEPT !.cached = rs, !.pc = "train"]
             /\ UNCHANGED <<day, data, weather, registry, store>>

Columns == IF data >= LongHistory THEN "28d" ELSE "7d"
Usable == {d \in 0..data : run.mode = "incremental" => d > day - Window} \ EventDays(run.cached)
(* The last usable day is held out: it measures the model.                    *)
Learns == Usable \ {Max(Usable)}

Failed == [run EXCEPT !.exit = "failed", !.pc = "predict"]
Trained(model, fullAt) ==
  [run EXCEPT !.pc = "fingerprint",
              !.new = [columns |-> model.columns, model |-> model,
                       metrics |-> [fullAt |-> fullAt, available |-> weather.configured,
                                    until |-> Max(Usable), fingerprint |-> {}]]]

(* train_full; too little history trains nothing and fails the run.           *)
TrainFull ==
  /\ run.pc = "train" /\ run.mode = "full"
  /\ run' = IF Usable = {} \/ Learns = {} THEN Failed
            ELSE Trained([days |-> Learns, columns |-> Columns, trees |-> 1,
                          rain |-> {weather.filled}], day)
  /\ UNCHANGED <<day, data, weather, registry, store, faults>>

(* train_incremental: nothing new leaves the model as it is (and fails the    *)
(* run once the data is too old); an increment that is not viable, changes    *)
(* the columns or worsens the error gives way to a full training; a stored    *)
(* model that was not fitted with the stored columns fails the run.           *)
Anew == [run EXCEPT !.mode = "full"]
TrainIncremental ==
  /\ run.pc = "train" /\ run.mode = "incremental"
  /\ LET b == run.loaded
         grown == [b.model EXCEPT !.days = @ \cup Learns, !.trees = @ + 1,
                                  !.rain = @ \cup {weather.filled}]
     IN CASE Usable = {} -> run' = Anew
          [] Usable # {} /\ Max(Usable) <= b.metrics.until ->
               run' \in {[run EXCEPT !.exit = "ok", !.pc = "predict"], Failed}
          [] Usable # {} /\ Max(Usable) > b.metrics.until /\ (Learns = {} \/ b.columns # Columns) ->
               run' = Anew
          [] OTHER ->
               IF b.model.columns # b.columns THEN run' = Failed
               ELSE run' \in {Anew, Trained(grown, b.metrics.fullAt)}
  /\ UNCHANGED <<day, data, weather, registry, store, faults>>

(* Any exception of the training ends it; the prediction goes on.             *)
TrainRaises == /\ run.pc \in {"decide", "table", "train"}
               /\ run' = Failed
               /\ UNCHANGED <<day, data, weather, registry, store, faults>>

(* The fingerprint is taken of the registry as it reads now, for the days the *)
(* data reaches.                                                              *)
Stamp(rs) == /\ run.pc = "fingerprint"
             /\ Reading(rs)
             /\ run' = [run EXCEPT !.pc = "columns",
                          !.new.metrics.fingerprint = Fingerprint(rs, run.new.metrics.until)]
             /\ UNCHANGED <<day, data, weather, registry, store>>

(* save_model_bundle: columns, metrics, model, one upload each.               *)
AfterSaving == [columns |-> "metrics", metrics |-> "model", model |-> "predict"]
Save == /\ run.pc \in DOMAIN AfterSaving
        /\ \/ /\ store' = [store EXCEPT ![run.pc] = run.new[run.pc]]
              /\ run' = [run EXCEPT !.pc = AfterSaving[run.pc],
                                    !.exit = IF run.pc = "model" THEN "ok" ELSE @]
              /\ UNCHANGED faults
           \/ /\ Fault("upload") /\ faults' = faults + 1
              /\ run' = Failed /\ UNCHANGED store
        /\ UNCHANGED <<day, data, weather, registry>>

(* predict_one_target downloads the model and its columns again and publishes *)
(* unless they are missing or do not fit each other.                          *)
Fits == None \notin {store.model, store.columns} /\ store.model.columns = store.columns
Forecast == IF Fits THEN "published" ELSE "failed"
Predict == /\ run.pc = "predict"
           /\ run' = [run EXCEPT !.pc = "idle", !.forecast = Forecast, !.new = None,
                                 !.cached = None, !.loaded = None, !.mode = "full"]
           /\ UNCHANGED <<day, data, weather, registry, store, faults>>

-----------------------------------------------------------------------------
(* A day passes, with or without measures, and its run is started; between    *)
(* two runs the weather may be set up for the tenant, once and for all.       *)
NewDay == /\ day < MaxDay /\ run.pc = "idle"
          /\ day' = day + 1 /\ data' \in {data, day + 1}
          /\ run' = [Asleep EXCEPT !.pc = "refresh", !.started = rows, !.had = Bundle # None]
          /\ UNCHANGED <<weather, registry, store, faults>>
Configure == /\ run.pc = "idle" /\ ~weather.configured
             /\ weather' = [weather EXCEPT !.configured = TRUE]
             /\ UNCHANGED <<day, data, registry, store, run, faults>>

Next == \/ \E a \in Admins : \/ \E i \in 1..MaxRows : List(a, i)
                             \/ \E e \in Events : AppendEvent(a, e)
                             \/ Delete(a) \/ Write(a)
        \/ NewDay \/ Configure \/ Refresh
        \/ \E rs \in Readings : \/ \E forced \in BOOLEAN : Decide(forced, rs)
                                \/ Table(rs) \/ Stamp(rs)
        \/ TrainFull \/ TrainIncremental \/ TrainRaises \/ Save \/ Predict

Spec == Init /\ [][Next]_vars

-----------------------------------------------------------------------------
(* Type invariant of the run and of the bundle. *)
TypeOK == /\ day \in 0..MaxDay /\ data \in 0..day
          /\ lock \in Admins \cup {None}
          /\ rows \in Seq(Events) /\ Len(rows) <= MaxRows + Cardinality(Admins)
          /\ store.model \in {None} \cup ModelType
          /\ run.pc \in {"idle", "refresh", "decide", "table", "train", "fingerprint", "predict"}
                        \cup DOMAIN AfterSaving
          /\ run.exit \in {"none", "ok", "failed"}
          /\ faults \in 0..MaxFaults

(* The registry holds exactly the events whose registration was accepted and  *)
(* that nobody deleted since: no session overwrites the file with a reading   *)
(* from before another's write, nor deletes another row than the one it       *)
(* listed (PredictionEventsRegistry).                                         *)
RegistryKept == \A e \in Events : Count(rows, e) = promised[e]

(* A training that ends well leaves a stored model that learned no day of an  *)
(* event registered before the run: an event recorded for days already        *)
(* trained on makes the model unlearn them, one recorded ahead is left out    *)
(* when its days come (events_registry.py, warm_start.events_registry_changed).*)
EventDaysUnlearned == run.exit = "ok" => store.model.days \cap EventDays(run.started) = {}

(* No model mixes trees that saw precipitation with trees that saw the        *)
(* constant default (warm_start.weather_availability_changed).                *)
OneMeaning == store.model # None => Cardinality(store.model.rain) = 1

(* A run that started with a bundle in the storage publishes a forecast,      *)
(* whether or not its training succeeds (daily_pipeline, predict_pipeline).   *)
ForecastSurvives == run.pc = "idle" /\ run.had => run.forecast = "published"

(* Together: what the administrators recorded, what the stored model learned  *)
(* and what is published stay coherent.                                       *)
BundleSound == RegistryKept /\ EventDaysUnlearned /\ OneMeaning /\ ForecastSurvives

=============================================================================
