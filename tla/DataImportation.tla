---------------------------- MODULE DataImportation ----------------------------
(***************************************************************************)
(* The importation of files of measures.  The backend stores an upload and *)
(* enqueues a task; DataImportationJob downloads the file, parses it into  *)
(* one notification for each entity, creates the entities that are new,    *)
(* saves the notifications in both stores, removes the file, and tells its *)
(* progress through a background job of three steps.  The queue forgets a  *)
(* task when a worker takes it.                                            *)
(***************************************************************************)
EXTENDS Integers, Sequences, FiniteSets, FiniteSetsExt

CONSTANTS
  Workers,    \* processes of the importation queue
  Imports,    \* the uploads
  Entities,
  Nobody,     \* the entity of a row without a valid URN
  Contents,   \* the files users upload: see File
  Faults,     \* what may fail: a part of Causes
  MaxFaults   \* bound on the faults

Causes == {"kill", "download", "broker", "series", "realtime", "delete"}
Formats == {"csv", "geojson", "kml", "jsonld", "other"}

\* A row, feature, placemark or entity of a file: whose it is, its timestamp,
\* which of tenant and scope it gives, and whether it gives a type and values.
Row == [of : Entities \cup {Nobody}, at : {"good", "bad", "none"},
        owner : {"both", "half", "none"}, typed : BOOLEAN, filled : BOOLEAN]

\* A file, and whether its request names the main scope of an organization.
IsFile(f) == f \in [format : Formats, owned : BOOLEAN, rows : Seq(Row)]

ImportationAssumption ==
  /\ Nobody \notin Entities /\ Faults \subseteq Causes /\ MaxFaults \in Nat
  /\ \A f \in Contents : IsFile(f)

VARIABLES
  file,      \* file[i]: what an upload held, <<>> before it
  stored,    \* the uploads whose file is in the object store
  queue,     \* the tasks nobody has taken
  job,       \* job[w]: what a worker does
  status,    \* status[i]: the background job of an import
  steps,     \* steps[i][k]: the state of its steps
  entities,  \* the entities of the main database
  broker,    \* the entities of the Context Broker
  series, realtime,   \* the rows saved in either store
  fate,      \* history: how each notification ended
  faults     \* faults so far

vars == <<file, stored, queue, job, status, steps, entities, broker, series,
          realtime, fate, faults>>

Idle == [pc |-> "idle"]
Points == Imports \X Nat

TypeOK ==
  /\ \A i \in Imports : file[i] \in {<<>>} \cup Contents
  /\ stored \subseteq Imports /\ queue \subseteq Imports
  /\ \A w \in Workers : job[w].pc \in
       {"idle", "created", "download", "parse", "next", "insert", "publish",
        "series", "realtime", "clean", "finish", "failed"}
  /\ status \in [Imports -> {"none", "queued", "running", "completed", "failed"}]
  /\ steps \in [Imports -> [1 .. 3 -> {"none", "running", "completed", "failed"}]]
  /\ entities \subseteq Entities /\ broker \subseteq Entities
  /\ series \subseteq Points /\ realtime \subseteq Points
  /\ fate \subseteq Points \X {"saved", "skipped", "unowned", "failed", "session"}
  /\ faults \in 0 .. MaxFaults

Init ==
  /\ file = [i \in Imports |-> <<>>] /\ stored = {} /\ queue = {}
  /\ job = [w \in Workers |-> Idle]
  /\ status = [i \in Imports |-> "none"]
  /\ steps = [i \in Imports |-> [k \in 1 .. 3 |-> "none"]]
  /\ entities = {} /\ broker = {} /\ series = {} /\ realtime = {}
  /\ fate = {} /\ faults = 0

May(cause) == cause \in Faults /\ faults < MaxFaults

-----------------------------------------------------------------------------
(* The parsers.                                                            *)

\* tenant and scope: those of the request if it names them.
Owner(f, n) == IF f.owned THEN "both" ELSE f.rows[n].owner

\* Mutant of Named: a row is kept whatever its URN.
NamedAny(f) == DOMAIN f.rows

\* The rows that count, in each parser.  DataFrameParser, of CSV and XLSX,
\* skips a row it cannot use; the others may raise instead.
Named(f) == {n \in DOMAIN f.rows : f.rows[n].of # Nobody}
TableRows(f) ==
  {n \in Named(f) : /\ f.rows[n].at = "good" /\ f.rows[n].typed
                    /\ Owner(f, n) # "half"}
Placemarks(f) == {n \in Named(f) : f.rows[n].at # "none"}
Bodies(f) == {n \in Named(f) : f.rows[n].typed}

\* ParserFactory.
Kept(f) ==
  CASE f.format = "csv" -> TableRows(f)
    [] f.format = "geojson" -> Named(f)
    [] f.format = "kml" -> Placemarks(f)
    [] f.format = "jsonld" -> Bodies(f)

\* Those whose values are read: a feature without a timestamp has none.
Read(f) ==
  {n \in Kept(f) : f.rows[n].filled /\ (f.format = "geojson" => f.rows[n].at = "good")}

\* What rows of a notification share: the whole entity key in a table, the
\* entity in GeoJSON and KML; JSON-LD gives a notification to each entity.
Key(f, n) ==
  CASE f.format = "csv" -> <<f.rows[n].of, Owner(f, n)>>
    [] f.format \in {"geojson", "kml"} -> <<f.rows[n].of>>
    [] f.format = "jsonld" -> <<n>>
Group(f, n) == {m \in Kept(f) : Key(f, m) = Key(f, n)}
Firsts(f) == {n \in Kept(f) : n = Min(Group(f, n))}

\* What makes a parser raise, which fails the whole file.  GeoJSON and KML
\* look at the metadata of the first row of each entity only.
NoMetadata(f) == \E n \in Firsts(f) : Owner(f, n) = "half" \/ ~f.rows[n].typed
TableRaises(f) == \A n \in DOMAIN f.rows : f.rows[n].at = "none"
FeaturesRaise(f) == f.rows = <<>> \/ NoMetadata(f)
PlacemarksRaise(f) == NoMetadata(f) \/ \E n \in DOMAIN f.rows : f.rows[n].at = "bad"
BodiesRaise(f) ==
  f.rows = <<>> \/ ~f.owned \/ \E n \in Bodies(f) : f.rows[n].at = "bad" /\ f.rows[n].filled
Refused(f) ==
  \/ f.format = "csv" /\ TableRaises(f)
  \/ f.format = "geojson" /\ FeaturesRaise(f)
  \/ f.format = "kml" /\ PlacemarksRaise(f)
  \/ f.format = "jsonld" /\ BodiesRaise(f)

\* parse: the notifications, which come in the order of the first row of each.
Parsed(f) ==
  {[first |-> n, of |-> f.rows[n].of, owned |-> Owner(f, n) = "both",
    rows  |-> Group(f, n) \cap Read(f)] : n \in Firsts(f)}

-----------------------------------------------------------------------------
(* The job.  Its three steps are started and completed with what they do.  *)

Stays == UNCHANGED <<file, queue, entities, broker, series, realtime, fate>>
At(w, pc) == job[w].pc = pc
Goto(w, pc) == job' = [job EXCEPT ![w].pc = pc]
Of(w) == job[w].imp
Turn(i, k) == steps' = [steps EXCEPT ![i][k] = "completed", ![i][k + 1] = "running"]
Fault(cause) == May(cause) /\ faults' = faults + 1

\* EntityController: a file is stored and its task published.
Upload(i, f) ==
  /\ file[i] = <<>>
  /\ file' = [file EXCEPT ![i] = f]
  /\ stored' = stored \cup {i} /\ queue' = queue \cup {i}
  /\ UNCHANGED <<job, status, steps, entities, broker, series, realtime, fate, faults>>

\* A worker takes a task.  A format without a parser raises in the
\* constructor, before there is a background job.
Take(w, i) ==
  /\ At(w, "idle") /\ i \in queue
  /\ queue' = queue \ {i}
  /\ IF file[i].format = "other" THEN UNCHANGED <<job, status>>
     ELSE /\ job' = [job EXCEPT ![w] = [pc |-> "created", imp |-> i, broken |-> FALSE]]
          /\ status' = [status EXCEPT ![i] = "queued"]
  /\ UNCHANGED <<file, stored, steps, entities, broker, series, realtime, fate, faults>>

Start(w) ==
  /\ At(w, "created")
  /\ status' = [status EXCEPT ![Of(w)] = "running"]
  /\ steps' = [steps EXCEPT ![Of(w)][1] = "running"]
  /\ Goto(w, "download")
  /\ Stays /\ UNCHANGED <<stored, faults>>

Download(w) ==
  /\ At(w, "download")
  /\ \/ /\ Of(w) \in stored
        /\ Turn(Of(w), 1) /\ Goto(w, "parse") /\ UNCHANGED faults
     \/ /\ Fault("download")
        /\ Goto(w, "failed") /\ UNCHANGED steps
  /\ Stays /\ UNCHANGED <<stored, status>>

\* _parse_file: a parser that raises fails the import.
Parse(w) ==
  LET f == file[Of(w)]
  IN  /\ At(w, "parse")
      /\ IF Refused(f) THEN Goto(w, "failed") /\ UNCHANGED steps
         ELSE /\ Turn(Of(w), 2)
              /\ job' = [job EXCEPT ![w] = [pc |-> "next", imp |-> @.imp,
                                            broken |-> FALSE, todo |-> Parsed(f)]]
      /\ Stays /\ UNCHANGED <<stored, status, faults>>

-----------------------------------------------------------------------------
(* _process_notifications.  Whatever a notification raises is logged and   *)
(* the next one follows.                                                   *)

One(w) == CHOOSE n \in job[w].todo : \A m \in job[w].todo : n.first <= m.first
Others == <<file, stored, queue, status, steps>>
Ended(w, how) == fate' = fate \cup {<<<<Of(w), One(w).first>>, how>>}
Onward(w, broken) ==
  job' = [job EXCEPT ![w].pc = "next", ![w].todo = @ \ {One(w)}, ![w].broken = broken]

\* get_or_create_entity looks the entity up; a session that a failed commit
\* left without a rollback refuses every query.
LookUp(w) ==
  /\ At(w, "next") /\ job[w].todo # {}
  /\ \/ /\ One(w).rows = {}
        /\ Onward(w, job[w].broken) /\ Ended(w, "skipped")
     \/ /\ One(w).rows # {} /\ ~One(w).owned
        /\ Onward(w, job[w].broken) /\ Ended(w, "unowned")
     \/ /\ One(w).rows # {} /\ One(w).owned /\ job[w].broken
        /\ Onward(w, TRUE) /\ Ended(w, "session")
     \/ /\ One(w).rows # {} /\ One(w).owned /\ ~job[w].broken
        /\ Goto(w, IF One(w).of \in entities THEN "series" ELSE "insert")
        /\ UNCHANGED fate
  /\ UNCHANGED <<Others, entities, broker, series, realtime, faults>>

\* create_entity: the unique index refuses an entity another session has
\* created since; nothing rolls the session back.
Insert(w) ==
  /\ At(w, "insert")
  /\ \/ /\ One(w).of \in entities
        /\ Onward(w, TRUE) /\ Ended(w, "session") /\ UNCHANGED entities
     \/ /\ One(w).of \notin entities
        /\ entities' = entities \cup {One(w).of}
        /\ Goto(w, "publish") /\ UNCHANGED fate
  /\ UNCHANGED <<Others, broker, series, realtime, faults>>

\* create_context_broker_entity: a failure is only logged.
Publish(w) ==
  /\ At(w, "publish")
  /\ \/ broker' = broker \cup {One(w).of} /\ UNCHANGED faults
     \/ Fault("broker") /\ UNCHANGED broker
  /\ Goto(w, "series")
  /\ UNCHANGED <<Others, entities, series, realtime, fate>>

Rows(w) == {Of(w)} \X One(w).rows

\* save_timeseries_job and save_realtime_job, called in place.
SaveSeries(w) ==
  /\ At(w, "series")
  /\ \/ /\ series' = series \cup Rows(w)
        /\ Goto(w, "realtime") /\ UNCHANGED <<fate, faults>>
     \/ /\ Fault("series") /\ UNCHANGED series
        /\ Onward(w, job[w].broken) /\ Ended(w, "failed")
  /\ UNCHANGED <<Others, entities, broker, realtime>>

SaveRealtime(w) ==
  /\ At(w, "realtime")
  /\ \/ /\ realtime' = realtime \cup Rows(w)
        /\ Ended(w, "saved") /\ UNCHANGED faults
     \/ /\ Fault("realtime") /\ UNCHANGED realtime
        /\ Ended(w, "failed")
  /\ Onward(w, job[w].broken)
  /\ UNCHANGED <<Others, entities, broker, series>>

-----------------------------------------------------------------------------
(* The end of a job.                                                       *)

\* _cleanup: a failure is only warned of; step 3 is then complete.
Clean(w) ==
  /\ At(w, "next") /\ job[w].todo = {}
  /\ \/ stored' = stored \ {Of(w)} /\ UNCHANGED faults
     \/ Fault("delete") /\ UNCHANGED stored
  /\ steps' = [steps EXCEPT ![Of(w)][3] = "completed"]
  /\ Goto(w, "finish")
  /\ Stays /\ UNCHANGED status

\* Mutant of Complete: the job is updated in another session.
CompleteApart(w) ==
  /\ At(w, "finish")
  /\ status' = [status EXCEPT ![Of(w)] = "completed"]
  /\ job' = [job EXCEPT ![w] = Idle]
  /\ Stays /\ UNCHANGED <<stored, steps, faults>>

\* tracker.complete, in the session of the job: when that is broken it raises,
\* and so does tracker.fail after it.
Complete(w) ==
  /\ At(w, "finish")
  /\ IF job[w].broken THEN UNCHANGED status
     ELSE status' = [status EXCEPT ![Of(w)] = "completed"]
  /\ job' = [job EXCEPT ![w] = Idle]
  /\ Stays /\ UNCHANGED <<stored, steps, faults>>

\* tracker.fail: running steps and the job fail; the file stays.
Fail(w) ==
  /\ At(w, "failed")
  /\ status' = [status EXCEPT ![Of(w)] = "failed"]
  /\ steps' = [steps EXCEPT ![Of(w)] =
                 [k \in 1 .. 3 |-> IF @[k] = "running" THEN "failed" ELSE @[k]]]
  /\ job' = [job EXCEPT ![w] = Idle]
  /\ Stays /\ UNCHANGED <<stored, faults>>

\* The worker is killed or the task exceeds its time limit.
Kill(w) ==
  /\ ~At(w, "idle") /\ Fault("kill")
  /\ job' = [job EXCEPT ![w] = Idle]
  /\ Stays /\ UNCHANGED <<stored, status, steps>>

\* The ingestion of notifications creates an entity of the broker.
Notified(e) ==
  /\ e \notin entities
  /\ entities' = entities \cup {e} /\ broker' = broker \cup {e}
  /\ UNCHANGED <<Others, job, series, realtime, fate, faults>>

Step(w) ==
  \/ Start(w) \/ Download(w) \/ Parse(w)
  \/ LookUp(w) \/ Insert(w) \/ Publish(w) \/ SaveSeries(w) \/ SaveRealtime(w)
  \/ Clean(w) \/ Complete(w) \/ Fail(w)

Next ==
  \/ \E i \in Imports, f \in Contents : Upload(i, f)
  \/ \E w \in Workers : Step(w) \/ Kill(w) \/ \E i \in Imports : Take(w, i)
  \/ \E e \in Entities : Notified(e)

Spec == Init /\ [][Next]_vars

-----------------------------------------------------------------------------
(* Properties.                                                             *)

\* A complete row, whose entity has only such rows in the file.
Sound(f, n) ==
  \A m \in DOMAIN f.rows : f.rows[m].of = f.rows[n].of =>
     /\ f.rows[m].of # Nobody /\ f.rows[m].at = "good" /\ f.rows[m].typed
     /\ f.rows[m].filled /\ Owner(f, m) = "both"

\* An import that says "completed" has every sound row in both stores, unless
\* a store refused the notification of that row: whatever rows around it are
\* malformed, and whatever other sessions did to its own.
GoodRowsSaved ==
  \A i \in Imports : status[i] = "completed" =>
     \A n \in DOMAIN file[i].rows : Sound(file[i], n) =>
        \/ <<i, n>> \in series \cap realtime
        \/ \E m \in Group(file[i], n) : <<<<i, m>>, "failed">> \in fate

\* The stored file, the only copy of an upload, outlives any moment at which
\* a notification of it has not been tried: a crash loses no data for good.
KeptUntilTried ==
  \A i \in Imports : file[i] # <<>> /\ i \notin stored =>
     \A n \in Firsts(file[i]) : \E e \in fate : e[1] = <<i, n>>

\* An import that nobody works on any more has said how it ended (the job
\* "orchestrates the complete importation flow", whose last part is "Logging
\* of the final status", data_importation_job.py).
EndIsReported ==
  \A i \in Imports :
     status[i] \in {"queued", "running"} => \E w \in Workers : job[w].pc # "idle" /\ Of(w) = i

\* No sound row of an upload is lost in silence, while the import runs, when
\* it is killed or when it ends.
ImportSound == GoodRowsSaved /\ KeptUntilTried

=============================================================================
