---------------------------- MODULE CrowdDataCache ----------------------------
(***************************************************************************)
(* The crowd detections of one hour.  The data cache ETL copies them from  *)
(* the time series to a file for each entity and, once every file is       *)
(* uploaded, deletes the hour from the time series; the other ETLs read    *)
(* the time series, the files or both.  Jobs of the same hour may overlap  *)
(* and rows may arrive late, from a retry or from the recovery of the DLQ. *)
(***************************************************************************)
EXTENDS Integers, FiniteSets, FiniteSetsExt

CONSTANTS
  Workers,   \* processes that run ETLs
  Entities,  \* the CrowdFlowEvent entities of the requests
  Rows,      \* the detections, each of one entity
  EntityOf,  \* the entity of a detection
  Limit,     \* limit of the request of the ETL (200000 in the code)
  MaxForced  \* bound on the executions of the ETL beyond the first

CacheAssumption ==
  /\ Limit \in Nat \ {0} /\ MaxForced \in Nat
  /\ IsFiniteSet(Rows) /\ EntityOf \in [Rows -> Entities]

VARIABLES
  series,   \* rows of the hour in the time series
  file,     \* file[e]: rows of the uploaded file, {} if there is none
  arrived,  \* rows reported so far
  started,  \* executions of the ETL of this hour
  job,      \* job[w]: the ETL worker w runs
  closed,   \* history: the hour is over and its first execution has begun
  late,     \* history: a row arrived after that
  cut       \* history: a request found more rows than its limit

vars == <<series, file, arrived, started, job, closed, late, cut>>

Idle == [pc |-> "idle"]

TypeOK ==
  /\ series \subseteq Rows /\ arrived \subseteq Rows
  /\ file \in [Entities -> SUBSET Rows]
  /\ \A e \in Entities : \A r \in file[e] : EntityOf[r] = e
  /\ started \in 0 .. MaxForced + 1
  /\ \A w \in Workers : job[w].pc \in {"idle", "storing", "deleting", "reading", "read"}
  /\ {closed, late, cut} \subseteq BOOLEAN

Init ==
  /\ series = {} /\ arrived = {}
  /\ file = [e \in Entities |-> {}]
  /\ started = 0
  /\ job = [w \in Workers |-> Idle]
  /\ closed = FALSE /\ late = FALSE /\ cut = FALSE

Of(rows, e) == {r \in rows : EntityOf[r] = e}

\* Ingestion of a row, also after its hour.
Arrive(r) ==
  /\ r \notin arrived
  /\ arrived' = arrived \cup {r} /\ series' = series \cup {r}
  /\ late' = (late \/ closed)
  /\ UNCHANGED <<file, started, job, closed, cut>>

\* What aether-link answers: up to Limit rows of each entity; a failure of
\* the request becomes an answer without rows.
Answers ==
  {answer \in SUBSET series :
     \A e \in Entities :
       Cardinality(Of(answer, e)) = Min({Limit, Cardinality(Of(series, e))})}

\* CrowdDataCacheETL: extraction and transformation.  Without any row the
\* grouping raises, which ends the execution.
Extract(w, answer) ==
  /\ job[w] = Idle /\ started <= MaxForced
  /\ started' = started + 1 /\ closed' = TRUE
  /\ job' = IF answer = {} THEN job
            ELSE [job EXCEPT ![w] = [pc |-> "storing", rows |-> answer, ok |-> TRUE,
                                     left |-> {EntityOf[r] : r \in answer}]]
  /\ cut' = (cut \/ \E e \in Entities : Cardinality(Of(series, e)) > Limit)
  /\ UNCHANGED <<series, file, arrived, late>>

\* __store_to_s3, for one entity: a file with the same name is overwritten.
\* An upload that fails does not stop the others.
Store(w, e, succeeds) ==
  /\ job[w].pc = "storing" /\ e \in job[w].left
  /\ file' = IF succeeds THEN [file EXCEPT ![e] = Of(job[w].rows, e)] ELSE file
  /\ job' = [job EXCEPT ![w].left = @ \ {e}, ![w].ok = @ /\ succeeds]
  /\ UNCHANGED <<series, arrived, started, closed, late, cut>>

\* Mutant of Stored: the series are deleted although an upload failed.
StoredSomehow(w) ==
  /\ job[w].pc = "storing" /\ job[w].left = {}
  /\ job' = [job EXCEPT ![w] = [pc |-> "deleting", left |-> Entities, rows |-> job[w].rows]]
  /\ UNCHANGED <<series, file, arrived, started, closed, late, cut>>

\* load: after the last upload, and only if none failed, the deletion.
Stored(w) ==
  /\ job[w].pc = "storing" /\ job[w].left = {}
  /\ job' = [job EXCEPT ![w] =
       IF job[w].ok THEN [pc |-> "deleting", left |-> Entities, rows |-> job[w].rows] ELSE Idle]
  /\ UNCHANGED <<series, file, arrived, started, closed, late, cut>>

\* delete_time_series, for one entity of the request: the range of the hour,
\* whatever was extracted.  A failure is logged and the job ends as well.
Delete(w, e) ==
  /\ job[w].pc = "deleting" /\ e \in job[w].left
  /\ series' = series \ Of(series, e)
  /\ job' = IF job[w].left = {e} THEN [job EXCEPT ![w] = Idle]
            ELSE [job EXCEPT ![w].left = @ \ {e}]
  /\ UNCHANGED <<file, arrived, started, closed, late, cut>>

\* A worker is killed, or the deletion fails.
Killed(w) ==
  /\ job[w] # Idle
  /\ job' = [job EXCEPT ![w] = Idle]
  /\ UNCHANGED <<series, file, arrived, started, closed, late, cut>>

\* get_time_series_in_df_format: the time series come first ...
ReadSeries(w) ==
  /\ job[w] = Idle /\ \A v \in Workers : job[v].pc \notin {"reading", "read"}
  /\ job' = [job EXCEPT ![w] = [pc |-> "reading", before |-> arrived, rows |-> series]]
  /\ UNCHANGED <<series, file, arrived, started, closed, late, cut>>

\* ... then the files; duplicates are dropped.
ReadFiles(w) ==
  /\ job[w].pc = "reading"
  /\ job' = [job EXCEPT ![w] = [pc |-> "read", before |-> @.before,
                                rows |-> @.rows \cup UNION {file[e] : e \in Entities}]]
  /\ UNCHANGED <<series, file, arrived, started, closed, late, cut>>

\* The ETL goes on with what it has read.
Finish(w) ==
  /\ job[w].pc = "read"
  /\ job' = [job EXCEPT ![w] = Idle]
  /\ UNCHANGED <<series, file, arrived, started, closed, late, cut>>

Next ==
  \/ \E r \in Rows : Arrive(r)
  \/ \E w \in Workers :
       \/ \E answer \in Answers \cup {{}} : Extract(w, answer)
       \/ \E e \in Entities : Delete(w, e) \/ \E succeeds \in BOOLEAN : Store(w, e, succeeds)
       \/ Stored(w) \/ Killed(w) \/ ReadSeries(w) \/ ReadFiles(w) \/ Finish(w)

Spec == Init /\ [][Next]_vars

-----------------------------------------------------------------------------
(* Properties.                                                             *)

\* A detection is in the time series or in its file, whatever executions
\* overlap, uploads fail and workers die, if it came within its hour and no
\* request reached its limit.
RowsKept ==
  ~late /\ ~cut => arrived \subseteq series \cup UNION {file[e] : e \in Entities}

\* An ETL that reads both while the rows move from one to the other misses
\* none of those that had arrived before it began, under the same conditions.
ReaderSeesAll ==
  ~late /\ ~cut => \A w \in Workers : job[w].pc = "read" => job[w].before \subseteq job[w].rows

\* "se construye una petición para borrar de la API de series temporales los
\* datos que se acaban de procesar": no row goes that the job did not process.
\* The code does not keep this (see the README): no run checks it.
DeletesOnlyProcessed ==
  [][\A w \in Workers : job[w].pc = "deleting" /\ series' # series
       => series \ series' \subseteq job[w].rows]_vars

\* A detection stays reachable: it is kept, and the ETLs that read see it.
RowsReachable == RowsKept /\ ReaderSeesAll

=============================================================================
