--------------------------- MODULE TimeSeriesQuery ---------------------------
(* How aether-link answers a time series request: with one SQL query on the   *)
(* Timescale database, or through Mintaka, asking its temporal API for page   *)
(* after page of one entity and filtering what came. Both stand behind one    *)
(* interface, data_source.py, and filter by the period of the request, a list *)
(* of time scopes (aether-pylib, time_scope.py). The model puts a request to  *)
(* one and then to the other, to compare what they answer.                    *)
(*                                                                            *)
(* A measure is the set of the times it has a value at; values, aggregations, *)
(* several entities and the where clause are not in the model. Mintaka is     *)
(* external: it answers with the newest rows of the range, at most PageCap.   *)
EXTENDS Integers, Sequences, FiniteSets, FiniteSetsExt, SequencesExt

CONSTANTS Times,     \* the times measures are stored at
          Calendar,  \* Calendar[t]: year, month, monthDay, weekDay (Monday 0), hour
          Measures,  \* the measures stored
          Requests,  \* the requests made
          PageCap,   \* rows of a measure Mintaka gives at most
          Second,    \* units of time in a second
          Faults,    \* the calls that may fail, of "select", "page" and "connection"
          None       \* no bound, no adjustment, no page

Parameters == /\ Times \in SUBSET Nat /\ PageCap \in Nat \ {0} /\ Second \in Nat \ {0}
              /\ Faults \subseteq {"select", "page", "connection"}
              /\ \A r \in Requests : r.limit \in Nat \ {0} /\ r.order \in {"asc", "desc", None}

VARIABLES stored,  \* the times of each measure
          request, \* the request being answered
          answer,  \* the times the Timescale source answers, for each measure
          options, \* the range and the limit of the next page
          series,  \* the times gathered from Mintaka, for each measure
          stage,   \* "select", "ask", "filter", "done", or "raised"
          failed   \* the call that failed, if any

vars == <<stored, request, answer, options, series, stage, failed>>

Empty == [m \in Measures |-> {}]

Init == /\ stored \in [Measures -> SUBSET Times]
        /\ request \in Requests
        /\ \A m \in Measures \ Range(request.measures) : stored[m] = {}
        /\ options = [start |-> request.start, end |-> request.end, limit |-> request.limit]
        /\ answer = Empty /\ series = Empty
        /\ stage = "select" /\ failed = {}

-----------------------------------------------------------------------------
(* Ranges, limits and hours, which all of them share.                         *)
After(t, start) == start = None \/ t >= start
Before(t, end) == end = None \/ t <= end
Scopes == IF request.period = None THEN {} ELSE Range(request.period)
InRange(ts, start, end) == {t \in ts : After(t, start) /\ Before(t, end)}

Newest(ts, n) == {t \in ts : Cardinality({u \in ts : u > t}) < n}
Oldest(ts, n) == {t \in ts : Cardinality({u \in ts : u < t}) < n}

InHours(h, range) == IF range[1] > range[2] THEN h >= range[1] \/ h <= range[2]
                     ELSE h >= range[1] /\ h <= range[2]
Among(v, allowed) == allowed = {} \/ v \in allowed
AtHours(h, p) == p.hours = {} \/ \E range \in p.hours : InHours(h, range)
ZoneHour(t, p) == (Calendar[t].hour + p.zone) % 24

-----------------------------------------------------------------------------
(* TimeScope.in_scope: the first adjustment that applies decides, otherwise   *)
(* every list given must hold the date. Only hours look at the time zone.     *)
Applies(a, t) == /\ a.year \in {None, Calendar[t].year}
                 /\ a.month \in {None, Calendar[t].month}
                 /\ a.monthDay \in {None, Calendar[t].monthDay}
InScope(p, t) ==
  LET deciding == SelectSeq(p.extra, LAMBDA a : Applies(a, t))
  IN IF deciding # <<>> THEN ~Head(deciding).exclude
     ELSE /\ Among(Calendar[t].month, p.months) /\ Among(Calendar[t].monthDay, p.monthDays)
          /\ Among(Calendar[t].weekDay, p.weekDays) /\ AtHours(ZoneHour(t, p), p)

-----------------------------------------------------------------------------
(* The Timescale query: all the filters, then the first rows of each measure  *)
(* in the order asked for, the oldest if none is. Months are compared as      *)
(* Postgres numbers them, from 1, and week days from Sunday; adjustments are  *)
(* added to, or taken from, the condition in their order; every scope of the  *)
(* period must let a row pass.                                                *)
SundayFirst(d) == (d + 1) % 7
Lists(p, t) == /\ Among(Calendar[t].month + 1, p.months) /\ Among(Calendar[t].monthDay, p.monthDays)
               /\ Among(SundayFirst(Calendar[t].weekDay), p.weekDays) /\ AtHours(ZoneHour(t, p), p)
Names(a) == a.year # None \/ a.month # None \/ a.monthDay # None
PeriodFilter(p, t) ==
  FoldLeft(LAMBDA pass, a : IF ~Names(a) THEN pass
                            ELSE IF a.exclude THEN pass /\ ~Applies(a, t)
                            ELSE pass \/ Applies(a, t),
           Lists(p, t), p.extra)

FirstRows(ts) == IF request.order = "desc" THEN Newest(ts, request.limit)
                 ELSE Oldest(ts, request.limit)
Query(m) == FirstRows({t \in InRange(stored[m], request.start, request.end) :
                         \A p \in Scopes : PeriodFilter(p, t)})

(* A query that raises is logged and answered with no series.                 *)
Select ==
  /\ stage = "select" /\ stage' = "ask"
  /\ \/ answer' = [m \in Measures |-> Query(m)] /\ UNCHANGED failed
     \/ "select" \in Faults /\ failed' = {"select"} /\ UNCHANGED answer
  /\ UNCHANGED <<stored, request, options, series>>

-----------------------------------------------------------------------------
(* Mintaka: one page of every measure asked for, from the newest.             *)
Page(m) == Newest(InRange(stored[m], options.start, options.end), Min({options.limit, PageCap}))
Answered == SelectSeq(request.measures, LAMBDA m : Page(m) # {})

(* What is left to ask of one measure of the page, if anything.               *)
Left(m, end, reached) ==
  IF reached \/ ~After(end, options.start) THEN None
  ELSE [start |-> options.start, end |-> end, limit |-> options.limit - Cardinality(Page(m))]
RemainingSkipping(m) == Left(m, Min(Page(m)) - 2 * Second, Cardinality(Page(m)) >= options.limit)
RemainingBeyond(m) == Left(m, Min(Page(m)) - Second, Cardinality(Page(m)) > options.limit)
Remaining(m) == Left(m, Min(Page(m)) - Second, Cardinality(Page(m)) >= options.limit)

(* The end of the next page has no time zone: it cannot be compared with a    *)
(* start that has one.                                                        *)
Incomparable == /\ request.aware /\ options.start # None
                /\ \E m \in Range(Answered) : Cardinality(Page(m)) < options.limit

(* The next page serves all the measures that lack rows. The aggregation and  *)
(* the order are taken from the first measure, which raises if it lacks none; *)
(* a request that raises is left out of the response.                         *)
NextPage ==
  LET left == {m \in Range(Answered) : Remaining(m) # None}
      raises == Incomparable \/ (left # {} /\ Head(Answered) \notin left)
  IN /\ stage = "ask"
     /\ series' = [m \in Measures |-> IF m \in Range(Answered) THEN series[m] \cup Page(m)
                                      ELSE series[m]]
     /\ CASE raises -> stage' = "raised" /\ UNCHANGED options
          [] left = {} /\ ~raises -> stage' = "filter" /\ UNCHANGED options
          [] OTHER -> /\ options' = [start |-> options.start,
                                     end |-> Max({Remaining(m).end : m \in left}),
                                     limit |-> Max({Remaining(m).limit : m \in left})]
                      /\ UNCHANGED stage
     /\ UNCHANGED <<stored, request, answer, failed>>

(* A page answered with an error is an empty one: the pages before it are     *)
(* given as if they were all. Without an answer the request is left out.      *)
PageFails ==
  /\ stage = "ask" /\ failed = {}
  /\ \/ "page" \in Faults /\ failed' = {"page"} /\ stage' = "filter"
     \/ "connection" \in Faults /\ failed' = {"connection"} /\ stage' = "raised"
  /\ UNCHANGED <<stored, request, answer, options, series>>

(* MintakaPeriodFilter: a value passes if any scope of a period lets it (none *)
(* does if the list is empty). An adjustment counts only if it names the      *)
(* month and the day; neither its year nor the time zone of the hours are     *)
(* looked at.                                                                 *)
Matches(a, t) == a.month = Calendar[t].month /\ a.monthDay = Calendar[t].monthDay
InLists(p, t) == /\ Among(Calendar[t].month, p.months) /\ Among(Calendar[t].monthDay, p.monthDays)
                 /\ Among(Calendar[t].weekDay, p.weekDays) /\ AtHours(Calendar[t].hour, p)
Matching(p, t) == SelectSeq(p.extra, LAMBDA a : Matches(a, t))
ScopeFilterDrops(p, t) == Matching(p, t) = <<>> /\ InLists(p, t)
ScopeFilter(p, t) == IF Matching(p, t) # <<>> THEN ~Head(Matching(p, t)).exclude
                     ELSE InLists(p, t)

Filter == /\ stage = "filter"
          /\ series' = IF request.period = None THEN series
                       ELSE [m \in Measures |-> {t \in series[m] :
                              \E p \in Scopes : ScopeFilter(p, t)}]
          /\ stage' = "done"
          /\ UNCHANGED <<stored, request, answer, options, failed>>

Next == Select \/ NextPage \/ PageFails \/ Filter

Spec == Init /\ [][Next]_vars

-----------------------------------------------------------------------------
(* Type invariant of a request on its way: a page is always asked for with a  *)
(* limit.                                                                     *)
TypeOK == /\ stored \in [Measures -> SUBSET Times] /\ request \in Requests
          /\ answer \in [Measures -> SUBSET Times] /\ series \in [Measures -> SUBSET Times]
          /\ options.limit \in Nat \ {0}
          /\ stage \in {"select", "ask", "filter", "done", "raised"} /\ failed \subseteq Faults

(* What a request asks for, and whether its limit exceeds all there is.       *)
Asked(m) == InRange(stored[m], request.start, request.end)
Ample == request.limit > MapThenSumSet(LAMBDA m : Cardinality(Asked(m)), Range(request.measures))
OneMeasure == Len(request.measures) = 1

(* "Check if all needed data was returned, if not, craft a new request until  *)
(* all data is returned" (__get_entity_data), as far as the code keeps it:    *)
(* the pages give rows of the range up to the limit, and what they leave out  *)
(* is beyond the limit, beyond a page that failed, or within a second under a *)
(* row that was given. Of several measures, whose pages share a limit, this   *)
(* holds while the limit is ample.                                            *)
PagesWhole ==
  stage = "filter" /\ (OneMeasure \/ Ample) =>
    \A m \in Range(request.measures) :
      /\ series[m] \subseteq Asked(m) /\ Cardinality(series[m]) <= request.limit
      /\ \A t \in Asked(m) \ series[m] :
           \/ \E u \in series[m] : t < u /\ u - t < Second
           \/ /\ \A u \in series[m] : t < u
              /\ "page" \in failed \/ Cardinality(series[m]) = request.limit

(* The same without the second under a row. The code does not keep this (see  *)
(* the README): no run checks it.                                             *)
AllDataReturned ==
  stage = "filter" /\ OneMeasure /\ failed = {} =>
    \A m \in Range(request.measures) : series[m] = Newest(Asked(m), request.limit)

(* The answer the interface promises: the first rows, in the order asked for, *)
(* of the range that every scope of the period holds (TimeScope).             *)
Exact(m) == FirstRows({t \in Asked(m) : \A p \in Scopes : InScope(p, t)})

(* The scopes that each source reads as TimeScope does: without months or     *)
(* week days, and with adjustments that name something and do not contradict  *)
(* each other, or that are full dates of any year, with hours in UTC.         *)
SqlReads(p) == /\ p.months = {} /\ p.weekDays = {} /\ \A a \in Range(p.extra) : Names(a)
               /\ \A t \in Times : Cardinality({a.exclude : a \in {b \in Range(p.extra) : Applies(b, t)}}) <= 1
PythonReads(p) == /\ p.zone = 0 \/ p.hours = {}
                  /\ \A a \in Range(p.extra) : a.year = None /\ a.month # None /\ a.monthDay # None

(* Either source gives exactly that answer. Timescale does for every scope it *)
(* reads as TimeScope does, with any order, limit and number of scopes.       *)
(* Mintaka does if there is no period or one of one scope, rows are a second  *)
(* apart, and the limit leaves nothing out or only the oldest rows of a       *)
(* request without a period. A request that fails does not count.             *)
AnswersExact ==
  stage = "done" => \A m \in Range(request.measures) :
    /\ "select" \notin failed /\ (\A p \in Scopes : SqlReads(p)) => answer[m] = Exact(m)
    /\ /\ "page" \notin failed /\ (OneMeasure \/ Ample)
       /\ \A t, u \in Asked(m) : t < u => u - t >= Second
       /\ (request.period = None \/ Cardinality(Scopes) = 1)
       /\ \A p \in Scopes : PythonReads(p)
       /\ \/ Cardinality(Asked(m)) <= request.limit
          \/ request.order = "desc" /\ request.period = None
       => series[m] = Exact(m)

(* "The SQL side of the same filter does exactly the same thing"              *)
(* (TimeScope.in_scope): a row is filtered alike by SQL and by TimeScope. The *)
(* code does not keep this either (see the README).                           *)
RowsInScope ==
  stage = "ask" /\ failed = {} =>
    \A m \in Range(request.measures) : answer[m] = Exact(m)

(* A request that reaches Mintaka is answered. The code does not keep this    *)
(* (see the README): no run checks it.                                        *)
Answers == stage # "raised"

=============================================================================
