------------------------- MODULE TimeSeriesRequests -------------------------
(***************************************************************************)
(* Small instances of the queries of time series: requests of one measure  *)
(* with every kind of range, order, limit and period, of two measures, and *)
(* with a start that has a time zone.  A second is two units of time, so   *)
(* that rows may be within one; a page of Mintaka has two rows.            *)
(***************************************************************************)
EXTENDS Integers, Sequences

CONSTANT None  \* no bound, no adjustment

\* Five times of four days, of two months and two years.
Dates == 0 .. 4
At(year, month, day, weekDay, hour) ==
  [year |-> year, month |-> month, monthDay |-> day, weekDay |-> weekDay, hour |-> hour]
Diary == [t \in Dates |-> CASE t = 0 -> At(0, 0, 0, 2, 0)
                            [] t = 1 -> At(0, 0, 0, 2, 8)
                            [] t = 2 -> At(0, 0, 1, 3, 8)
                            [] t = 3 -> At(0, 1, 0, 5, 23)
                            [] t = 4 -> At(1, 0, 0, 3, 8)]

Ask(measures, start, end, order, limit, period) ==
  [measures |-> measures, start |-> start, end |-> end, order |-> order, limit |-> limit,
   period |-> period, aware |-> FALSE]
Orders == {"asc", "desc", None}

\* Scopes: lists of each kind, hours that pass midnight or are of another zone, and
\* adjustments of a date, of a year, of part of a date, of nothing, and that
\* contradict each other.
Always == [months |-> {}, monthDays |-> {}, weekDays |-> {}, hours |-> {}, zone |-> 0,
           extra |-> <<>>]
Mornings == [Always EXCEPT !.hours = {<<7, 9>>}]
Adjust(year, month, day, exclude) ==
  [year |-> year, month |-> month, monthDay |-> day, exclude |-> exclude]
NewYear(exclude) == Adjust(None, 0, 0, exclude)
SqlScopes ==
  {[Always EXCEPT !.monthDays = {0}], Mornings, [Always EXCEPT !.hours = {<<22, 1>>}],
   [Mornings EXCEPT !.zone = 2], [Mornings EXCEPT !.extra = <<NewYear(TRUE)>>],
   [Mornings EXCEPT !.extra = <<NewYear(FALSE)>>],
   [Mornings EXCEPT !.extra = <<Adjust(0, None, None, TRUE), Adjust(1, 0, 0, FALSE)>>],
   [Mornings EXCEPT !.extra = <<Adjust(0, 0, 0, TRUE)>>],
   [Mornings EXCEPT !.extra = <<Adjust(None, None, 1, TRUE)>>],
   [Always EXCEPT !.monthDays = {1}, !.extra = <<Adjust(None, 1, None, FALSE)>>]}
OddScopes ==
  {[Always EXCEPT !.months = {0}], [Always EXCEPT !.months = {1}],
   [Always EXCEPT !.weekDays = {3}],
   [Always EXCEPT !.weekDays = {2, 3}, !.extra = <<NewYear(TRUE)>>],
   [Mornings EXCEPT !.extra = <<NewYear(TRUE), Adjust(None, 0, None, FALSE)>>],
   [Mornings EXCEPT !.extra = <<Adjust(None, None, None, TRUE)>>]}

Ranged ==
  {Ask(<<"m">>, start, end, order, limit, None) :
     start \in {None, 1}, end \in {None, 3}, order \in Orders, limit \in {1, 3, 6}}
Scoped ==
  {Ask(<<"m">>, None, None, order, limit, <<p>>) :
     order \in {"asc", "desc"}, limit \in {2, 6}, p \in SqlScopes \cup OddScopes}
OtherwiseScoped ==
  {Ask(<<"m">>, None, None, "desc", 6, <<Mornings, p>>) : p \in SqlScopes \cup OddScopes}
  \cup {Ask(<<"m">>, None, None, "desc", 6, <<>>)}
Paired == {Ask(<<"m", "n">>, None, None, "desc", 2, None),
           Ask(<<"m", "n">>, 1, None, "desc", 13, None)}
Zoned == {[Ask(<<"m">>, start, None, "desc", limit, None) EXCEPT !.aware = TRUE] :
            start \in {None, 1}, limit \in {1, 3}}
AllRequests == Ranged \cup Scoped \cup OtherwiseScoped \cup Paired \cup Zoned

=============================================================================
