-------------------------------- MODULE Views --------------------------------
(***************************************************************************)
(* Page views: the beacon that records them (internal/server/public.go,     *)
(* internal/store/views.go) and the dashboard that counts them              *)
(* (internal/server/admin.go).                                              *)
(*                                                                         *)
(* The dashboard asks one question of the table after the other, in no      *)
(* transaction, while beacons come in and the day may change; what it shows *)
(* as shares and sums combines several answers.  A day is a number here,    *)
(* and a month has DaysPerMonth of them.                                    *)
(***************************************************************************)
EXTENDS Integers, Sequences, FiniteSetsExt

CONSTANTS
    Visitors,       \* addresses, as hashIP tells them apart
    Paths, Pages,   \* what beacons name, and those that are pages of the site
    Referrers, NoReferrer,
    DaysPerMonth,
    Ranges,         \* Days of the dashboardRanges; 0 is all time
    ChartDayLimit, MaxDashboardRows,
    MaxDay, MaxBeacons, MaxDashboards   \* bounds

ASSUME ViewsAssumption ==
    /\ Pages \subseteq Paths /\ Ranges \subseteq Nat
    /\ {DaysPerMonth, MaxDashboardRows} \subseteq Nat \ {0}
    /\ {ChartDayLimit, MaxDay, MaxBeacons, MaxDashboards} \subseteq Nat

VARIABLES
    today,        \* today()
    views,        \* the table
    dash,         \* the locals of a request for the dashboard
    beacons, dashboards

viewVars == <<today, views, dash, beacons, dashboards>>

NoDash == [left |-> <<>>]

ViewsInit ==
    /\ today \in 0..DaysPerMonth - 1
    /\ views = {} /\ dash = NoDash
    /\ beacons = 0 /\ dashboards = 0

SameView(v, path, who) == v.path = path /\ v.day = today /\ v.who = who

\* handleTrack, past the author's session, the limit and the bots; paths that are not pages
\* are dropped.  RecordView: one row for a page, a day and a visitor, the first.
RecordView(path, who, referrer) ==
    /\ path \in Pages /\ beacons < MaxBeacons
    /\ beacons' = beacons + 1
    /\ views' = IF \E v \in views : SameView(v, path, who) THEN views
                ELSE views \cup {[path |-> path, day |-> today, who |-> who,
                                  referrer |-> referrer, dwell |-> 0]}
    /\ UNCHANGED <<today, dash, dashboards>>

\* AddDwell: to the row of the day of the report, and to none if there is none.
AddDwell(path, who) ==
    /\ path \in Pages /\ beacons < MaxBeacons
    /\ beacons' = beacons + 1
    /\ views' = {IF SameView(v, path, who) THEN [v EXCEPT !.dwell = @ + 1] ELSE v : v \in views}
    /\ UNCHANGED <<today, dash, dashboards>>

Midnight ==
    /\ today < MaxDay
    /\ today' = today + 1
    /\ UNCHANGED <<views, dash, beacons, dashboards>>

-----------------------------------------------------------------------------
(* Answers of the store.                                                     *)

\* TotalViews, UniqueVisitors
TotalViews(since)     == Cardinality({v \in views : v.day >= since})
UniqueVisitors(since) == Cardinality({v.who : v \in {x \in views : x.day >= since}})
FirstViewDay          == IF views = {} THEN dash.today ELSE Min({v.day : v \in views})

\* The rows with the highest counts.
Busiest(counts) ==
    LET n == Min({MaxDashboardRows, Cardinality(counts)})
    IN CHOOSE top \in SUBSET counts :
         /\ Cardinality(top) = n
         /\ \A r \in top, s \in counts \ top : r.count >= s.count

\* TopPaths
TopPaths(since) ==
    LET seen == {v \in views : v.day >= since}
    IN Busiest({[label |-> p, count |-> Cardinality({v \in seen : v.path = p})] :
                  p \in {v.path : v \in seen}})

\* labelCounts: rows without the label count for none.
TopReferrers(since) ==
    LET seen == {v \in views : v.day >= since /\ v.referrer # NoReferrer}
    IN Busiest({[label |-> r, count |-> Cardinality({v \in seen : v.referrer = r})] :
                  r \in {v.referrer : v \in seen}})

-----------------------------------------------------------------------------
(* The chart.                                                                *)

MonthOf(day) == day \div DaysPerMonth

\* From the first of the starting month, a month at a time, until past the end.
Months(since, until) ==
    LET first == MonthOf(since) * DaysPerMonth
    IN {MonthOf(first + k * DaysPerMonth) : k \in {n \in 0..until - first : first + n * DaysPerMonth <= until}}

ByDay(range, since) ==
    (range # 0 /\ range <= ChartDayLimit) \/ dash.today - since <= ChartDayLimit

\* viewsChart, with ViewsByDay or ViewsByMonth: the bars, and (history) what is in the window.
Chart(range, since) ==
    LET window == {v \in views : v.day >= since /\ v.day <= dash.today}
    IN [bars |-> IF ByDay(range, since)
                 THEN {[key |-> d, count |-> Cardinality({v \in window : v.day = d})] :
                         d \in since..dash.today}
                 ELSE {[key |-> m, count |-> Cardinality({v \in window : MonthOf(v.day) = m})] :
                         m \in Months(since, dash.today)},
        window |-> Cardinality(window)]

-----------------------------------------------------------------------------
(* The dashboard.                                                            *)

\* Mutant: the sum is asked for before what it is the sum of.
Queries_Mutant == <<"first", "chart", "topTotal", "top", "visitors", "refTotal", "referrers">>

Queries == <<"first", "chart", "top", "topTotal", "visitors", "referrers", "refTotal">>

BeginDashboard(chartRange, range) ==
    /\ dash = NoDash /\ dashboards < MaxDashboards
    /\ dashboards' = dashboards + 1
    /\ dash' = [left |-> Queries, today |-> today, chartRange |-> chartRange, range |-> range,
                first |-> 0, chart |-> [bars |-> {}, window |-> 0], top |-> {}, topTotal |-> 0,
                visitors |-> 0, referrers |-> {}, refTotal |-> 0]
    /\ UNCHANGED <<today, views, beacons>>

\* since, windowStart: all time has no lower bound, but on the chart.
Since(range, first) == IF range = 0 THEN first ELSE dash.today - (range - 1)

AnswerTo(query) ==
    LET since == Since(dash.range, 0) IN
    CASE query = "first"     -> FirstViewDay
      [] query = "chart"     -> Chart(dash.chartRange, Since(dash.chartRange, dash.first))
      [] query = "top"       -> TopPaths(since)
      [] query = "topTotal"  -> TotalViews(since)
      [] query = "visitors"  -> UniqueVisitors(since)
      [] query = "referrers" -> TopReferrers(since)
      [] query = "refTotal"  -> TotalViews(since)

Ask ==
    /\ dash.left # <<>>
    /\ dash' = [dash EXCEPT ![Head(dash.left)] = AnswerTo(Head(dash.left)), !.left = Tail(@)]
    /\ UNCHANGED <<today, views, beacons, dashboards>>

RenderDashboard ==
    /\ dash # NoDash /\ dash.left = <<>>
    /\ dash' = NoDash
    /\ UNCHANGED <<today, views, beacons, dashboards>>

ViewsNext ==
    \/ \E path \in Paths, who \in Visitors :
         \/ \E r \in Referrers \cup {NoReferrer} : RecordView(path, who, r)
         \/ AddDwell(path, who)
    \/ Midnight
    \/ \E chartRange, range \in Ranges : BeginDashboard(chartRange, range)
    \/ Ask
    \/ RenderDashboard

ViewsSpec == ViewsInit /\ [][ViewsNext]_viewVars

-----------------------------------------------------------------------------
(* Properties.                                                              *)

\* The sum of the counts: as many as there are marks, when every row gets one for each
\* that it counts.
Total(rows) == Cardinality(UNION {{r} \X (1..r.count) : r \in rows})

\* What the dashboard shows adds up, whatever is recorded while it asks and if midnight
\* passes: the pages and the sites listed never have more than all of the views they are
\* shown as shares of, and every view in the chart's window, from whatever day of a month
\* it starts, is in one of its bars.
NumbersAddUp ==
    dash # NoDash /\ dash.left = <<>> =>
        /\ Total(dash.top) <= dash.topTotal
        /\ Total(dash.referrers) <= dash.refTotal
        /\ Total(dash.chart.bars) = dash.chart.window
=============================================================================
