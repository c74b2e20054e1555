----------------------------- MODULE ReportViews -----------------------------
(***************************************************************************)
(* The calls page (calls-view.tsx) and the analytics page                  *)
(* (analytics-view.tsx) with the routes they read.  The voice agent logs   *)
(* calls and inquiries all the while.                                      *)
(***************************************************************************)
EXTENDS Clock, DashboardApi, SequencesExt

CONSTANTS
  Ranges,      \* AnalyticsRange: RANGE_DAYS of each
  DefaultRange,
  MaxLogs      \* entries logged (a bound)

ASSUME ReportsAssumption ==
  /\ Ranges \subseteq Nat /\ DefaultRange \in Ranges
  /\ LastTime \in Nat

VARIABLES
  logged,      \* call transcripts and inquiries, in the order they are logged
  calls,       \* state of the calls page
  callsLoad,   \* the request it listens to
  charts,      \* state of the analytics page
  summary      \* the request it listens to

(* An inquiry, a call that booked, or another call.                        *)
Entry == [kind : {"inquiry", "booked", "other"}, start : 0 .. LastTime]
Calls == {i \in DOMAIN logged : logged[i].kind # "inquiry"}

-----------------------------------------------------------------------------
(* The API                                                                 *)

(* Mutant: oldest first.                                                   *)
FaultyFindByOrgId ==
  CHOOSE s \in SetToSeqs(Calls) :
    \A i, j \in DOMAIN s : i < j => logged[s[i]].start <= logged[s[j]].start
(* The page sends no filters.                                              *)
FindByOrgId ==
  CHOOSE s \in SetToSeqs(Calls) :
    \A i, j \in DOMAIN s : i < j => logged[s[i]].start >= logged[s[j]].start

(* The three queries of getSummary, each over what is there when it runs.  *)
Since(from, kinds) == {i \in DOMAIN logged : logged[i].kind \in kinds /\ logged[i].start >= from}

(* Mutant: the first day is left out of the points.                        *)
FaultyBucketByDay(starts, from, to) ==
  [d \in UtcDay(from) + 1 .. UtcDay(to) |-> Cardinality({i \in starts : UtcDay(logged[i].start) = d})]
BucketByDay(starts, from, to) ==
  [d \in UtcDay(from) .. UtcDay(to) |-> Cardinality({i \in starts : UtcDay(logged[i].start) = d})]

Later(starts, to) == {i \in starts : UtcDay(logged[i].start) > UtcDay(to)}

NoPoints == [d \in {} |-> 0]
NoSummary ==
  [at |-> "none", range |-> 0, to |-> 0, todo |-> {}, points |-> NoPoints, total |-> 0,
   booked |-> 0, themes |-> 0, late |-> 0, torn |-> FALSE]

SummaryClosed == [NoSummary EXCEPT !.at = "closed"]

From(q) == q.to - 2 * q.range
Queries == {"calls", "outcomes", "themes"}

(* The clock is read when the request arrives, before the queries, which   *)
(* have no upper bound.                                                    *)
StartSummary ==
  /\ summary.at = "sent"
  /\ summary' = [summary EXCEPT !.at = "running", !.to = now]
  /\ UNCHANGED <<now, logged, calls, callsLoad, charts, faults>>

(* One of the queries.  late (history): how many calls of the total began  *)
(* on a day after that of the request; torn (history): something was       *)
(* logged between the queries.                                             *)
ServeQuery ==
  /\ summary.at = "running"
  /\ \E query \in summary.todo :
       LET from == From(summary)
           handled == Since(from, {"booked", "other"})
           r == [summary EXCEPT !.todo = @ \ {query}, !.at = IF summary.todo = {query} THEN "ok" ELSE @]
       IN summary' =
            CASE query = "calls" ->
                   [r EXCEPT !.points = BucketByDay(handled, from, summary.to)]
              [] query = "outcomes" ->
                   [r EXCEPT !.total = Cardinality(handled),
                             !.booked = Cardinality(Since(from, {"booked"})),
                             !.late = Cardinality(Later(handled, summary.to))]
              [] query = "themes" ->
                   [r EXCEPT !.themes = Cardinality(Since(from, {"inquiry"}))]
  /\ UNCHANGED <<now, logged, calls, callsLoad, charts, faults>>

ServeCalls ==
  /\ callsLoad.at = "sent"
  /\ callsLoad' = [at |-> "ok", rows |-> FindByOrgId]
  /\ UNCHANGED <<now, logged, calls, charts, summary, faults>>

ReportFails ==
  /\ Fault
  /\ \/ callsLoad.at = "sent" /\ callsLoad' = [callsLoad EXCEPT !.at = "error"] /\ UNCHANGED summary
     \/ summary.at \in {"sent", "running"} /\ summary' = [summary EXCEPT !.at = "error"] /\ UNCHANGED callsLoad
  /\ UNCHANGED <<now, logged, calls, charts>>

(* A call is logged when it ends, an inquiry while it goes on.             *)
Log ==
  /\ Len(logged) < MaxLogs
  /\ \E kind \in {"inquiry", "booked", "other"} :
       \E start \in IF kind = "inquiry" THEN {now} ELSE {now, now - 1} :
         logged' = Append(logged, [kind |-> kind, start |-> start])
  /\ summary' = [summary EXCEPT !.torn = @ \/ (summary.at = "running" /\ summary.todo # Queries)]
  /\ UNCHANGED <<now, calls, callsLoad, charts, faults>>

Tick ==
  /\ now < LastTime /\ now' = now + 1
  /\ UNCHANGED <<logged, calls, callsLoad, charts, summary, faults>>

-----------------------------------------------------------------------------
(* The calls page.  drawn (history): when it was last rendered.            *)

NoCallsLoad == [at |-> "none", rows |-> <<>>]
CallsOpened == [shown |-> "skeleton", rows |-> <<>>, selected |-> 0, drawn |-> 0]

RetryCalls ==
  /\ calls.shown = "error"
  /\ calls' = [calls EXCEPT !.shown = "skeleton", !.rows = <<>>, !.drawn = now]
  /\ callsLoad' = [NoCallsLoad EXCEPT !.at = "sent"]
  /\ UNCHANGED <<now, logged, charts, summary, faults>>

CallsShown(rows) == IF rows = <<>> THEN "empty" ELSE "rows"

HearCalls ==
  /\ callsLoad.at \in {"ok", "error"}
  /\ calls' = [calls EXCEPT !.shown = IF callsLoad.at = "ok" THEN CallsShown(callsLoad.rows) ELSE "error",
                            !.rows = callsLoad.rows, !.drawn = now]
  /\ callsLoad' = NoCallsLoad
  /\ UNCHANGED <<now, logged, charts, summary, faults>>

SelectCall ==
  /\ calls.shown = "rows"
  /\ \E i \in Range(calls.rows) : calls' = [calls EXCEPT !.selected = i, !.drawn = now]
  /\ UNCHANGED <<now, logged, callsLoad, charts, summary, faults>>

CloseCall ==
  /\ calls.selected # 0
  /\ calls' = [calls EXCEPT !.selected = 0, !.drawn = now]
  /\ UNCHANGED <<now, logged, callsLoad, charts, summary, faults>>

(* groupByDay: today's calls and the others.                               *)
GroupByDay(rows, at) ==
  FoldLeft(LAMBDA groups, i :
             IF LocalDay(logged[i].start) = LocalDay(at)
             THEN <<Append(groups[1], i), groups[2]>>
             ELSE <<groups[1], Append(groups[2], i)>>,
           << <<>>, <<>> >>, rows)

-----------------------------------------------------------------------------
(* The analytics page.                                                     *)

(* blank (history): the data was taken away and nothing asked for.         *)
ChartsOpened == [range |-> DefaultRange, shown |-> "skeleton", data |-> NoSummary, blank |-> FALSE]
AskSummary(range) == [NoSummary EXCEPT !.at = "sent", !.range = range, !.todo = Queries]

RetryCharts ==
  /\ charts.shown = "error"
  /\ charts' = [charts EXCEPT !.shown = "skeleton", !.data = NoSummary]
  /\ summary' = AskSummary(charts.range)
  /\ UNCHANGED <<now, logged, calls, callsLoad, faults>>

(* Mutant: the answer to the earlier choice is still listened to.          *)
FaultySelectRange ==
  /\ \E range \in Ranges :
       /\ charts' = [ChartsOpened EXCEPT !.range = range]
       /\ summary' = IF summary.at = "none" THEN AskSummary(range) ELSE summary
  /\ UNCHANGED <<now, logged, calls, callsLoad, faults>>

(* The chosen range again: the data goes and nothing is asked for.         *)
SelectRange ==
  /\ \E range \in Ranges :
       /\ charts' = [ChartsOpened EXCEPT !.range = range,
                                         !.blank = (range = charts.range /\ summary.at = "none")]
       /\ summary' = IF range = charts.range THEN summary ELSE AskSummary(range)
  /\ UNCHANGED <<now, logged, calls, callsLoad, faults>>

ChartsShown(data) == IF data.total = 0 THEN "empty" ELSE "charts"

HearSummary ==
  /\ summary.at \in {"ok", "error"}
  /\ charts' = IF summary.at = "ok"
               THEN [charts EXCEPT !.shown = ChartsShown(summary), !.data = summary]
               ELSE [charts EXCEPT !.shown = "error"]
  /\ summary' = NoSummary
  /\ UNCHANGED <<now, logged, calls, callsLoad, faults>>

-----------------------------------------------------------------------------
ReportsTypeOK ==
  /\ now \in 0 .. LastTime /\ logged \in Seq(Entry)
  /\ calls.shown \in {"skeleton", "error", "empty", "rows"} /\ Range(calls.rows) \subseteq Calls
  /\ calls.selected \in Range(calls.rows) \cup {0}
  /\ charts.range \in Ranges /\ charts.shown \in {"skeleton", "error", "empty", "charts"}
  /\ summary.todo \subseteq Queries /\ (summary.at = "none" => summary = NoSummary)

(* Cutting the calls into Today and Earlier keeps them as the API orders   *)
(* them, latest first, whenever the page is drawn: no call of an earlier   *)
(* day comes before one of today.                                          *)
CallsInOrder ==
  LET groups == GroupByDay(calls.rows, calls.drawn) IN
  calls.shown = "rows" => groups[1] \o groups[2] = calls.rows

(* The points of the shown volume chart add up to its total of calls but   *)
(* for the calls that began after the UTC day of the request, which are in *)
(* no point: the two come of queries of their own, bounded below only, and *)
(* the days are cut at a clock read before them.  Unless something was     *)
(* logged between the queries (getSummary, bucketByDay).                   *)
VolumeAddsUp ==
  LET data == charts.data IN
  charts.shown = "charts" /\ ~data.torn => SumFunction(data.points) + data.late = data.total

(* The charts are those of the chosen range, and the skeleton is shown     *)
(* only while they are under way, unless the range was chosen again.       *)
ChartsFollowRange ==
  /\ charts.shown = "charts" => charts.data.range = charts.range
  /\ charts.shown = "skeleton" /\ summary.at = "none" => charts.blank
=============================================================================
