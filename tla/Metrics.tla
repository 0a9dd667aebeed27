--------------------------------- MODULE Metrics --------------------------------
(***************************************************************************)
(* The request statistics of one node: store/metrics.go, the tasks of      *)
(* scheduler.go and the two operations of api_metrics.go that write.       *)
(*                                                                         *)
(* Every attempt that ends becomes a row of node_metrics_raw, a little     *)
(* after the time it carries.  Once an hour a task makes hours of raw      *)
(* rows, days of hours and months of days, one statement after the other,  *)
(* each of which replaces the buckets it finds something for.  Once a day  *)
(* another task deletes what is older than its table keeps.  An            *)
(* administrator may do either at any time, for a window of his choice,    *)
(* and the process may stop for any time.                                  *)
(*                                                                         *)
(* Of a row only its request is kept: the other columns are treated in the *)
(* same way.  Other nodes and accounts only add groups to the statements.  *)
(* Time is in ticks, of which an hour, a day and a month have few; what a  *)
(* statement sees of the tick it runs in is left out.  The database is     *)
(* MySQL; the history of health checks, which the daily task cuts as well, *)
(* is left out.                                                            *)
(***************************************************************************)
EXTENDS Integers, FiniteSets

CONSTANTS
    HourLen,                        \* ticks
    HoursPerDay, DaysPerMonth,
    CleanupHour,                    \* of the day
    RawKeep, HourKeep, DayKeep,     \* retention, in ticks
    MaxLag,         \* of a row and of a task, in ticks: their time limits
    Windows,        \* how long, in ticks, the windows of an administrator are
    MaxTime, MaxRows,       \* bounds of the model
    MaxTroubles     \* operations of an administrator, stops and errors

DayLen == HoursPerDay * HourLen
MonthLen == DaysPerMonth * DayLen

ASSUME ConfigAssumption ==
    /\ {HourLen, HoursPerDay, DaysPerMonth} \subseteq Nat \ {0}
    /\ CleanupHour \in 0 .. HoursPerDay - 1
    /\ MaxLag \in 0 .. HourLen - 1
    /\ HoursPerDay >= 2
    /\ RawKeep >= 2 * HourLen + MaxLag
    /\ HourKeep >= 2 * DayLen + MaxLag /\ DayKeep >= 2 * MonthLen + MaxLag
    /\ {RawKeep, HourKeep, DayKeep} \cup Windows \subseteq Nat
    /\ {MaxTime, MaxRows, MaxTroubles} \subseteq Nat
    /\ (MaxTime + 1) % MonthLen = 0        \* whole months

Time == 0 .. MaxTime
HourOf(t) == t \div HourLen
DayOf(t) == t \div DayLen
MonthOf(t) == t \div MonthLen
Hour == 0 .. HourOf(MaxTime)
Day == 0 .. DayOf(MaxTime)
Month == 0 .. MonthOf(MaxTime)
Row == 1 .. MaxRows
Count == 0 .. MaxRows
Target == {"hour", "day", "month"}
Cleaner == {"scheduled", "admin"}

VARIABLES
    now,
    ended, ts,      \* attempts so far, and when they ended
    late,           \* those with no row yet
    raw,            \* those with a row in node_metrics_raw
    hourly, daily, monthly,     \* requests_total of each bucket, 0: no row
    up,             \* the process runs
    agg,            \* aggregateLoop
    clean,          \* cleanupLoop, and the request of an administrator
    inserted,       \* rows ever inserted
    prompt,         \* those inserted before their hour was over
    ops, stops, faults

tables == <<raw, hourly, daily, monthly>>
tasks == <<up, agg, clean>>
history == <<inserted, prompt>>
requests == <<ended, ts, late>>
vars == <<now, tables, requests, tasks, history, ops, stops, faults>>

Part(b, size) == b * size .. b * size + size - 1
(* Of table[s] for s in S, counted in units: proofs reason about sets.     *)
Sum(table, S) == Cardinality(UNION {{s} \X (1 .. table[s]) : s \in S})
Rows(table, b, size) == {r \in table : ts[r] \div size = b}
None(S) == [s \in S |-> 0]
---------------------------------------------------------------------------
\* The statements of store/metrics.go

Accumulated(old, sum) == old + sum                                  \* mutant
\* ON DUPLICATE KEY UPDATE; a bucket with no source row is not mentioned
Replaced(old, sum) == IF sum = 0 THEN old ELSE sum

\* INSERT ... SELECT ... GROUP BY, from rows
Counted(from, to) ==
    [h \in Hour |->
        Replaced(hourly[h], Cardinality({r \in Rows(raw, h, HourLen) :
                                            from <= ts[r] /\ ts[r] < to}))]

(* From buckets, which have "per" sources, each of "unit" ticks and chosen *)
(* by the tick it starts at.  GROUP BY bucket_start names the column of    *)
(* the source table and not the bucket that is selected under that name,   *)
(* so that every source is a group of its own, with the key of the others: *)
(* each is written over the one before, and any of them may be the last.   *)
Sources(b, unit, per, from, to) ==
    {s \in Part(b, per) : from <= s * unit /\ s * unit < to}
Aggregated(dst, src, unit, per, from, to) ==
    LET counts == [b \in DOMAIN dst |->
                      {src[s] : s \in Sources(b, unit, per, from, to)} \ {0}]
        found == {b \in DOMAIN dst : counts[b] # {}}
    IN {[b \in DOMAIN dst |-> IF b \in found THEN last[b] ELSE dst[b]] :
            last \in {f \in [found -> Count] : \A b \in found : f[b] \in counts[b]}}

AggregateMetrics(target, from, to) ==
    \/ /\ target = "hour"
       /\ hourly' = Counted(from, to)
       /\ UNCHANGED <<raw, daily, monthly>>
    \/ /\ target = "day"
       /\ daily' \in Aggregated(daily, hourly, HourLen, HoursPerDay, from, to)
       /\ UNCHANGED <<raw, hourly, monthly>>
    \/ /\ target = "month"
       /\ monthly' \in Aggregated(monthly, daily, DayLen, DaysPerMonth, from, to)
       /\ UNCHANGED <<raw, hourly, daily>>

Kept(table, unit, cutoff) ==
    [s \in DOMAIN table |-> IF s * unit < cutoff THEN 0 ELSE table[s]]

CleanupMetrics(table, at) ==
    \/ /\ table = "raw"
       /\ raw' = {r \in raw : ts[r] >= at - RawKeep}
       /\ UNCHANGED <<hourly, daily, monthly>>
    \/ /\ table = "hour"
       /\ hourly' = Kept(hourly, HourLen, at - HourKeep)
       /\ UNCHANGED <<raw, daily, monthly>>
    \/ /\ table = "day"
       /\ daily' = Kept(daily, DayLen, at - DayKeep)
       /\ UNCHANGED <<raw, hourly, monthly>>

(* The trend of the last day, as shown: buckets of the hours that are      *)
(* over, and the rows of the hour that is not.                             *)
TrendHoursNow(thisHour) ==                                          \* mutant
    {h \in Hour : now - DayLen <= h * HourLen /\ h <= thisHour}
TrendHours(thisHour) ==
    {h \in Hour : now - DayLen <= h * HourLen /\ h < thisHour}
TrendRows(thisHour) == {r \in Rows(raw, thisHour, HourLen) : ts[r] < now}
Trend24h ==
    LET thisHour == HourOf(now)
    IN Sum(hourly, TrendHours(thisHour)) + Cardinality(TrendRows(thisHour))

Calm == ops + stops + faults < MaxTroubles
Works == UNCHANGED faults
Fails == Calm /\ faults' = faults + 1
---------------------------------------------------------------------------
\* Requests

\* recordMetrics takes the time of the row ...
EndAttempt ==
    /\ up
    /\ ended < MaxRows /\ ended' = ended + 1
    /\ ts' = [ts EXCEPT ![ended'] = now]
    /\ late' = late \cup {ended'}
    /\ UNCHANGED <<now, tables, tasks, history, ops, stops, faults>>

\* ... and inserts it after it has written the node, or fails to
InsertMetrics(r, ok) ==
    /\ up /\ r \in late
    /\ late' = late \ {r}
    /\ IF ok
       THEN /\ raw' = raw \cup {r}
            /\ inserted' = inserted \cup {r}
            /\ prompt' = IF HourOf(ts[r]) = HourOf(now) THEN prompt \cup {r} ELSE prompt
            /\ Works
       ELSE Fails /\ UNCHANGED <<raw, history>>
    /\ UNCHANGED <<now, ended, ts, hourly, daily, monthly, tasks, ops, stops>>
---------------------------------------------------------------------------
\* aggregateLoop

Waiting(due, first) == [pc |-> "wait", at |-> 0, due |-> due, first |-> first]
NextAggregate(t) == (HourOf(t) + 1) * HourLen

StartAggregation ==
    /\ up /\ agg.pc = "wait" /\ now = agg.due
    /\ agg' = [agg EXCEPT !.pc = "hour", !.at = now]
    /\ UNCHANGED <<now, tables, requests, up, clean, history, ops, stops, faults>>

\* The ticker is made when the first run is over, and ticks from then on
AggregationOver ==
    agg' = Waiting(IF agg.first THEN now + HourLen ELSE agg.due + HourLen, FALSE)

\* The windows of the three statements
LastHour(at) == <<at - HourLen, at>>                                \* mutant
LastTwoHours(at) == <<at - 2 * HourLen, at>>

Last24Hours(at) == <<at - DayLen, at>>                              \* mutant
Yesterday(at) == <<(DayOf(at) - 1) * DayLen, DayOf(at) * DayLen>>
LastMonth(at) == <<(MonthOf(at) - 1) * MonthLen, MonthOf(at) * MonthLen>>

Window(target, at) == CASE target = "hour" -> LastTwoHours(at)
                        [] target = "day" -> Yesterday(at)
                        [] target = "month" -> LastMonth(at)

\* runAggregation: an error of one statement does not stop the next
RunAggregation(ok) ==
    LET window == Window(agg.pc, agg.at)
    IN /\ up /\ agg.pc # "wait"
       /\ IF ok THEN Works /\ AggregateMetrics(agg.pc, window[1], window[2])
                ELSE Fails /\ UNCHANGED tables
       /\ \/ agg.pc = "hour" /\ agg' = [agg EXCEPT !.pc = "day"]
          \/ agg.pc = "day" /\ agg' = [agg EXCEPT !.pc = "month"]
          \/ agg.pc = "month" /\ AggregationOver
       /\ UNCHANGED <<now, requests, up, clean, history, ops, stops>>
---------------------------------------------------------------------------
\* cleanupLoop and handleCleanupMetrics

NextCleanup(t) ==
    LET today == DayOf(t) * DayLen + CleanupHour * HourLen
    IN IF today > t THEN today ELSE today + DayLen

StartCleanup ==
    /\ up /\ clean["scheduled"].pc = "wait" /\ now = clean["scheduled"].due
    /\ clean' = [clean EXCEPT !["scheduled"].pc = "raw", !["scheduled"].at = now]
    /\ UNCHANGED <<now, tables, requests, up, agg, history, ops, stops, faults>>

HandleCleanupMetrics ==
    /\ up /\ clean["admin"].pc = "wait" /\ Calm
    /\ clean' = [clean EXCEPT !["admin"].pc = "raw", !["admin"].at = now]
    /\ ops' = ops + 1
    /\ UNCHANGED <<now, tables, requests, up, agg, history, stops, faults>>

CleanupOver(c) ==
    IF c = "admin" THEN Waiting(0, FALSE)
    ELSE Waiting(IF clean[c].first THEN now + DayLen ELSE clean[c].due + DayLen, FALSE)

\* One DELETE after the other, up to the first that fails
RunCleanup(c, ok) ==
    LET pc == clean[c].pc
    IN /\ up /\ pc # "wait"
       /\ IF ok THEN Works /\ CleanupMetrics(pc, clean[c].at)
                ELSE Fails /\ UNCHANGED tables
       /\ \/ /\ ok /\ pc \in {"raw", "hour"}
             /\ clean' = [clean EXCEPT ![c].pc = IF pc = "raw" THEN "hour" ELSE "day"]
          \/ /\ pc = "day" \/ ~ok
             /\ clean' = [clean EXCEPT ![c] = CleanupOver(c)]
       /\ UNCHANGED <<now, requests, up, agg, history, ops, stops>>
---------------------------------------------------------------------------
\* handleAggregateMetrics: any window that ends after it begins
HandleAggregateMetrics(target, from, to) ==
    /\ up /\ Calm /\ from < to
    /\ AggregateMetrics(target, from, to)
    /\ ops' = ops + 1
    /\ UNCHANGED <<now, requests, tasks, history, stops, faults>>
---------------------------------------------------------------------------
\* The process and its clock

Schedule(t) ==
    /\ agg' = Waiting(NextAggregate(t), TRUE)
    /\ clean' = [c \in Cleaner |-> IF c = "admin" THEN Waiting(0, FALSE)
                                   ELSE Waiting(NextCleanup(t), TRUE)]

Stop ==
    /\ up /\ Calm
    /\ up' = FALSE
    /\ late' = {}
    /\ stops' = stops + 1
    /\ UNCHANGED <<now, ended, ts, tables, agg, clean, history, ops, faults>>

Start ==
    /\ ~up /\ up' = TRUE
    /\ Schedule(now)
    /\ UNCHANGED <<now, tables, requests, history, ops, stops, faults>>

InTimeUnlimited(task) == task.pc = "wait" => now < task.due          \* mutant
\* Timers fire in time, and nothing takes longer than its context allows
InTime(task) == IF task.pc = "wait" THEN now < task.due ELSE now < task.at + MaxLag

Tick ==
    /\ now < MaxTime /\ now' = now + 1
    /\ up => /\ InTime(agg) /\ InTime(clean["scheduled"])
             /\ clean["admin"].pc # "wait" => InTime(clean["admin"])
             /\ \A r \in late : now < ts[r] + MaxLag
    /\ UNCHANGED <<tables, requests, tasks, history, ops, stops, faults>>

Init ==
    /\ now = 0 /\ up = TRUE
    /\ ended = 0 /\ ts = None(Row) /\ late = {} /\ raw = {}
    /\ hourly = None(Hour) /\ daily = None(Day) /\ monthly = None(Month)
    /\ agg = Waiting(NextAggregate(0), TRUE)
    /\ clean = [c \in Cleaner |-> IF c = "admin" THEN Waiting(0, FALSE)
                                  ELSE Waiting(NextCleanup(0), TRUE)]
    /\ inserted = {} /\ prompt = {}
    /\ ops = 0 /\ stops = 0 /\ faults = 0

Next ==
    \/ EndAttempt
    \/ \E r \in late, ok \in BOOLEAN : InsertMetrics(r, ok)
    \/ StartAggregation
    \/ \E ok \in BOOLEAN : RunAggregation(ok)
    \/ StartCleanup
    \/ HandleCleanupMetrics
    \/ \E c \in Cleaner, ok \in BOOLEAN : RunCleanup(c, ok)
    \/ \E target \in Target, d \in Windows, to \in {now - 1, now} :
            HandleAggregateMetrics(target, to - d, to)
    \/ Stop
    \/ Start
    \/ Tick

Spec == Init /\ [][Next]_vars
---------------------------------------------------------------------------
Loop(pcs) == [pc : {"wait"} \cup pcs, at : Time, due : Nat, first : BOOLEAN]

(* A task that waits has its time ahead of it, one that runs is within its *)
(* context, and a row is written within the limit of its request.          *)
TypeOK ==
    /\ now \in Time /\ up \in BOOLEAN
    /\ ended \in Count /\ ts \in [Row -> Time]
    /\ raw \subseteq inserted /\ prompt \subseteq inserted
    /\ inserted \subseteq 1 .. ended /\ late \subseteq 1 .. ended \ inserted
    /\ hourly \in [Hour -> Count] /\ daily \in [Day -> Count]
    /\ monthly \in [Month -> Count]
    /\ agg \in Loop(Target)
    /\ clean \in [Cleaner -> Loop({"raw", "hour", "day"})]
    /\ {ops, stops, faults} \subseteq 0 .. MaxTroubles
    /\ up => /\ agg.due >= now - MaxLag
             /\ clean["scheduled"].due >= now - MaxLag
             /\ \A r \in late : now - ts[r] \in 0 .. MaxLag

HoursNeverOver ==
    \A h \in Hour : hourly[h] <= Cardinality(Rows(inserted, h, HourLen))

(* No bucket and no trend counts a request twice, or one that was never    *)
(* inserted: windows overlap from one run to the next, an administrator    *)
(* repeats them at will, what is replaced has been summed before, and the  *)
(* hour that is not over may have a bucket already.                        *)
NeverOverCounts ==
    /\ Trend24h <= Cardinality({r \in inserted : ts[r] >= now - DayLen})
    /\ HoursNeverOver
    /\ \A d \in Day : daily[d] <= Cardinality(Rows(inserted, d, DayLen))
    /\ \A m \in Month : monthly[m] <= Cardinality(Rows(inserted, m, MonthLen))

\* Past the part of its hour that a run starts late by
Body(rows, b, size) == {r \in Rows(rows, b, size) : ts[r] % HourLen >= MaxLag}

(* Whatever happened before -- late rows, failed runs, a stop, a clean-up, *)
(* windows cut at will -- the statement that sums hours brings the last    *)
(* two up to what was inserted, the first ticks of the older one excepted: *)
(* its window starts two hours before the run, not on the hour.            *)
HoursComplete ==
    [][agg.pc = "hour" /\ agg'.pc = "day" /\ faults' = faults =>
          \A h \in Hour \cap {HourOf(agg.at) - 1, HourOf(agg.at) - 2} :
              hourly'[h] >= Cardinality(Body(inserted, h, HourLen))]_vars

(* While the process runs and nobody interferes, a day and a month with a  *)
(* request have a bucket by the second run after they end, requests of the *)
(* first ticks of hours excepted; and if one statement failed, so have     *)
(* those of requests inserted before their hour was over.                  *)
BucketsAppear ==
    stops = 0 /\ ops = 0 /\ faults <= 1 =>
        LET rows == IF faults = 0 THEN inserted ELSE prompt
            Settled(b, size) == now > (b + 1) * size + 2 * HourLen + 2 * MaxLag
        IN /\ \A d \in Day : /\ Settled(d, DayLen) /\ d * DayLen >= now - DayKeep
                            /\ Body(rows, d, DayLen) # {}
                            => daily[d] > 0
           /\ \A m \in Month : Settled(m, MonthLen) /\ Body(rows, m, MonthLen) # {}
                              => monthly[m] > 0

(* What docs/monitoring-data-persistence.md says of the daily statement,   *)
(* GROUP BY account_id, node_id, DATE(bucket_start): a bucket that it      *)
(* writes has the sum of the hours of its day.  It does not.               *)
DailyIsSum ==
    [][agg.pc = "day" /\ agg'.pc = "month" =>
          \A d \in Day : daily'[d] # daily[d] =>
              daily'[d] = Sum(hourly, Part(d, HoursPerDay))]_vars
=============================================================================
