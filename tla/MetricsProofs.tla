----------------------------- MODULE MetricsProofs ------------------------------
(***************************************************************************)
(* Proofs about Metrics: no bucket of an hour, a day or a month and no     *)
(* trend counts a request twice (HoursNeverOver, NeverOverCounts), and the *)
(* hourly statement brings the last two hours up to what was inserted      *)
(* (HoursComplete), for every sequence of late rows, failed runs, stops,   *)
(* clean-ups and windows; and while nobody interferes and at most one      *)
(* statement fails, no day and no month with requests is without a bucket  *)
(* (BucketsAppear).  All this for every length of an hour, a day and a     *)
(* month, and every time limit shorter than an hour.                       *)
(*                                                                         *)
(* For the hours, little has to be known of the schedule: a run starts     *)
(* within MaxLag of the hour (OnSchedule), and a row that is no longer     *)
(* there is older than RawKeep (OnlyOldAreGone).  A day or a month has the *)
(* count of one of its parts (AggregatedOne), whose rows are all of that   *)
(* bucket; and the trend is a sum of hours that have no row in common      *)
(* (SumBound).  The types, the limits of time among them, need an          *)
(* invariant of their own (Course).  BucketsAppear follows from what each  *)
(* table owes to the last run of its statement (RolledUp): a run hands on  *)
(* to the days what the hours have, and to the months what the days have.  *)
(***************************************************************************)
EXTENDS Metrics, FiniteSetTheorems, TLAPS

OffHour(t) == t % HourLen

Types ==
    /\ now \in Nat /\ up \in BOOLEAN
    /\ ended \in Nat /\ ts \in [Row -> Nat]
    /\ raw \subseteq inserted /\ inserted \subseteq Row /\ late \subseteq Row
    /\ inserted \subseteq 1 .. ended /\ late \subseteq 1 .. ended
    /\ hourly \in [Hour -> Nat]
    /\ agg \in [pc : {"wait"} \cup Target, at : Nat, due : Nat, first : BOOLEAN]
    /\ clean \in [Cleaner -> [pc : {"wait", "raw", "hour", "day"}, at : Nat,
                              due : Nat, first : BOOLEAN]]
    /\ faults \in Nat

(* The first run is on the hour, a later one as late as the first ended;   *)
(* what runs is within its context.                                        *)
OnSchedule ==
    /\ agg.first => OffHour(agg.due) = 0
    /\ OffHour(agg.due) <= MaxLag
    /\ agg.pc # "wait" => agg.at = agg.due /\ agg.at <= now
    /\ up /\ agg.pc # "wait" => now <= agg.at + MaxLag
    /\ \A c \in Cleaner : clean[c].pc # "wait" => clean[c].at <= now

OnlyOldAreGone == \A r \in inserted \ raw : ts[r] < now - RawKeep

Inv == Types /\ OnSchedule /\ OnlyOldAreGone /\ HoursNeverOver
---------------------------------------------------------------------------
\* Hours

\* An instant is its hour and its distance from it
LEMMA DivMod ==
    ASSUME NEW t \in Nat
    PROVE  /\ HourLen \in Nat \ {0}
           /\ HourOf(t) \in Nat
           /\ OffHour(t) \in 0 .. HourLen - 1
           /\ t = HourOf(t) * HourLen + OffHour(t)
  <1>1. HourLen \in Nat /\ HourLen > 0
    BY ConfigAssumption
  <1> QED
    BY <1>1, SMT DEF HourOf, OffHour

\* ... and only that one
LEMMA DivModUnique ==
    ASSUME NEW k \in Nat, NEW j \in 0 .. HourLen - 1
    PROVE  k * HourLen + j \in Nat /\ OffHour(k * HourLen + j) = j
  <1>1. HourLen \in Nat /\ HourLen > 0
    BY ConfigAssumption
  <1>2. k * HourLen \in Nat
    BY <1>1, SMT
  <1> QED
    BY <1>1, <1>2, SMT DEF OffHour

\* A ticker keeps its distance from the hour
LEMMA OneHourLater ==
    ASSUME NEW t \in Nat
    PROVE  t + HourLen \in Nat /\ OffHour(t + HourLen) = OffHour(t)
  <1>1. HourLen \in Nat /\ HourLen > 0
    BY ConfigAssumption
  <1> DEFINE k == HourOf(t)
             j == OffHour(t)
  <1>2. k \in Nat /\ j \in 0 .. HourLen - 1 /\ t = k * HourLen + j
    BY DivMod
  <1>3. OffHour((k + 1) * HourLen + j) = j
    BY <1>2, DivModUnique
  <1> HIDE DEF k, j
  <1>4. k * HourLen \in Nat /\ (k + 1) * HourLen = k * HourLen + HourLen
    BY <1>1, <1>2, SMT
  <1>5. t + HourLen = (k + 1) * HourLen + j
    BY <1>1, <1>2, <1>4, SMT
  <1>6. OffHour(t + HourLen) = j
    BY <1>3, <1>5
  <1> QED
    BY <1>1, <1>6 DEF j

\* The end of a run that started on the hour
LEMMA WithinLag ==
    ASSUME NEW t \in Nat, OffHour(t) = 0, NEW u \in t .. t + MaxLag
    PROVE  OffHour(u) <= MaxLag
  <1>1. HourLen \in Nat /\ HourLen > 0 /\ MaxLag \in 0 .. HourLen - 1
    BY ConfigAssumption
  <1> DEFINE k == HourOf(t)
  <1>2. k \in Nat /\ t = k * HourLen + 0
    BY DivMod
  <1>3. u - t \in 0 .. HourLen - 1 /\ u - t <= MaxLag
    BY <1>1, SMT
  <1>4. OffHour(k * HourLen + (u - t)) = u - t
    BY <1>2, <1>3, DivModUnique
  <1> HIDE DEF k
  <1>5. k * HourLen \in Nat
    BY <1>1, <1>2, SMT
  <1>6. k * HourLen + (u - t) = u
    BY <1>2, <1>5, SMT
  <1> QED
    BY <1>3, <1>4, <1>6

LEMMA NextHour ==
    ASSUME NEW t \in Nat
    PROVE  NextAggregate(t) \in Nat /\ OffHour(NextAggregate(t)) = 0
  <1>1. HourLen \in Nat /\ HourLen > 0
    BY ConfigAssumption
  <1>2. HourOf(t) + 1 \in Nat
    BY DivMod
  <1>3. 0 \in 0 .. HourLen - 1
    BY <1>1
  <1>4. /\ (HourOf(t) + 1) * HourLen + 0 \in Nat
        /\ OffHour((HourOf(t) + 1) * HourLen + 0) = 0
    BY <1>2, <1>3, DivModUnique
  <1>5. (HourOf(t) + 1) * HourLen + 0 = (HourOf(t) + 1) * HourLen
    BY <1>1, <1>2, SMT
  <1> QED
    BY <1>4, <1>5 DEF NextAggregate
---------------------------------------------------------------------------
\* Rows

LEMMA RowsFinite ==
    ASSUME NEW S \in SUBSET Row, NEW T \in SUBSET S
    PROVE  /\ IsFiniteSet(S) /\ IsFiniteSet(T)
           /\ Cardinality(S) \in Nat /\ Cardinality(T) \in Nat
           /\ Cardinality(T) <= Cardinality(S)
  <1>1. MaxRows \in Nat
    BY ConfigAssumption
  <1>2. IsFiniteSet(Row)
    BY <1>1, FS_Interval DEF Row
  <1>3. IsFiniteSet(S)
    BY <1>2, FS_Subset
  <1>4. IsFiniteSet(T) /\ Cardinality(T) <= Cardinality(S)
    BY <1>3, FS_Subset
  <1> QED
    BY <1>3, <1>4, FS_CardinalityType

\* What the hourly statement leaves in a bucket
LEMMA CountedHour ==
    ASSUME Types, NEW from, NEW to, NEW h \in Hour,
           NEW S, S = {r \in Rows(raw, h, HourLen) : from <= ts[r] /\ ts[r] < to}
    PROVE  /\ S \in SUBSET Row /\ S \subseteq Rows(inserted, h, HourLen)
           /\ Counted(from, to)[h] = Replaced(hourly[h], Cardinality(S))
           /\ Counted(from, to)[h] \in Nat
  <1>1. S \subseteq Rows(inserted, h, HourLen) /\ S \in SUBSET Row
    BY DEF Types, Rows
  <1>2. Cardinality(S) \in Nat
    BY <1>1, RowsFinite
  <1>3. Counted(from, to)[h] = Replaced(hourly[h], Cardinality(S))
    BY DEF Counted
  <1>4. hourly[h] \in Nat
    BY DEF Types
  <1> QED
    BY <1>1, <1>2, <1>3, <1>4 DEF Replaced

\* The statement keeps buckets within what was inserted
LEMMA CountedInv ==
    ASSUME Types, HoursNeverOver, NEW from, NEW to
    PROVE  /\ Counted(from, to) \in [Hour -> Nat]
           /\ \A h \in Hour : Counted(from, to)[h] <= Cardinality(Rows(inserted, h, HourLen))
  <1>1. ASSUME NEW h \in Hour
        PROVE  /\ Counted(from, to)[h] \in Nat
               /\ Counted(from, to)[h] <= Cardinality(Rows(inserted, h, HourLen))
    <2> DEFINE S == {r \in Rows(raw, h, HourLen) : from <= ts[r] /\ ts[r] < to}
    <2>1. /\ S \subseteq Rows(inserted, h, HourLen)
          /\ Counted(from, to)[h] = Replaced(hourly[h], Cardinality(S))
          /\ Counted(from, to)[h] \in Nat
      BY CountedHour
    <2>2. Rows(inserted, h, HourLen) \in SUBSET Row
      BY DEF Types, Rows
    <2> HIDE DEF S
    <2>3. Cardinality(S) <= Cardinality(Rows(inserted, h, HourLen))
      BY <2>1, <2>2, RowsFinite
    <2>4. hourly[h] <= Cardinality(Rows(inserted, h, HourLen))
      BY DEF HoursNeverOver
    <2> QED
      BY <2>1, <2>3, <2>4 DEF Replaced
  <1>2. Counted(from, to) = [h \in Hour |-> Counted(from, to)[h]]
    BY DEF Counted
  <1> QED
    BY <1>1, <1>2

\* What a clean-up leaves of the hours
LEMMA KeptInv ==
    ASSUME Types, HoursNeverOver, NEW cutoff
    PROVE  /\ Kept(hourly, HourLen, cutoff) \in [Hour -> Nat]
           /\ \A h \in Hour : Kept(hourly, HourLen, cutoff)[h]
                                  <= Cardinality(Rows(inserted, h, HourLen))
  <1>1. hourly \in [Hour -> Nat]
    BY DEF Types
  <1>2. ASSUME NEW h \in Hour
        PROVE  /\ Kept(hourly, HourLen, cutoff)[h] \in Nat
               /\ Kept(hourly, HourLen, cutoff)[h] <= Cardinality(Rows(inserted, h, HourLen))
    <2>1. Kept(hourly, HourLen, cutoff)[h] \in {0, hourly[h]}
      BY <1>1 DEF Kept
    <2>2. Rows(inserted, h, HourLen) \in SUBSET Row
      BY DEF Types, Rows
    <2>3. Cardinality(Rows(inserted, h, HourLen)) \in Nat
      BY <2>2, RowsFinite
    <2> QED
      BY <1>1, <2>1, <2>3 DEF HoursNeverOver
  <1>3. Kept(hourly, HourLen, cutoff) = [h \in Hour |-> Kept(hourly, HourLen, cutoff)[h]]
    BY <1>1 DEF Kept
  <1> QED
    BY <1>2, <1>3

\* Both are what the statements of any of the tables do to the hours
LEMMA AggregateInv ==
    ASSUME Types, HoursNeverOver, NEW target, NEW from, NEW to,
           AggregateMetrics(target, from, to), inserted' = inserted, ts' = ts
    PROVE  hourly' \in [Hour -> Nat] /\ raw' = raw /\ HoursNeverOver'
  <1>1. raw' = raw /\ (hourly' = hourly \/ hourly' = Counted(from, to))
    BY DEF AggregateMetrics
  <1>2. /\ hourly' \in [Hour -> Nat]
        /\ \A h \in Hour : hourly'[h] <= Cardinality(Rows(inserted, h, HourLen))
    BY <1>1, CountedInv DEF Types, HoursNeverOver
  <1> QED
    BY <1>1, <1>2 DEF HoursNeverOver, Rows

LEMMA CleanupInv ==
    ASSUME Types, HoursNeverOver, OnlyOldAreGone,
           NEW table, NEW at \in Nat, at <= now,
           CleanupMetrics(table, at), inserted' = inserted, ts' = ts, now' = now
    PROVE  /\ hourly' \in [Hour -> Nat] /\ raw' \subseteq raw
           /\ HoursNeverOver' /\ OnlyOldAreGone'
  <1>1. hourly' = hourly \/ hourly' = Kept(hourly, HourLen, at - HourKeep)
    BY DEF CleanupMetrics
  <1>2. raw' = raw \/ raw' = {r \in raw : ts[r] >= at - RawKeep}
    BY DEF CleanupMetrics
  <1>3. /\ hourly' \in [Hour -> Nat]
        /\ \A h \in Hour : hourly'[h] <= Cardinality(Rows(inserted, h, HourLen))
    BY <1>1, KeptInv DEF Types, HoursNeverOver
  <1>4. HoursNeverOver'
    BY <1>3 DEF HoursNeverOver, Rows
  <1>5. ASSUME NEW r \in inserted, r \notin raw'
        PROVE  ts[r] < now - RawKeep
    <2>1. CASE r \notin raw
      BY <2>1, <1>5 DEF OnlyOldAreGone
    <2>2. CASE r \in raw
      <3>1. ~(ts[r] >= at - RawKeep)
        BY <1>2, <1>5, <2>2
      <3>2. ts[r] \in Nat /\ now \in Nat /\ RawKeep \in Nat
        BY <1>5, ConfigAssumption DEF Types
      <3> QED
        BY <3>1, <3>2
    <2> QED
      BY <2>1, <2>2
  <1>6. OnlyOldAreGone'
    BY <1>5 DEF OnlyOldAreGone
  <1> QED
    BY <1>2, <1>3, <1>4, <1>6
---------------------------------------------------------------------------
\* The invariant

LEMMA FirstCleanup ==
    ASSUME NEW t \in Nat
    PROVE  NextCleanup(t) \in Nat
  <1>1. /\ HourLen \in Nat /\ HourLen > 0
        /\ HoursPerDay \in Nat /\ HoursPerDay > 0 /\ CleanupHour \in Nat
    BY ConfigAssumption
  <1>2. DayLen \in Nat /\ DayLen > 0 /\ CleanupHour * HourLen \in Nat
    BY <1>1, SMT DEF DayLen
  <1>3. DayOf(t) \in Nat
    BY <1>2, SMT DEF DayOf
  <1>4. DayOf(t) * DayLen \in Nat
    BY <1>2, <1>3, SMT
  <1> HIDE DEF DayLen
  <1> QED
    BY <1>2, <1>4 DEF NextCleanup

\* A fresh schedule satisfies its part of the invariant
LEMMA ScheduleInv ==
    ASSUME NEW t \in Nat, Schedule(t)
    PROVE  /\ agg' \in [pc : {"wait"} \cup Target, at : Nat, due : Nat, first : BOOLEAN]
           /\ clean' \in [Cleaner -> [pc : {"wait", "raw", "hour", "day"}, at : Nat,
                                      due : Nat, first : BOOLEAN]]
           /\ agg'.pc = "wait" /\ OffHour(agg'.due) = 0
           /\ \A c \in Cleaner : clean'[c].pc = "wait"
  <1>1. NextAggregate(t) \in Nat /\ OffHour(NextAggregate(t)) = 0 /\ NextCleanup(t) \in Nat
    BY NextHour, FirstCleanup
  <1> QED
    BY <1>1 DEF Schedule, Waiting, Cleaner

LEMMA InitInv == Init => Inv
  <1> SUFFICES ASSUME Init PROVE Inv
    OBVIOUS
  <1>1. /\ NextAggregate(0) \in Nat /\ OffHour(NextAggregate(0)) = 0
        /\ NextCleanup(0) \in Nat /\ MaxLag \in Nat
    BY NextHour, FirstCleanup, ConfigAssumption
  <1>2. Types
    BY <1>1 DEF Init, Types, None, Waiting, Cleaner, history
  <1>3. OnSchedule
    BY <1>1 DEF Init, OnSchedule, Waiting, Cleaner
  <1>4. OnlyOldAreGone
    BY DEF Init, OnlyOldAreGone
  <1>5. HoursNeverOver
    <2>1. ASSUME NEW h \in Hour PROVE hourly[h] <= Cardinality(Rows(inserted, h, HourLen))
      <3>1. hourly[h] = 0
        BY DEF Init, None
      <3>2. Rows(inserted, h, HourLen) \in SUBSET Row
        BY DEF Init, Rows
      <3>3. Cardinality(Rows(inserted, h, HourLen)) \in Nat
        BY <3>2, RowsFinite
      <3> QED
        BY <3>1, <3>3
    <2> QED
      BY <2>1 DEF HoursNeverOver
  <1> QED
    BY <1>2, <1>3, <1>4, <1>5 DEF Inv

\* A step that leaves the rows, the hours and the clock alone
LEMMA QuietTables ==
    ASSUME Inv, UNCHANGED <<now, ts, raw, inserted, hourly>>
    PROVE  OnlyOldAreGone' /\ HoursNeverOver'
  BY DEF Inv, OnlyOldAreGone, HoursNeverOver, Rows

LEMMA EndAttemptInv ==
    ASSUME Inv, EndAttempt
    PROVE  Inv'
  <1>1. /\ ended \in Nat /\ MaxRows \in Nat /\ ended < MaxRows /\ ended' = ended + 1
        /\ UNCHANGED <<now, raw, inserted, hourly, up, agg, clean, faults>>
    BY ConfigAssumption DEF Inv, Types, EndAttempt, tables, tasks, history
  <1>2. /\ inserted \subseteq 1 .. ended /\ ended' \notin inserted
        /\ ended' \in Row /\ late' = late \cup {ended'}
        /\ ts' = [ts EXCEPT ![ended'] = now]
    BY <1>1 DEF Inv, Types, EndAttempt, Row
  <1>3. ts' \in [Row -> Nat] /\ \A r \in inserted : ts'[r] = ts[r]
    BY <1>2 DEF Inv, Types
  <1>4. inserted \subseteq 1 .. ended' /\ late' \subseteq 1 .. ended' /\ late' \subseteq Row
    BY <1>1, <1>2 DEF Inv, Types
  <1>5. Types'
    BY <1>1, <1>3, <1>4 DEF Inv, Types
  <1>6. OnSchedule'
    BY <1>1 DEF Inv, OnSchedule
  <1>7. OnlyOldAreGone'
    BY <1>1, <1>3 DEF Inv, OnlyOldAreGone
  <1>8. ASSUME NEW h \in Hour PROVE Rows(inserted, h, HourLen)' = Rows(inserted, h, HourLen)
    BY <1>1, <1>3 DEF Rows
  <1>9. HoursNeverOver'
    BY <1>1, <1>8 DEF Inv, HoursNeverOver
  <1> QED
    BY <1>5, <1>6, <1>7, <1>9 DEF Inv

LEMMA InsertMetricsInv ==
    ASSUME Inv, NEW r \in late, NEW ok \in BOOLEAN, InsertMetrics(r, ok)
    PROVE  Inv'
  <1>1. /\ UNCHANGED <<now, ended, ts, hourly, up, agg, clean>>
        /\ late' = late \ {r}
        /\ r \in Row /\ r \in 1 .. ended
    BY DEF Inv, Types, InsertMetrics, tasks
  <1>2. /\ faults' \in Nat
        /\ \/ raw' = raw \cup {r} /\ inserted' = inserted \cup {r}
           \/ raw' = raw /\ inserted' = inserted
    BY DEF Inv, Types, InsertMetrics, Works, Fails, history
  <1>3. Types'
    BY <1>1, <1>2 DEF Inv, Types
  <1>4. OnSchedule'
    BY <1>1 DEF Inv, OnSchedule
  <1>5. inserted' \ raw' \subseteq inserted \ raw
    BY <1>2
  <1>6. OnlyOldAreGone'
    BY <1>1, <1>5 DEF Inv, OnlyOldAreGone
  <1>7. ASSUME NEW h \in Hour PROVE hourly'[h] <= Cardinality(Rows(inserted, h, HourLen))'
    <2> DEFINE new == Rows(inserted, h, HourLen)'
    <2>1. new \in SUBSET Row
      BY <1>3 DEF Types, Rows
    <2>2. Rows(inserted, h, HourLen) \subseteq new
      BY <1>1, <1>2 DEF Rows
    <2>3. hourly[h] \in Nat /\ hourly[h] <= Cardinality(Rows(inserted, h, HourLen))
      BY DEF Inv, Types, HoursNeverOver
    <2> HIDE DEF new
    <2>4. /\ Cardinality(Rows(inserted, h, HourLen)) \in Nat /\ Cardinality(new) \in Nat
          /\ Cardinality(Rows(inserted, h, HourLen)) <= Cardinality(new)
      BY <2>1, <2>2, RowsFinite
    <2>5. hourly'[h] <= Cardinality(new)
      BY <1>1, <2>3, <2>4
    <2> QED
      BY <2>5 DEF new
  <1>8. HoursNeverOver'
    BY <1>7 DEF HoursNeverOver
  <1> QED
    BY <1>3, <1>4, <1>6, <1>8 DEF Inv

LEMMA StartAggregationInv ==
    ASSUME Inv, StartAggregation
    PROVE  Inv'
  <1>1. /\ UNCHANGED <<now, ended, ts, late, raw, inserted, hourly, up, clean, faults>>
        /\ now = agg.due /\ agg' = [agg EXCEPT !.pc = "hour", !.at = now]
    BY DEF StartAggregation, tables, requests, history
  <1>2. agg'.pc = "hour" /\ agg'.at = now /\ agg'.due = agg.due /\ agg'.first = agg.first
    BY <1>1 DEF Inv, Types
  <1>3. Types'
    BY <1>1 DEF Inv, Types, Target
  <1>4. OnSchedule'
    BY <1>1, <1>2, ConfigAssumption DEF Inv, Types, OnSchedule
  <1> QED
    BY <1>1, <1>3, <1>4, QuietTables DEF Inv

\* The ticker is as far from the hour as the first run ended
LEMMA AggregationOverInv ==
    ASSUME Inv, up, agg.pc # "wait", AggregationOver
    PROVE  /\ agg' \in [pc : {"wait"} \cup Target, at : Nat, due : Nat, first : BOOLEAN]
           /\ agg'.pc = "wait" /\ ~agg'.first /\ OffHour(agg'.due) <= MaxLag
  <1>1. /\ agg.due \in Nat /\ now \in Nat /\ agg.at = agg.due /\ agg.at <= now
        /\ now <= agg.at + MaxLag /\ MaxLag \in Nat
    BY ConfigAssumption DEF Inv, Types, OnSchedule
  <1> DEFINE due == IF agg.first THEN now + HourLen ELSE agg.due + HourLen
  <1>2. agg' = [pc |-> "wait", at |-> 0, due |-> due, first |-> FALSE]
    BY DEF AggregationOver, Waiting
  <1>3. due \in Nat /\ OffHour(due) <= MaxLag
    <2>1. CASE agg.first
      <3>1. OffHour(agg.due) = 0
        BY <2>1 DEF Inv, OnSchedule
      <3>2. now \in agg.due .. agg.due + MaxLag
        BY <1>1
      <3>3. OffHour(now) <= MaxLag
        BY <1>1, <3>1, <3>2, WithinLag
      <3> QED
        BY <1>1, <2>1, <3>3, OneHourLater
    <2>2. CASE ~agg.first
      <3>1. OffHour(agg.due) <= MaxLag
        BY DEF Inv, OnSchedule
      <3> QED
        BY <1>1, <2>2, <3>1, OneHourLater
    <2> QED
      BY <2>1, <2>2
  <1> HIDE DEF due
  <1> QED
    BY <1>2, <1>3
LEMMA RunAggregationInv ==
    ASSUME Inv, NEW ok \in BOOLEAN, RunAggregation(ok)
    PROVE  Inv'
  <1>1. /\ UNCHANGED <<now, ended, ts, late, inserted, up, clean>>
        /\ up /\ agg.pc # "wait"
    BY DEF RunAggregation, requests, history
  <1>2. hourly' \in [Hour -> Nat] /\ raw' = raw /\ HoursNeverOver'
    <2>1. CASE ok
      <3>1. AggregateMetrics(agg.pc, Window(agg.pc, agg.at)[1], Window(agg.pc, agg.at)[2])
        BY <2>1 DEF RunAggregation
      <3> QED
        BY <1>1, <3>1, AggregateInv DEF Inv
    <2>2. CASE ~ok
      <3>1. UNCHANGED <<hourly, raw>>
        BY <2>2 DEF RunAggregation, tables
      <3> QED
        BY <1>1, <3>1, QuietTables DEF Inv, Types
    <2> QED
      BY <2>1, <2>2
  <1>3. faults' \in Nat
    BY DEF Inv, Types, RunAggregation, Works, Fails
  <1>4. /\ agg' \in [pc : {"wait"} \cup Target, at : Nat, due : Nat, first : BOOLEAN]
        /\ OnSchedule'
    <2>1. CASE AggregationOver
      <3>1. /\ agg' \in [pc : {"wait"} \cup Target, at : Nat, due : Nat, first : BOOLEAN]
            /\ agg'.pc = "wait" /\ ~agg'.first /\ OffHour(agg'.due) <= MaxLag
        BY <1>1, <2>1, AggregationOverInv
      <3> QED
        BY <1>1, <3>1 DEF Inv, OnSchedule
    <2>2. CASE \E pc \in {"day", "month"} : agg' = [agg EXCEPT !.pc = pc]
      <3>1. PICK pc \in {"day", "month"} : agg' = [agg EXCEPT !.pc = pc]
        BY <2>2
      <3>2. /\ agg' \in [pc : {"wait"} \cup Target, at : Nat, due : Nat, first : BOOLEAN]
            /\ agg'.pc = pc /\ agg'.at = agg.at /\ agg'.due = agg.due /\ agg'.first = agg.first
        BY <3>1 DEF Inv, Types, Target
      <3> QED
        BY <1>1, <3>2 DEF Inv, OnSchedule
    <2> QED
      BY <2>1, <2>2 DEF RunAggregation
  <1>5. Types'
    BY <1>1, <1>2, <1>3, <1>4 DEF Inv, Types
  <1>6. OnlyOldAreGone'
    BY <1>1, <1>2 DEF Inv, OnlyOldAreGone
  <1> QED
    BY <1>2, <1>4, <1>5, <1>6 DEF Inv

LEMMA StartCleanupInv ==
    ASSUME Inv, NEW c \in Cleaner,
           clean' = [clean EXCEPT ![c].pc = "raw", ![c].at = now],
           UNCHANGED <<now, ended, ts, late, raw, inserted, hourly, up, agg, faults>>
    PROVE  Inv'
  <1>1. Types'
    BY DEF Inv, Types, Cleaner
  <1>2. \A d \in Cleaner : clean'[d].at \in {now, clean[d].at}
                           /\ (d # c => clean'[d] = clean[d])
                           /\ (d = c => clean'[d].at = now)
    BY DEF Inv, Types, Cleaner
  <1>3. OnSchedule'
    BY <1>2 DEF Inv, Types, OnSchedule
  <1> QED
    BY <1>1, <1>3, QuietTables DEF Inv

LEMMA RunCleanupInv ==
    ASSUME Inv, NEW c \in Cleaner, NEW ok \in BOOLEAN, RunCleanup(c, ok)
    PROVE  Inv'
  <1>1. /\ UNCHANGED <<now, ended, ts, late, inserted, up, agg>>
        /\ clean[c].pc # "wait"
    BY DEF RunCleanup, requests, history
  <1>2. clean[c].at \in Nat /\ clean[c].at <= now
    BY <1>1 DEF Inv, Types, OnSchedule
  <1>3. hourly' \in [Hour -> Nat] /\ raw' \subseteq raw /\ HoursNeverOver' /\ OnlyOldAreGone'
    <2>1. CASE ok
      <3>1. CleanupMetrics(clean[c].pc, clean[c].at)
        BY <2>1 DEF RunCleanup
      <3> QED
        BY <1>1, <1>2, <3>1, CleanupInv DEF Inv
    <2>2. CASE ~ok
      <3>1. UNCHANGED <<hourly, raw>>
        BY <2>2 DEF RunCleanup, tables
      <3> QED
        BY <1>1, <3>1, QuietTables DEF Inv, Types
    <2> QED
      BY <2>1, <2>2
  <1>4. faults' \in Nat
    BY DEF Inv, Types, RunCleanup, Works, Fails
  <1>5. /\ clean' \in [Cleaner -> [pc : {"wait", "raw", "hour", "day"}, at : Nat,
                                   due : Nat, first : BOOLEAN]]
        /\ \A d \in Cleaner : clean'[d].pc # "wait" => clean'[d].at <= now
    <2>1. CASE \E pc \in {"hour", "day"} : clean' = [clean EXCEPT ![c].pc = pc]
      <3>1. PICK pc \in {"hour", "day"} : clean' = [clean EXCEPT ![c].pc = pc]
        BY <2>1
      <3>2. clean' \in [Cleaner -> [pc : {"wait", "raw", "hour", "day"}, at : Nat,
                                    due : Nat, first : BOOLEAN]]
        BY <3>1 DEF Inv, Types
      <3>3. \A d \in Cleaner : clean'[d].at = clean[d].at /\ (d # c => clean'[d] = clean[d])
        BY <3>1 DEF Inv, Types
      <3> QED
        BY <1>2, <3>2, <3>3 DEF Inv, OnSchedule
    <2>2. CASE clean' = [clean EXCEPT ![c] = CleanupOver(c)]
      <3>1. /\ clean[c].due \in Nat /\ now \in Nat /\ DayLen \in Nat
        <4>1. HourLen \in Nat /\ HoursPerDay \in Nat
          BY ConfigAssumption
        <4> QED
          BY <4>1, SMT DEF Inv, Types, DayLen
      <3>2. /\ CleanupOver(c) \in [pc : {"wait", "raw", "hour", "day"}, at : Nat,
                                   due : Nat, first : BOOLEAN]
            /\ CleanupOver(c).pc = "wait"
        BY <3>1 DEF CleanupOver, Waiting
      <3>3. \A d \in Cleaner : clean'[d] = IF d = c THEN CleanupOver(c) ELSE clean[d]
        BY <2>2 DEF Inv, Types
      <3>4. clean' \in [Cleaner -> [pc : {"wait", "raw", "hour", "day"}, at : Nat,
                                    due : Nat, first : BOOLEAN]]
        BY <2>2, <3>2 DEF Inv, Types
      <3> QED
        BY <3>2, <3>3, <3>4 DEF Inv, OnSchedule
    <2>3. \/ /\ ok /\ clean[c].pc \in {"raw", "hour"}
             /\ clean' = [clean EXCEPT ![c].pc = IF clean[c].pc = "raw" THEN "hour" ELSE "day"]
          \/ clean' = [clean EXCEPT ![c] = CleanupOver(c)]
      BY DEF RunCleanup
    <2> QED
      BY <2>1, <2>2, <2>3
  <1>6. Types'
    BY <1>1, <1>3, <1>4, <1>5 DEF Inv, Types
  <1>7. OnSchedule'
    BY <1>1, <1>5 DEF Inv, OnSchedule
  <1> QED
    BY <1>3, <1>6, <1>7 DEF Inv

LEMMA HandleAggregateMetricsInv ==
    ASSUME Inv, NEW target, NEW from, NEW to, HandleAggregateMetrics(target, from, to)
    PROVE  Inv'
  <1>1. /\ UNCHANGED <<now, ended, ts, late, inserted, up, agg, clean, faults>>
        /\ AggregateMetrics(target, from, to)
    BY DEF HandleAggregateMetrics, requests, tasks, history
  <1>2. hourly' \in [Hour -> Nat] /\ raw' = raw /\ HoursNeverOver'
    BY <1>1, AggregateInv DEF Inv
  <1>3. Types'
    BY <1>1, <1>2 DEF Inv, Types
  <1>4. OnSchedule' /\ OnlyOldAreGone'
    BY <1>1, <1>2 DEF Inv, OnSchedule, OnlyOldAreGone
  <1> QED
    BY <1>2, <1>3, <1>4 DEF Inv

LEMMA StopInv ==
    ASSUME Inv, Stop
    PROVE  Inv'
  <1>1. /\ UNCHANGED <<now, ended, ts, raw, inserted, hourly, agg, clean, faults>>
        /\ up' = FALSE /\ late' = {}
    BY DEF Stop, tables, history
  <1>2. Types' /\ OnSchedule'
    BY <1>1 DEF Inv, Types, OnSchedule
  <1> QED
    BY <1>1, <1>2, QuietTables DEF Inv

LEMMA StartInv ==
    ASSUME Inv, Start
    PROVE  Inv'
  <1>1. /\ UNCHANGED <<now, ended, ts, late, raw, inserted, hourly, faults>>
        /\ up' = TRUE /\ Schedule(now)
    BY DEF Start, tables, requests, history
  <1>2. /\ agg' \in [pc : {"wait"} \cup Target, at : Nat, due : Nat, first : BOOLEAN]
        /\ clean' \in [Cleaner -> [pc : {"wait", "raw", "hour", "day"}, at : Nat,
                                   due : Nat, first : BOOLEAN]]
        /\ agg'.pc = "wait" /\ OffHour(agg'.due) = 0
        /\ \A c \in Cleaner : clean'[c].pc = "wait"
    BY <1>1, ScheduleInv DEF Inv, Types
  <1>3. Types'
    BY <1>1, <1>2 DEF Inv, Types
  <1>4. OnSchedule'
    BY <1>2, ConfigAssumption DEF OnSchedule
  <1> QED
    BY <1>1, <1>3, <1>4, QuietTables DEF Inv

LEMMA TickInv ==
    ASSUME Inv, Tick
    PROVE  Inv'
  <1>1. /\ UNCHANGED <<ended, ts, late, raw, inserted, hourly, up, agg, clean, faults>>
        /\ now' = now + 1 /\ now \in Nat /\ (up => InTime(agg))
    BY DEF Inv, Types, Tick, tables, requests, tasks, history
  <1>2. Types'
    BY <1>1 DEF Inv, Types
  <1>3. OnSchedule'
    <2>1. agg.pc # "wait" => agg.at \in Nat /\ agg.at <= now'
      BY <1>1 DEF Inv, Types, OnSchedule
    <2>2. up /\ agg.pc # "wait" => now' <= agg.at + MaxLag
      <3>1. MaxLag \in Nat /\ agg.at \in Nat
        BY ConfigAssumption DEF Inv, Types
      <3> QED
        BY <1>1, <3>1 DEF InTime
    <2>3. \A c \in Cleaner : clean[c].pc # "wait" => clean[c].at <= now'
      BY <1>1 DEF Inv, Types, OnSchedule
    <2> QED
      BY <1>1, <2>1, <2>2, <2>3 DEF Inv, OnSchedule
  <1>4. OnlyOldAreGone'
    <2>1. ASSUME NEW r \in inserted \ raw PROVE ts[r] < now' - RawKeep
      BY <1>1, ConfigAssumption DEF Inv, Types, OnlyOldAreGone
    <2> QED
      BY <1>1, <2>1 DEF OnlyOldAreGone
  <1>5. HoursNeverOver'
    BY <1>1 DEF Inv, HoursNeverOver, Rows
  <1> QED
    BY <1>2, <1>3, <1>4, <1>5 DEF Inv

LEMMA StepInv == Inv /\ [Next]_vars => Inv'
  <1> SUFFICES ASSUME Inv, [Next]_vars PROVE Inv'
    OBVIOUS
  <1>1. CASE EndAttempt
    BY <1>1, EndAttemptInv
  <1>2. CASE \E r \in late, ok \in BOOLEAN : InsertMetrics(r, ok)
    BY <1>2, InsertMetricsInv
  <1>3. CASE StartAggregation
    BY <1>3, StartAggregationInv
  <1>4. CASE \E ok \in BOOLEAN : RunAggregation(ok)
    BY <1>4, RunAggregationInv
  <1>5. CASE StartCleanup
    <2>1. /\ clean' = [clean EXCEPT !["scheduled"].pc = "raw", !["scheduled"].at = now]
          /\ UNCHANGED <<now, ended, ts, late, raw, inserted, hourly, up, agg, faults>>
          /\ "scheduled" \in Cleaner
      BY <1>5 DEF StartCleanup, tables, requests, history, Cleaner
    <2> QED
      BY <2>1, StartCleanupInv
  <1>6. CASE HandleCleanupMetrics
    <2>1. /\ clean' = [clean EXCEPT !["admin"].pc = "raw", !["admin"].at = now]
          /\ UNCHANGED <<now, ended, ts, late, raw, inserted, hourly, up, agg, faults>>
          /\ "admin" \in Cleaner
      BY <1>6 DEF HandleCleanupMetrics, tables, requests, history, Cleaner
    <2> QED
      BY <2>1, StartCleanupInv
  <1>7. CASE \E c \in Cleaner, ok \in BOOLEAN : RunCleanup(c, ok)
    BY <1>7, RunCleanupInv
  <1>8. CASE \E target \in Target, d \in Windows, to \in {now - 1, now} :
                 HandleAggregateMetrics(target, to - d, to)
    BY <1>8, HandleAggregateMetricsInv
  <1>9. CASE Stop
    BY <1>9, StopInv
  <1>10. CASE Start
    BY <1>10, StartInv
  <1>11. CASE Tick
    BY <1>11, TickInv
  <1>12. CASE UNCHANGED vars
    <2>1. UNCHANGED <<now, ended, ts, late, raw, inserted, hourly, up, agg, clean, faults>>
      BY <1>12 DEF vars, tables, requests, tasks, history
    <2>2. Types' /\ OnSchedule'
      BY <2>1 DEF Inv, Types, OnSchedule
    <2> QED
      BY <2>1, <2>2, QuietTables DEF Inv
  <1> QED
    BY <1>1, <1>2, <1>3, <1>4, <1>5, <1>6, <1>7, <1>8, <1>9, <1>10, <1>11, <1>12 DEF Next

LEMMA Invariance == Spec => []Inv
  BY InitInv, StepInv, PTL DEF Spec

(* Buckets of hours never count a request twice, or one that was never     *)
(* inserted, whatever windows are cut and whatever is cleaned up.          *)
THEOREM HoursNeverOverHolds == Spec => []HoursNeverOver
  <1>1. Inv => HoursNeverOver
    BY DEF Inv
  <1> QED
    BY <1>1, Invariance, PTL
---------------------------------------------------------------------------
\* The hourly statement

(* The rows of the last two hours, the first ticks of the older one        *)
(* excepted, are still there and inside the window of the run.             *)
LEMMA InsideTheWindow ==
    ASSUME Inv, up, agg.pc = "hour",
           NEW h \in Hour, h = HourOf(agg.at) - 1 \/ h = HourOf(agg.at) - 2,
           NEW r \in Body(inserted, h, HourLen)
    PROVE  /\ r \in Rows(raw, h, HourLen)
           /\ agg.at - 2 * HourLen <= ts[r] /\ ts[r] < agg.at
  <1>1. /\ HourLen \in Nat /\ HourLen > 0 /\ MaxLag \in Nat /\ MaxLag < HourLen
        /\ RawKeep \in Nat /\ RawKeep >= 2 * HourLen + MaxLag
    BY ConfigAssumption
  <1>2. /\ r \in inserted /\ ts[r] \in Nat /\ now \in Nat
        /\ HourOf(ts[r]) = h /\ OffHour(ts[r]) >= MaxLag
    BY DEF Inv, Types, Body, Rows, HourOf, OffHour
  <1>3. /\ agg.at \in Nat /\ OffHour(agg.at) <= MaxLag
        /\ agg.at <= now /\ now <= agg.at + MaxLag
    BY DEF Inv, Types, OnSchedule
  <1> DEFINE k == HourOf(agg.at)
             i == OffHour(agg.at)
             j == OffHour(ts[r])
             H == HourLen
  <1>4. /\ k \in Nat /\ i \in 0 .. H - 1 /\ agg.at = k * H + i
        /\ h \in Nat /\ j \in 0 .. H - 1 /\ ts[r] = h * H + j
    BY <1>2, <1>3, DivMod
  <1>5. i <= MaxLag /\ j >= MaxLag /\ (h = k - 1 \/ h = k - 2)
    BY <1>2, <1>3
  <1> HIDE DEF k, i, j, H
  <1>6. H = HourLen
    BY DEF H
  <1>7. k * H \in Int /\ h * H \in Int /\ (h * H = k * H - H \/ h * H = k * H - 2 * H)
    BY <1>1, <1>4, <1>5, <1>6, SMT
  <1>8. agg.at - 2 * HourLen <= ts[r] /\ ts[r] < agg.at
    BY <1>1, <1>4, <1>5, <1>6, <1>7, SMT
  <1>9. r \in raw
    <2>1. ~(ts[r] < now - RawKeep)
      BY <1>1, <1>2, <1>3, <1>8
    <2> QED
      BY <1>2, <2>1 DEF Inv, OnlyOldAreGone
  <1>10. r \in Rows(raw, h, HourLen)
    BY <1>2, <1>9 DEF Rows, HourOf
  <1> QED
    BY <1>8, <1>10

LEMMA HourlyStep ==
    ASSUME Inv, RunAggregation(TRUE), agg.pc = "hour",
           NEW h \in Hour, h = HourOf(agg.at) - 1 \/ h = HourOf(agg.at) - 2
    PROVE  hourly'[h] >= Cardinality(Body(inserted, h, HourLen))
  <1> DEFINE from == agg.at - 2 * HourLen
             S == {r \in Rows(raw, h, HourLen) : from <= ts[r] /\ ts[r] < agg.at}
             B == Body(inserted, h, HourLen)
  <1>1. up
    BY DEF RunAggregation
  <1>2. hourly' = Counted(from, agg.at)
    <2>1. AggregateMetrics("hour", LastTwoHours(agg.at)[1], LastTwoHours(agg.at)[2])
      BY DEF RunAggregation, Window
    <2> QED
      BY <2>1 DEF AggregateMetrics, LastTwoHours
  <1>3. B \subseteq S
    BY <1>1, InsideTheWindow
  <1>4. S \in SUBSET Row /\ hourly'[h] = Replaced(hourly[h], Cardinality(S))
    BY <1>2, CountedHour DEF Inv
  <1>5. hourly[h] \in Nat
    BY DEF Inv, Types
  <1> HIDE DEF S, B
  <1>6. /\ Cardinality(S) \in Nat /\ Cardinality(B) \in Nat
        /\ Cardinality(B) <= Cardinality(S)
    BY <1>3, <1>4, RowsFinite
  <1>7. hourly'[h] >= Cardinality(B)
    BY <1>4, <1>5, <1>6 DEF Replaced
  <1> QED
    BY <1>7 DEF B

(* Whatever happened before, an hourly statement that succeeds brings the  *)
(* last two hours up to what was inserted of them: no clean-up and no      *)
(* drift of the ticker takes a row of theirs out of its window, as long    *)
(* as raw rows are kept for two hours and the time limit of a run.         *)
THEOREM HoursCompleteHolds == Spec => HoursComplete
  <1> DEFINE A == agg.pc = "hour" /\ agg'.pc = "day" /\ faults' = faults =>
                    \A h \in Hour \cap {HourOf(agg.at) - 1, HourOf(agg.at) - 2} :
                        hourly'[h] >= Cardinality(Body(inserted, h, HourLen))
  <1>1. Inv /\ [Next]_vars => [A]_vars
    <2> SUFFICES ASSUME Inv, [Next]_vars, agg.pc = "hour", agg'.pc = "day", faults' = faults,
                        NEW h \in Hour, h = HourOf(agg.at) - 1 \/ h = HourOf(agg.at) - 2
                 PROVE  hourly'[h] >= Cardinality(Body(inserted, h, HourLen))
      BY DEF A
    <2>1. agg' # agg
      OBVIOUS
    <2>2. ~StartAggregation
      BY DEF StartAggregation
    <2>3. ~Start
      <3>1. Start => agg'.pc = "wait"
        BY DEF Start, Schedule, Waiting
      <3> QED
        BY <3>1
    <2>4. PICK ok \in BOOLEAN : RunAggregation(ok)
      BY <2>1, <2>2, <2>3
         DEF Next, vars, tasks, EndAttempt, InsertMetrics, StartCleanup, HandleCleanupMetrics,
             RunCleanup, HandleAggregateMetrics, Stop, Tick
    <2>5. ok
      <3>1. ~ok => faults' = faults + 1
        BY <2>4 DEF RunAggregation, Fails
      <3> QED
        BY <3>1 DEF Inv, Types
    <2>6. RunAggregation(TRUE)
      BY <2>4, <2>5
    <2> QED
      BY <2>6, HourlyStep
  <1>2. Spec => [][A]_vars
    BY <1>1, Invariance, PTL DEF Spec
  <1> QED
    BY <1>2 DEF HoursComplete
---------------------------------------------------------------------------
\* Buckets of any size: an instant is in one of them
LEMMA Division ==
    ASSUME NEW t \in Nat, NEW k \in Nat \ {0}
    PROVE  /\ t \div k \in Nat
           /\ t = (t \div k) * k + (t % k) /\ t % k \in 0 .. k - 1
           /\ (t \div k) * k <= t /\ t < (t \div k) * k + k
  <1>1. k \in Nat /\ k > 0
    OBVIOUS
  <1>2. t \div k \in Nat /\ t % k \in 0 .. k - 1
    BY <1>1, SMT
  <1>3. t = (t \div k) * k + (t % k)
    BY <1>1, SMT
  <1>4. (t \div k) * k <= t /\ t < (t \div k) * k + k
    BY <1>1, SMT
  <1> QED
    BY <1>2, <1>3, <1>4

\* a <= b for whole numbers, when a * k has b * k + k above it
LEMMA LessByProduct ==
    ASSUME NEW a \in Int, NEW b \in Int, NEW k \in Nat \ {0}, a * k < b * k + k
    PROVE  a <= b
  <1>1. k \in Int /\ k > 0 /\ a * k < (b + 1) * k
    BY SMT
  <1>2. ASSUME a > b PROVE FALSE
    <2>1. a >= b + 1
      BY <1>2
    <2>2. PICK n \in Nat : a = b + 1 + n
      <3>1. a - (b + 1) \in Nat
        BY <2>1
      <3> QED
        BY <3>1
    <2>3. a * k = (b + 1) * k + n * k /\ n * k >= 0
      BY <1>1, <2>2, SMT
    <2> QED
      BY <1>1, <2>3, SMT
  <1> QED
    BY <1>2

LEMMA DivisionUnique ==
    ASSUME NEW t \in Nat, NEW k \in Nat \ {0}, NEW b \in Int, b * k <= t, t < b * k + k
    PROVE  t \div k = b
  <1> DEFINE q == t \div k
  <1>1. q \in Int /\ q * k <= t /\ t < q * k + k
    BY Division
  <1> HIDE DEF q
  <1>2. q * k \in Int /\ b * k \in Int /\ k \in Int
    BY <1>1
  <1>3. q * k < b * k + k /\ b * k < q * k + k
    BY <1>1, <1>2
  <1>4. q <= b /\ b <= q
    BY <1>1, <1>3, LessByProduct
  <1> QED
    BY <1>1, <1>4 DEF q

\* A bucket of per buckets: what is in one of these is in that one
LEMMA BucketOfBuckets ==
    ASSUME NEW t \in Nat, NEW unit \in Nat \ {0}, NEW per \in Nat \ {0},
           NEW b \in Nat, NEW s \in Part(b, per), t \div unit = s
    PROVE  t \div (per * unit) = b
  <1>1. b * per \in Nat /\ s \in Nat /\ b * per <= s /\ s <= b * per + per - 1
    BY DEF Part
  <1>2. s * unit <= t /\ t < s * unit + unit
    BY Division
  <1>3. per * unit \in Nat \ {0}
    BY SMT
  <1>4. PICK i \in 0 .. per - 1 : s = b * per + i
    <2>1. s - b * per \in 0 .. per - 1
      BY <1>1
    <2>2. s = b * per + (s - b * per)
      BY <1>1
    <2> QED
      BY <2>1, <2>2
  <1>5. s * unit = b * (per * unit) + i * unit
    BY <1>4, SMT
  <1>6. 0 <= i * unit /\ i * unit + unit <= per * unit
    <2>1. PICK n \in Nat : per = i + 1 + n
      <3>1. per - (i + 1) \in Nat
        OBVIOUS
      <3> QED
        BY <3>1
    <2>2. per * unit = i * unit + unit + n * unit /\ n * unit \in Nat /\ i * unit \in Nat
      BY <2>1, SMT
    <2> QED
      BY <2>2, SMT
  <1>7. b * (per * unit) \in Int /\ i * unit \in Int /\ per * unit \in Int /\ s * unit \in Int
    BY <1>3, SMT
  <1>8. b * (per * unit) <= t /\ t < b * (per * unit) + per * unit
    BY <1>2, <1>5, <1>6, <1>7
  <1> QED
    BY <1>3, <1>8, DivisionUnique

\* The parts of a bucket of the time that is modelled are in it
LEMMA PartsOfTime ==
    ASSUME NEW unit \in Nat \ {0}, NEW per \in Nat \ {0}, NEW n \in Nat \ {0},
           NEW last \in Nat, last + 1 = n * (per * unit),
           NEW b \in 0 .. last \div (per * unit), NEW s \in Part(b, per)
    PROVE  s \in 0 .. last \div unit
  <1>1. per * unit \in Nat \ {0} /\ n * per \in Nat \ {0}
    BY SMT
  <1>2. last \div (per * unit) = n - 1
    <2> DEFINE size == per * unit
    <2>1. size \in Nat \ {0} /\ last + 1 = n * size
      BY <1>1
    <2> HIDE DEF size
    <2>2. (n - 1) * size = n * size - size /\ n - 1 \in Int /\ n * size \in Nat
      BY <2>1, SMT
    <2>3. (n - 1) * size <= last /\ last < (n - 1) * size + size
      BY <2>1, <2>2
    <2>4. last \div size = n - 1
      BY <2>1, <2>2, <2>3, DivisionUnique
    <2> QED
      BY <2>4 DEF size
  <1>3. last \div unit = n * per - 1
    <2>1. (n * per - 1) * unit = n * (per * unit) - unit
      BY <1>1, SMT
    <2>2. n * per - 1 \in Int /\ unit \in Nat \ {0}
      BY <1>1
    <2>3. (n * per - 1) * unit <= last /\ last < (n * per - 1) * unit + unit
      BY <2>1
    <2> QED
      BY <2>2, <2>3, DivisionUnique
  <1>4. PICK m \in Nat : n = b + 1 + m
    <2>1. n - (b + 1) \in Nat
      BY <1>2
    <2> QED
      BY <2>1
  <1>5. n * per = b * per + per + m * per /\ m * per \in Nat /\ b * per \in Nat
    BY <1>4, SMT
  <1>6. s \in Nat /\ s <= b * per + per - 1
    BY <1>5 DEF Part
  <1> QED
    BY <1>3, <1>5, <1>6

\* Buckets that count no more than rows of their own count, in sum, no more
\* than these rows are
LEMMA SumBound ==
    ASSUME NEW S, NEW table, \A s \in S : table[s] \in Nat,
           NEW rows, NEW R, IsFiniteSet(R),
           \A s \in S : rows[s] \subseteq R /\ table[s] <= Cardinality(rows[s]),
           \A s, u \in S : s # u => rows[s] \cap rows[u] = {}
    PROVE  Sum(table, S) \in Nat /\ Sum(table, S) <= Cardinality(R)
  <1> DEFINE Units == UNION {{s} \X (1 .. table[s]) : s \in S}
             numbering == [s \in S |-> CHOOSE f \in Injection(1 .. table[s], rows[s]) : TRUE]
             row == [p \in Units |-> numbering[p[1]][p[2]]]
  <1>1. ASSUME NEW s \in S
        PROVE  numbering[s] \in Injection(1 .. table[s], rows[s])
    <2> DEFINE n == Cardinality(rows[s])
    <2>1. n \in Nat /\ ExistsBijection(1 .. n, rows[s])
      <3>1. IsFiniteSet(rows[s])
        BY FS_Subset
      <3> QED
        BY <3>1, FS_CardinalityType
    <2>2. PICK f : f \in Bijection(1 .. n, rows[s])
      BY <2>1 DEF ExistsBijection
    <2>3. table[s] \in Nat /\ table[s] <= n
      OBVIOUS
    <2> HIDE DEF n
    <2> DEFINE g == [i \in 1 .. table[s] |-> f[i]]
    <2>4. \A i \in 1 .. table[s] : i \in 1 .. n
      BY <2>1, <2>3
    <2>5. f \in [1 .. n -> rows[s]] /\ \A i, j \in 1 .. n : f[i] = f[j] => i = j
      BY <2>2 DEF Bijection, Injection, IsInjective
    <2>6. g \in Injection(1 .. table[s], rows[s])
      BY <2>4, <2>5 DEF Injection, IsInjective
    <2> QED
      BY <2>6
  <1> HIDE DEF numbering
  <1>2. ASSUME NEW p \in Units
        PROVE  /\ p[1] \in S /\ p[2] \in 1 .. table[p[1]] /\ p = <<p[1], p[2]>>
               /\ row[p] = numbering[p[1]][p[2]] /\ row[p] \in rows[p[1]]
    <2>1. p[1] \in S /\ p[2] \in 1 .. table[p[1]] /\ p = <<p[1], p[2]>>
      OBVIOUS
    <2>2. numbering[p[1]] \in [1 .. table[p[1]] -> rows[p[1]]]
      BY <1>1, <2>1 DEF Injection
    <2> QED
      BY <2>1, <2>2
  <1>3. row \in [Units -> R]
    BY <1>2
  <1>4. ASSUME NEW p \in Units, NEW q \in Units, row[p] = row[q]
        PROVE  p = q
    <2>1. p[1] = q[1]
      BY <1>2, <1>4
    <2>2. p[2] = q[2]
      <3> DEFINE f == numbering[p[1]]
      <3>1. \A i, j \in 1 .. table[p[1]] : f[i] = f[j] => i = j
        BY <1>1, <1>2 DEF Injection, IsInjective
      <3> QED
        BY <1>2, <1>4, <2>1, <3>1
    <2> QED
      BY <1>2, <2>1, <2>2
  <1> HIDE DEF row, Units
  <1>5. row \in Injection(Units, R)
    BY <1>3, <1>4 DEF Injection, IsInjective
  <1>6. IsFiniteSet(Units) /\ Cardinality(Units) <= Cardinality(R)
    BY <1>5, FS_Injection
  <1>7. Cardinality(Units) \in Nat
    BY <1>6, FS_CardinalityType
  <1> QED
    BY <1>6, <1>7 DEF Sum, Units
---------------------------------------------------------------------------
\* Days and months

DaysNeverOver == \A d \in Day : daily[d] <= Cardinality(Rows(inserted, d, DayLen))
MonthsNeverOver == \A m \in Month : monthly[m] <= Cardinality(Rows(inserted, m, MonthLen))

(* A day has the count of one of its hours and a month that of one of its  *)
(* days, so that they count no request twice either.                       *)
Totals ==
    /\ daily \in [Day -> Nat] /\ DaysNeverOver
    /\ monthly \in [Month -> Nat] /\ MonthsNeverOver

LEMMA Lengths ==
    /\ HourLen \in Nat \ {0} /\ HoursPerDay \in Nat \ {0} /\ DaysPerMonth \in Nat \ {0}
    /\ DayLen \in Nat \ {0} /\ MonthLen \in Nat \ {0} /\ HourLen <= DayLen
  <1>1. HourLen \in Nat \ {0} /\ HoursPerDay \in Nat \ {0} /\ DaysPerMonth \in Nat \ {0}
    BY ConfigAssumption
  <1>2. DayLen \in Nat \ {0} /\ HourLen <= DayLen
    <2>1. PICK n \in Nat : HoursPerDay = n + 1
      <3>1. HoursPerDay - 1 \in Nat /\ HoursPerDay = (HoursPerDay - 1) + 1
        BY <1>1
      <3> QED
        BY <3>1
    <2>2. DayLen = n * HourLen + HourLen /\ n * HourLen \in Nat
      BY <1>1, <2>1, SMT DEF DayLen
    <2> QED
      BY <1>1, <2>2
  <1>3. MonthLen \in Nat \ {0}
    <2> HIDE DEF DayLen
    <2> QED
      BY <1>1, <1>2, SMT DEF MonthLen
  <1> QED
    BY <1>1, <1>2, <1>3

\* Time ends with a month, so no bucket has parts beyond it
LEMMA Parts ==
    /\ \A d \in Day : \A h \in Part(d, HoursPerDay) : h \in Hour
    /\ \A m \in Month : \A d \in Part(m, DaysPerMonth) : d \in Day
  <1>1. MaxTime \in Nat /\ (MaxTime + 1) % MonthLen = 0
    BY ConfigAssumption
  <1> DEFINE n == (MaxTime + 1) \div MonthLen
  <1>2. n \in Nat \ {0} /\ MaxTime + 1 = n * MonthLen
    <2>1. n \in Nat /\ MaxTime + 1 = n * MonthLen + ((MaxTime + 1) % MonthLen)
      <3>1. MaxTime + 1 \in Nat /\ MonthLen \in Nat \ {0}
        BY <1>1, Lengths
      <3> QED
        BY ONLY <3>1, Division, Zenon
    <2> HIDE DEF n
    <2>2. n * MonthLen \in Nat /\ MaxTime + 1 = n * MonthLen
      BY <1>1, <2>1, Lengths
    <2>3. n # 0
      <3>1. n = 0 => n * MonthLen = 0
        BY Lengths, SMT
      <3> QED
        BY <1>1, <2>2, <3>1
    <2> QED
      BY <2>1, <2>2, <2>3
  <1> HIDE DEF n
  <1>3. ASSUME NEW m \in Month, NEW d \in Part(m, DaysPerMonth) PROVE d \in Day
    <2>1. MaxTime + 1 = n * (DaysPerMonth * DayLen)
      BY <1>2 DEF MonthLen
    <2>2. m \in 0 .. MaxTime \div (DaysPerMonth * DayLen)
      BY DEF Month, MonthOf, MonthLen
    <2>3. d \in 0 .. MaxTime \div DayLen
      BY <1>1, <1>2, <2>1, <2>2, Lengths, PartsOfTime
    <2> QED
      BY <2>3 DEF Day, DayOf
  <1>4. ASSUME NEW d \in Day, NEW h \in Part(d, HoursPerDay) PROVE h \in Hour
    <2> DEFINE k == n * DaysPerMonth
    <2>1. k \in Nat \ {0} /\ MaxTime + 1 = k * DayLen
      BY <1>2, Lengths, SMT DEF MonthLen
    <2> HIDE DEF k
    <2>2. MaxTime + 1 = k * (HoursPerDay * HourLen)
      BY <2>1 DEF DayLen
    <2>3. d \in 0 .. MaxTime \div (HoursPerDay * HourLen)
      BY DEF Day, DayOf, DayLen
    <2>4. h \in 0 .. MaxTime \div HourLen
      BY <1>1, <2>1, <2>2, <2>3, Lengths, PartsOfTime
    <2> QED
      BY <2>4 DEF Hour, HourOf
  <1> QED
    BY <1>3, <1>4

\* What a statement leaves in a bucket: the count of one of its sources
LEMMA AggregatedOne ==
    ASSUME NEW D, NEW dst, DOMAIN dst = D, NEW src, NEW unit, NEW per, NEW from, NEW to,
           NEW new \in Aggregated(dst, src, unit, per, from, to)
    PROVE  /\ new = [b \in D |-> new[b]]
           /\ \A b \in D :
                  LET S == Sources(b, unit, per, from, to)
                  IN \/ \E s \in S : src[s] # 0 /\ new[b] = src[s]
                     \/ (\A s \in S : src[s] = 0) /\ new[b] = dst[b]
  <1> DEFINE counts == [b \in DOMAIN dst |->
                           {src[s] : s \in Sources(b, unit, per, from, to)} \ {0}]
             found == {b \in DOMAIN dst : counts[b] # {}}
             made(last) == [b \in DOMAIN dst |-> IF b \in found THEN last[b] ELSE dst[b]]
  <1>1. new \in {made(last) :
                    last \in {f \in [found -> Count] : \A b \in found : f[b] \in counts[b]}}
    BY Zenon DEF Aggregated
  <1> HIDE DEF counts, made
  <1>2. PICK last : new = made(last) /\ \A b \in found : last[b] \in counts[b]
    BY <1>1
  <1>3. ASSUME NEW b \in D
        PROVE  LET S == Sources(b, unit, per, from, to)
               IN \/ \E s \in S : src[s] # 0 /\ new[b] = src[s]
                  \/ (\A s \in S : src[s] = 0) /\ new[b] = dst[b]
    <2>1. counts[b] = {src[s] : s \in Sources(b, unit, per, from, to)} \ {0}
      BY DEF counts
    <2>2. CASE counts[b] # {}
      <3>1. new[b] = last[b] /\ last[b] \in counts[b]
        BY <1>2, <2>2 DEF made
      <3> QED
        BY <2>1, <3>1
    <2>3. CASE counts[b] = {}
      <3>1. new[b] = dst[b]
        BY <1>2, <2>3 DEF made
      <3> QED
        BY <2>1, <2>3, <3>1
    <2> QED
      BY <2>2, <2>3
  <1>4. new = [b \in D |-> new[b]]
    BY <1>2 DEF made
  <1> QED
    BY <1>3, <1>4

\* ... which has counted rows of the bucket
LEMMA AggregatedBound ==
    ASSUME Types, NEW D \in SUBSET Nat, NEW dst \in [D -> Nat], NEW src,
           NEW unit \in Nat \ {0}, NEW per \in Nat \ {0},
           NEW size, size = per * unit, NEW from, NEW to,
           \A b \in D : \A s \in Part(b, per) :
               src[s] \in Nat /\ src[s] <= Cardinality(Rows(inserted, s, unit)),
           \A b \in D : dst[b] <= Cardinality(Rows(inserted, b, size)),
           NEW new, new \in Aggregated(dst, src, unit, per, from, to)
    PROVE  /\ new \in [D -> Nat]
           /\ \A b \in D : new[b] <= Cardinality(Rows(inserted, b, size))
  <1>1. ASSUME NEW b \in D
        PROVE  new[b] \in Nat /\ new[b] <= Cardinality(Rows(inserted, b, size))
    <2> DEFINE S == Sources(b, unit, per, from, to)
    <2>1. \/ \E s \in S : new[b] = src[s]
          \/ new[b] = dst[b]
      BY AggregatedOne
    <2>2. CASE \E s \in S : new[b] = src[s]
      <3>1. PICK s \in Part(b, per) : new[b] = src[s]
        BY <2>2 DEF Sources
      <3>2. src[s] \in Nat /\ src[s] <= Cardinality(Rows(inserted, s, unit))
        OBVIOUS
      <3>3. Rows(inserted, s, unit) \subseteq Rows(inserted, b, size)
        <4>1. ASSUME NEW r \in Rows(inserted, s, unit) PROVE r \in Rows(inserted, b, size)
          <5>1. r \in inserted /\ ts[r] \in Nat /\ ts[r] \div unit = s
            BY DEF Types, Rows
          <5>2. ts[r] \div size = b
            BY <5>1, BucketOfBuckets
          <5> QED
            BY <5>1, <5>2 DEF Rows
        <4> QED
          BY <4>1
      <3>4. Rows(inserted, b, size) \in SUBSET Row
        BY DEF Types, Rows
      <3>5. /\ Cardinality(Rows(inserted, s, unit)) \in Nat
            /\ Cardinality(Rows(inserted, b, size)) \in Nat
            /\ Cardinality(Rows(inserted, s, unit)) <= Cardinality(Rows(inserted, b, size))
        BY <3>3, <3>4, RowsFinite
      <3> QED
        BY <3>1, <3>2, <3>5
    <2>3. CASE new[b] = dst[b]
      BY <2>3
    <2> QED
      BY <2>1, <2>2, <2>3
  <1>2. new = [b \in D |-> new[b]]
    BY AggregatedOne
  <1> QED
    BY <1>1, <1>2

\* What a step may do to the rows and the two tables
FromHours(from, to) ==
    daily' \in Aggregated(daily, hourly, HourLen, HoursPerDay, from, to)
FromDays(from, to) ==
    monthly' \in Aggregated(monthly, daily, DayLen, DaysPerMonth, from, to)

LEMMA TablesStep ==
    ASSUME Inv, [Next]_vars
    PROVE  /\ inserted \subseteq inserted' /\ \A r \in inserted : ts'[r] = ts[r]
           /\ \/ daily' = daily
              \/ \E cutoff : daily' = Kept(daily, DayLen, cutoff)
              \/ \E from, to : FromHours(from, to)
           /\ \/ monthly' = monthly
              \/ \E from, to : FromDays(from, to)
  <1> DEFINE Claim ==
        /\ inserted \subseteq inserted' /\ \A r \in inserted : ts'[r] = ts[r]
        /\ \/ daily' = daily
           \/ \E cutoff : daily' = Kept(daily, DayLen, cutoff)
           \/ \E from, to : FromHours(from, to)
        /\ \/ monthly' = monthly
           \/ \E from, to : FromDays(from, to)
  <1> USE DEF FromHours, FromDays
  <1>1. ASSUME NEW target, NEW from, NEW to, AggregateMetrics(target, from, to),
               UNCHANGED <<inserted, ts>>
        PROVE  Claim
    BY <1>1 DEF AggregateMetrics
  <1>2. ASSUME NEW table, NEW at, CleanupMetrics(table, at), UNCHANGED <<inserted, ts>>
        PROVE  Claim
    BY <1>2 DEF CleanupMetrics
  <1>3. CASE EndAttempt
    <2>1. inserted \subseteq 1 .. ended /\ ended \in Nat /\ ended' = ended + 1
          /\ ts' = [ts EXCEPT ![ended'] = now] /\ UNCHANGED <<inserted, daily, monthly>>
          /\ ts \in [Row -> Nat] /\ inserted \subseteq Row
      BY <1>3 DEF EndAttempt, Inv, Types, history, tables
    <2>2. \A r \in inserted : r # ended' /\ r \in Row
      BY <2>1
    <2> QED
      BY <2>1, <2>2
  <1>4. CASE \E r \in late, ok \in BOOLEAN : InsertMetrics(r, ok)
    BY <1>4 DEF InsertMetrics, history
  <1>5. CASE \E ok \in BOOLEAN : RunAggregation(ok)
    BY <1>1, <1>5 DEF RunAggregation, requests, history, tables
  <1>6. CASE \E c \in Cleaner, ok \in BOOLEAN : RunCleanup(c, ok)
    BY <1>2, <1>6 DEF RunCleanup, requests, history, tables
  <1>7. CASE \E target \in Target, d \in Windows, to \in {now - 1, now} :
                 HandleAggregateMetrics(target, to - d, to)
    BY <1>1, <1>7 DEF HandleAggregateMetrics, requests, history
  <1>8. CASE StartAggregation \/ StartCleanup \/ HandleCleanupMetrics \/ Stop \/ Start \/ Tick
             \/ UNCHANGED vars
    BY <1>8 DEF StartAggregation, StartCleanup, HandleCleanupMetrics, Stop, Start, Tick,
                vars, tables, history, requests
  <1> QED
    BY <1>3, <1>4, <1>5, <1>6, <1>7, <1>8 DEF Next

LEMMA RowsGrow ==
    ASSUME Types, Types', inserted \subseteq inserted', \A r \in inserted : ts'[r] = ts[r],
           NEW b, NEW size, NEW count \in Nat, count <= Cardinality(Rows(inserted, b, size))
    PROVE  count <= Cardinality(Rows(inserted, b, size))'
  <1> DEFINE old == Rows(inserted, b, size)
             grown == {r \in inserted' : ts'[r] \div size = b}
  <1>1. Rows(inserted, b, size)' = grown
    BY DEF Rows
  <1>2. old \subseteq grown /\ grown \in SUBSET Row
    BY DEF Rows, Types
  <1> HIDE DEF old, grown
  <1>3. /\ Cardinality(old) \in Nat /\ Cardinality(grown) \in Nat
        /\ Cardinality(old) <= Cardinality(grown)
    BY <1>2, RowsFinite
  <1>4. count <= Cardinality(grown)
    BY <1>3 DEF old
  <1> QED
    BY <1>1, <1>4

LEMMA TotalsStep ==
    ASSUME Inv, Inv', Totals, [Next]_vars
    PROVE  Totals'
  <1>1. inserted \subseteq inserted' /\ \A r \in inserted : ts'[r] = ts[r]
    BY TablesStep
  <1>2. /\ daily \in [Day -> Nat] /\ Day \in SUBSET Nat
        /\ monthly \in [Month -> Nat] /\ Month \in SUBSET Nat
    BY DEF Totals, Day, Month
  <1>5. Types /\ Types'
    BY DEF Inv
  <1>3. /\ daily' \in [Day -> Nat]
        /\ \A d \in Day : daily'[d] <= Cardinality(Rows(inserted, d, DayLen))
    <2>1. \A d \in Day : daily[d] <= Cardinality(Rows(inserted, d, DayLen))
      BY DEF Totals, DaysNeverOver
    <2>2. CASE daily' = daily
      BY <1>2, <2>1, <2>2
    <2>3. CASE \E cutoff : daily' = Kept(daily, DayLen, cutoff)
      <3>1. PICK cutoff : daily' = Kept(daily, DayLen, cutoff)
        BY <2>3
      <3>2. \A d \in Day : Cardinality(Rows(inserted, d, DayLen)) \in Nat
        <4>1. \A d \in Day : Rows(inserted, d, DayLen) \in SUBSET Row
          BY DEF Inv, Types, Rows
        <4> QED
          BY <4>1, RowsFinite
      <3>3. \A d \in Day : daily'[d] \in {0, daily[d]}
        BY <1>2, <3>1 DEF Kept
      <3>4. daily' = [d \in Day |-> daily'[d]]
        BY <1>2, <3>1 DEF Kept
      <3>5. \A d \in Day : /\ daily'[d] \in Nat
                           /\ daily'[d] <= Cardinality(Rows(inserted, d, DayLen))
        BY <1>2, <2>1, <3>2, <3>3
      <3> QED
        BY <3>4, <3>5
    <2>4. CASE \E from, to : FromHours(from, to)
      <3>1. PICK from, to :
                daily' \in Aggregated(daily, hourly, HourLen, HoursPerDay, from, to)
        BY <2>4 DEF FromHours
      <3>2. \A d \in Day : \A h \in Part(d, HoursPerDay) :
                hourly[h] \in Nat /\ hourly[h] <= Cardinality(Rows(inserted, h, HourLen))
        BY Parts DEF Inv, Types, HoursNeverOver
      <3>3. DayLen = HoursPerDay * HourLen
        BY DEF DayLen
      <3> QED
        BY ONLY <1>2, <1>5, <2>1, <3>1, <3>2, <3>3, Lengths, AggregatedBound
    <2> QED
      BY <2>2, <2>3, <2>4, TablesStep
  <1>4. /\ monthly' \in [Month -> Nat]
        /\ \A m \in Month : monthly'[m] <= Cardinality(Rows(inserted, m, MonthLen))
    <2>1. \A m \in Month : monthly[m] <= Cardinality(Rows(inserted, m, MonthLen))
      BY DEF Totals, MonthsNeverOver
    <2>2. CASE monthly' = monthly
      BY <1>2, <2>1, <2>2
    <2>3. CASE \E from, to : FromDays(from, to)
      <3>1. PICK from, to :
                monthly' \in Aggregated(monthly, daily, DayLen, DaysPerMonth, from, to)
        BY <2>3 DEF FromDays
      <3>2. \A m \in Month : \A d \in Part(m, DaysPerMonth) :
                daily[d] \in Nat /\ daily[d] <= Cardinality(Rows(inserted, d, DayLen))
        BY <1>2, Parts DEF Totals, DaysNeverOver
      <3>3. MonthLen = DaysPerMonth * DayLen
        BY DEF MonthLen
      <3> QED
        BY ONLY <1>2, <1>5, <2>1, <3>1, <3>2, <3>3, Lengths, AggregatedBound
    <2> QED
      BY <2>2, <2>3, TablesStep
  <1>6. ASSUME NEW d \in Day PROVE daily'[d] <= Cardinality(Rows(inserted, d, DayLen))'
    BY <1>1, <1>3, <1>5, RowsGrow
  <1>7. ASSUME NEW m \in Month PROVE monthly'[m] <= Cardinality(Rows(inserted, m, MonthLen))'
    BY <1>1, <1>4, <1>5, RowsGrow
  <1>8. DaysNeverOver' /\ MonthsNeverOver'
    BY <1>6, <1>7 DEF DaysNeverOver, MonthsNeverOver
  <1> QED
    BY <1>3, <1>4, <1>8 DEF Totals

LEMMA TotalsInit == Init => Totals
  <1> SUFFICES ASSUME Init PROVE Totals
    OBVIOUS
  <1>1. /\ daily \in [Day -> Nat] /\ monthly \in [Month -> Nat]
        /\ \A d \in Day : daily[d] = 0
        /\ \A m \in Month : monthly[m] = 0
    BY DEF Init, None
  <1>2. ASSUME NEW b, NEW size PROVE 0 <= Cardinality(Rows(inserted, b, size))
    <2>1. Rows(inserted, b, size) \in SUBSET Row
      BY DEF Init, Rows
    <2> QED
      BY <2>1, RowsFinite
  <1> QED
    BY <1>1, <1>2 DEF Totals, DaysNeverOver, MonthsNeverOver

LEMMA TotalsHold == Spec => [](Inv /\ Totals)
  <1>1. Inv /\ Totals /\ [Next]_vars => Inv' /\ Totals'
    BY StepInv, TotalsStep
  <1> QED
    BY <1>1, InitInv, TotalsInit, PTL DEF Spec

\* The trend of the last day: hours that are over, and rows of this one
LEMMA TrendBound ==
    ASSUME Inv
    PROVE  Trend24h <= Cardinality({r \in inserted : ts[r] >= now - DayLen})
  <1> DEFINE k == HourOf(now)
             S == TrendHours(k)
             rows == [s \in S |-> Rows(inserted, s, HourLen)]
             Before == {r \in inserted : ts[r] >= now - DayLen /\ HourOf(ts[r]) < k}
             This == TrendRows(k)
             All == {r \in inserted : ts[r] >= now - DayLen}
  <1>1. now \in Nat /\ k \in Nat /\ k * HourLen <= now /\ now < k * HourLen + HourLen
    BY Lengths, Division DEF Inv, Types, HourOf
  <1>2. \A r \in inserted : /\ ts[r] \in Nat /\ r \in Row
                            /\ HourOf(ts[r]) \in Nat
                            /\ HourOf(ts[r]) * HourLen <= ts[r]
    BY Lengths, Division DEF Inv, Types, HourOf
  <1>3. IsFiniteSet(Before) /\ IsFiniteSet(This) /\ IsFiniteSet(All)
    <2>1. Before \in SUBSET Row /\ This \in SUBSET Row /\ All \in SUBSET Row
      BY DEF Inv, Types, TrendRows, Rows
    <2> HIDE DEF Before, This, All
    <2> QED
      BY <2>1, RowsFinite
  <1>4. \A s \in S : rows[s] \subseteq Before
    <2>1. ASSUME NEW s \in S, NEW r \in Rows(inserted, s, HourLen) PROVE r \in Before
      <3>1. r \in inserted /\ HourOf(ts[r]) = s /\ s < k /\ now - DayLen <= s * HourLen
        BY DEF Rows, TrendHours, HourOf
      <3>2. s * HourLen \in Int /\ DayLen \in Int
        BY <1>2, <3>1, Lengths
      <3>3. ts[r] >= now - DayLen
        BY <1>1, <1>2, <3>1, <3>2
      <3> QED
        BY <3>1, <3>3
    <2> QED
      BY <2>1
  <1>5. \A s \in S : hourly[s] \in Nat /\ hourly[s] <= Cardinality(rows[s])
    BY DEF TrendHours, Inv, Types, HoursNeverOver
  <1>6. \A s, u \in S : s # u => rows[s] \cap rows[u] = {}
    BY DEF Rows
  <1>7. This \subseteq All /\ Before \subseteq All /\ Before \cap This = {}
    <2>1. ASSUME NEW r \in This PROVE r \in All /\ HourOf(ts[r]) = k
      <3>1. r \in inserted /\ HourOf(ts[r]) = k
        BY DEF TrendRows, Rows, Inv, Types, HourOf
      <3>2. k * HourLen <= ts[r] /\ k * HourLen \in Int /\ DayLen \in Int /\ HourLen <= DayLen
        BY <1>1, <1>2, <3>1, Lengths
      <3>3. ts[r] >= now - DayLen
        BY <1>1, <1>2, <3>1, <3>2, Lengths
      <3> QED
        BY <3>1, <3>3
    <2> QED
      BY <2>1, <1>1
  <1> HIDE DEF S, rows, Before, This, All
  <1>8. Sum(hourly, S) \in Nat /\ Sum(hourly, S) <= Cardinality(Before)
    BY <1>3, <1>4, <1>5, <1>6, SumBound
  <1>9. Cardinality(Before \cup This) = Cardinality(Before) + Cardinality(This)
    <2>1. Cardinality({}) = 0
      BY FS_EmptySet
    <2>2. /\ Cardinality(Before) \in Nat /\ Cardinality(This) \in Nat
      BY <1>3, FS_CardinalityType
    <2>3. Cardinality(Before \cup This) = Cardinality(Before) + Cardinality(This) - 0
      BY <1>3, <1>7, <2>1, FS_Union
    <2> QED
      BY <2>2, <2>3
  <1>10. Cardinality(Before \cup This) <= Cardinality(All)
    BY <1>3, <1>7, FS_Subset
  <1>11. Cardinality(Before) \in Nat /\ Cardinality(This) \in Nat /\ Cardinality(All) \in Nat
    BY <1>3, FS_CardinalityType
  <1>12. Sum(hourly, S) + Cardinality(This) <= Cardinality(All)
    BY <1>8, <1>9, <1>10, <1>11
  <1> QED
    BY <1>12 DEF Trend24h, S, This, All

(* No bucket of any of the three tables, and no trend, counts a request    *)
(* twice, or one that was never inserted.                                  *)
THEOREM NeverOverCountsHolds == Spec => []NeverOverCounts
  <1>1. Inv /\ Totals => NeverOverCounts
    BY TrendBound DEF NeverOverCounts, Inv, Totals, DaysNeverOver, MonthsNeverOver
  <1> QED
    BY <1>1, TotalsHold, PTL
---------------------------------------------------------------------------
\* Types and limits

(* A task that waits is not late, one that runs began when it was due and  *)
(* is within its context.                                                  *)
OnTime(task) ==
    IF task.pc = "wait" THEN now <= task.due
    ELSE task.at = task.due /\ now <= task.at + MaxLag

RowsOnTime == \A r \in late : ts[r] <= now /\ now <= ts[r] + MaxLag
Timely == IF up THEN OnTime(agg) /\ OnTime(clean["scheduled"]) /\ RowsOnTime ELSE late = {}

Troubles ==
    /\ ops \in Nat /\ stops \in Nat /\ faults \in Nat
    /\ ops + stops + faults <= MaxTroubles

Bounds ==
    /\ now <= MaxTime /\ ended <= MaxRows
    /\ \A r \in Row : ts[r] <= MaxTime
    /\ agg.at <= MaxTime
    /\ \A c \in Cleaner : clean[c].at <= MaxTime
    /\ prompt \subseteq inserted /\ late \cap inserted = {}

Course == Timely /\ Bounds /\ Troubles

\* What the tasks wait for is ahead
LEMMA DueAhead ==
    ASSUME NEW t \in Nat
    PROVE  /\ NextAggregate(t) \in Nat /\ t < NextAggregate(t)
           /\ NextCleanup(t) \in Nat /\ t < NextCleanup(t)
  <1> DEFINE h == HourOf(t)
             d == DayOf(t)
             offset == CleanupHour * HourLen
  <1>1. h \in Nat /\ t < h * HourLen + HourLen
    BY Lengths, Division DEF HourOf
  <1>2. d \in Nat /\ t < d * DayLen + DayLen
    BY Lengths, Division DEF DayOf
  <1>3. offset \in Nat
    <2>1. CleanupHour \in Nat /\ HourLen \in Nat
      BY ConfigAssumption
    <2> QED
      BY <2>1, SMT
  <1> HIDE DEF h, d, offset
  <1>4. NextAggregate(t) \in Nat /\ t < NextAggregate(t)
    <2>1. (h + 1) * HourLen = h * HourLen + HourLen /\ h * HourLen \in Nat
      BY <1>1, Lengths, SMT
    <2> QED
      BY <1>1, <2>1, Lengths DEF NextAggregate, h
  <1>5. d * DayLen \in Nat /\ DayLen \in Nat
    BY <1>2, Lengths, SMT
  <1>6. NextCleanup(t) = IF d * DayLen + offset > t THEN d * DayLen + offset
                         ELSE d * DayLen + offset + DayLen
    BY DEF NextCleanup, d, offset
  <1>7. NextCleanup(t) \in Nat /\ t < NextCleanup(t)
    BY ONLY t \in Nat, <1>2, <1>3, <1>5, <1>6
  <1> QED
    BY <1>4, <1>7

LEMMA Limits ==
    /\ MaxTime \in Nat /\ MaxRows \in Nat /\ MaxTroubles \in Nat
    /\ MaxLag \in Nat /\ HourLen \in Nat /\ DayLen \in Nat
    /\ MaxLag < HourLen /\ MaxLag < DayLen
  <1>1. /\ MaxTime \in Nat /\ MaxRows \in Nat /\ MaxTroubles \in Nat
        /\ MaxLag \in 0 .. HourLen - 1
    BY ConfigAssumption
  <1> QED
    BY <1>1, Lengths

LEMMA InitCourse == Init => Course
  <1> SUFFICES ASSUME Init PROVE Course
    OBVIOUS
  <1>1. /\ now = 0 /\ up = TRUE /\ late = {} /\ inserted = {} /\ prompt = {}
        /\ ended = 0 /\ ts = None(Row) /\ ops = 0 /\ stops = 0 /\ faults = 0
        /\ agg = Waiting(NextAggregate(0), TRUE)
        /\ clean = [c \in Cleaner |-> IF c = "admin" THEN Waiting(0, FALSE)
                                      ELSE Waiting(NextCleanup(0), TRUE)]
    BY DEF Init
  <1>2. /\ agg.pc = "wait" /\ agg.at = 0 /\ agg.due = NextAggregate(0)
        /\ clean["scheduled"].pc = "wait" /\ clean["scheduled"].due = NextCleanup(0)
        /\ \A c \in Cleaner : clean[c].at = 0
    BY <1>1 DEF Waiting, Cleaner
  <1>3. Timely
    <2>1. /\ NextAggregate(0) \in Nat /\ 0 < NextAggregate(0)
          /\ NextCleanup(0) \in Nat /\ 0 < NextCleanup(0)
      BY DueAhead
    <2>2. now = 0
      BY <1>1
    <2>3. now <= agg.due /\ now <= clean["scheduled"].due
      BY ONLY <1>2, <2>1, <2>2
    <2> QED
      BY <1>1, <1>2, <2>3 DEF Timely, OnTime, RowsOnTime
  <1>4. Bounds
    <2>1. \A r \in Row : ts[r] = 0
      BY <1>1 DEF None
    <2>2. /\ now = 0 /\ ended = 0 /\ agg.at = 0
          /\ late = {} /\ inserted = {} /\ prompt = {}
      BY <1>1, <1>2
    <2>3. \A c \in Cleaner : clean[c].at = 0
      BY <1>2
    <2> QED
      BY ONLY <2>1, <2>2, <2>3, Limits DEF Bounds
  <1>5. Troubles
    BY <1>1, Limits DEF Troubles
  <1> QED
    BY <1>3, <1>4, <1>5 DEF Course

\* A statement that works, fails or is asked for counts at most one trouble
LEMMA OneTrouble ==
    ASSUME Troubles,
           \/ UNCHANGED <<ops, stops, faults>>
           \/ /\ Calm
              /\ \/ ops' = ops + 1 /\ UNCHANGED <<stops, faults>>
                 \/ stops' = stops + 1 /\ UNCHANGED <<ops, faults>>
                 \/ faults' = faults + 1 /\ UNCHANGED <<ops, stops>>
    PROVE  Troubles'
  BY Limits DEF Troubles, Calm

LEMMA EndAttemptCourse ==
    ASSUME Inv, Course, EndAttempt
    PROVE  Course'
  <1>1. /\ UNCHANGED <<now, up, agg, clean, inserted, prompt, ops, stops, faults>>
        /\ up /\ ended < MaxRows /\ ended' = ended + 1
        /\ ts' = [ts EXCEPT ![ended'] = now]
        /\ late' = late \cup {ended'}
    BY DEF EndAttempt, tasks, history
  <1>2. /\ ended \in Nat /\ ended' \in Row /\ now \in Nat /\ now <= MaxTime
        /\ inserted \subseteq 1 .. ended /\ late \subseteq 1 .. ended
        /\ inserted \subseteq Row /\ late \subseteq Row /\ ts \in [Row -> Nat]
    BY <1>1, Limits DEF Inv, Types, Row, Course, Bounds
  <1>3. \A r \in Row : ts'[r] = IF r = ended' THEN now ELSE ts[r]
    BY <1>1, <1>2
  <1>4. ended' \notin late /\ ended' \notin inserted
    BY <1>1, <1>2
  <1>5. RowsOnTime'
    <2>1. ASSUME NEW r \in late' PROVE ts'[r] <= now /\ now <= ts'[r] + MaxLag
      <3>1. CASE r = ended'
        BY <1>2, <1>3, <3>1, Limits
      <3>2. CASE r \in late
        <4>1. r \in Row /\ ts'[r] = ts[r]
          BY <1>2, <1>3, <1>4, <3>2
        <4> QED
          BY <1>1, <3>2, <4>1 DEF Course, Timely, RowsOnTime
      <3> QED
        BY <1>1, <3>1, <3>2
    <2> QED
      BY <1>1, <2>1 DEF RowsOnTime
  <1>6. Timely'
    BY <1>1, <1>5 DEF Course, Timely, OnTime
  <1>7. Bounds'
    <2>1. ended' <= MaxRows /\ \A r \in Row : ts'[r] <= MaxTime
      BY <1>1, <1>2, <1>3, Limits DEF Course, Bounds
    <2>2. late' \cap inserted = {}
      BY <1>1, <1>4 DEF Course, Bounds
    <2> QED
      BY <1>1, <2>1, <2>2 DEF Course, Bounds
  <1>8. Troubles'
    BY <1>1, OneTrouble DEF Course
  <1> QED
    BY <1>6, <1>7, <1>8 DEF Course

LEMMA InsertMetricsCourse ==
    ASSUME Inv, Course, NEW r \in late, NEW ok \in BOOLEAN, InsertMetrics(r, ok)
    PROVE  Course'
  <1>1. /\ UNCHANGED <<now, ended, ts, up, agg, clean, ops, stops>>
        /\ up /\ late' = late \ {r}
        /\ inserted' \subseteq inserted \cup {r}
        /\ prompt' \subseteq inserted'
        /\ faults' = faults \/ (Calm /\ faults' = faults + 1)
    BY DEF InsertMetrics, tasks, history, Works, Fails, Course, Bounds
  <1>2. Timely'
    BY <1>1 DEF Course, Timely, OnTime, RowsOnTime
  <1>3. Bounds'
    BY <1>1 DEF Course, Bounds
  <1>4. Troubles'
    BY <1>1, OneTrouble DEF Course
  <1> QED
    BY <1>2, <1>3, <1>4 DEF Course

\* Whatever happens to the tables and the one task that is due or running
LEMMA TaskCourse ==
    ASSUME Course, Troubles',
           UNCHANGED <<now, ended, ts, late, up, inserted, prompt>>,
           up => OnTime(agg)' /\ OnTime(clean["scheduled"])',
           (agg.at)' <= MaxTime,
           \A c \in Cleaner : clean'[c].at <= MaxTime
    PROVE  Course'
  <1>1. Timely'
    BY DEF Course, Timely, RowsOnTime
  <1>2. Bounds'
    BY DEF Course, Bounds
  <1> QED
    BY <1>1, <1>2 DEF Course

LEMMA StartAggregationCourse ==
    ASSUME Inv, Course, StartAggregation
    PROVE  Course'
  <1>1. /\ UNCHANGED <<now, ended, ts, late, up, inserted, prompt, clean, ops, stops, faults>>
        /\ up /\ now = agg.due /\ agg' = [agg EXCEPT !.pc = "hour", !.at = now]
    BY DEF StartAggregation, requests, history
  <1>2. agg'.pc = "hour" /\ agg'.at = now /\ agg'.due = agg.due /\ now \in Nat
    BY <1>1 DEF Inv, Types
  <1>3. OnTime(agg)'
    BY <1>1, <1>2, Limits DEF OnTime
  <1>4. OnTime(clean["scheduled"])'
    BY <1>1 DEF Course, Timely, OnTime
  <1>5. agg'.at <= MaxTime /\ \A c \in Cleaner : clean'[c].at <= MaxTime
    BY <1>1, <1>2 DEF Course, Bounds
  <1>6. Troubles'
    BY <1>1, OneTrouble DEF Course
  <1> QED
    BY <1>1, <1>3, <1>4, <1>5, <1>6, TaskCourse

LEMMA RunAggregationCourse ==
    ASSUME Inv, Course, NEW ok \in BOOLEAN, RunAggregation(ok)
    PROVE  Course'
  <1>1. /\ UNCHANGED <<now, ended, ts, late, up, inserted, prompt, clean, ops, stops>>
        /\ up /\ agg.pc # "wait"
        /\ faults' = faults \/ (Calm /\ faults' = faults + 1)
        /\ \/ \E pc \in {"day", "month"} : agg' = [agg EXCEPT !.pc = pc]
           \/ AggregationOver
    BY DEF RunAggregation, requests, history, Works, Fails
  <1>2. /\ now \in Nat /\ agg.due \in Nat /\ agg.at = agg.due /\ now <= agg.at + MaxLag
        /\ agg.at <= MaxTime
    BY <1>1 DEF Inv, Types, Course, Timely, OnTime, Bounds
  <1>3. OnTime(agg)' /\ agg'.at <= MaxTime
    <2>1. CASE \E pc \in {"day", "month"} : agg' = [agg EXCEPT !.pc = pc]
      <3>1. agg'.pc # "wait" /\ agg'.at = agg.at /\ agg'.due = agg.due
        BY <2>1 DEF Inv, Types
      <3> QED
        BY <1>1, <1>2, <3>1 DEF OnTime
    <2>2. CASE AggregationOver
      <3>1. /\ agg'.pc = "wait" /\ agg'.at = 0
            /\ agg'.due \in {now + HourLen, agg.due + HourLen}
        BY <2>2 DEF AggregationOver, Waiting
      <3>2. now <= agg'.due
        BY <1>2, <3>1, Limits
      <3> QED
        BY <1>1, <3>1, <3>2, Limits DEF OnTime
    <2> QED
      BY <1>1, <2>1, <2>2
  <1>4. OnTime(clean["scheduled"])' /\ \A c \in Cleaner : clean'[c].at <= MaxTime
    BY <1>1 DEF Course, Timely, OnTime, Bounds
  <1>5. Troubles'
    BY <1>1, OneTrouble DEF Course
  <1> QED
    BY <1>1, <1>3, <1>4, <1>5, TaskCourse
LEMMA StartCleanupCourse ==
    ASSUME Inv, Course, NEW c \in Cleaner, up,
           c = "scheduled" => now = clean[c].due,
           clean' = [clean EXCEPT ![c].pc = "raw", ![c].at = now],
           UNCHANGED <<now, ended, ts, late, up, inserted, prompt, agg>>, Troubles'
    PROVE  Course'
  <1>1. \A d \in Cleaner : IF d = c
                           THEN /\ clean'[d].pc = "raw" /\ clean'[d].at = now
                                /\ clean'[d].due = clean[d].due
                           ELSE clean'[d] = clean[d]
    BY DEF Inv, Types
  <1>2. now \in Nat /\ "scheduled" \in Cleaner
    BY DEF Inv, Types, Cleaner
  <1>3. OnTime(clean["scheduled"])'
    <2>1. CASE c = "scheduled"
      <3>1. /\ clean'["scheduled"].pc = "raw" /\ clean'["scheduled"].at = now
            /\ clean'["scheduled"].due = now
        BY <1>1, <2>1
      <3> QED
        BY <1>2, <3>1, Limits DEF OnTime
    <2>2. CASE c # "scheduled"
      BY <1>1, <1>2, <2>2 DEF Course, Timely, OnTime
    <2> QED
      BY <2>1, <2>2
  <1>4. OnTime(agg)' /\ agg'.at <= MaxTime
    BY DEF Course, Timely, OnTime, Bounds
  <1>5. \A d \in Cleaner : clean'[d].at <= MaxTime
    BY <1>1 DEF Course, Bounds
  <1> QED
    BY <1>3, <1>4, <1>5, TaskCourse

LEMMA RunCleanupCourse ==
    ASSUME Inv, Course, NEW c \in Cleaner, NEW ok \in BOOLEAN, RunCleanup(c, ok)
    PROVE  Course'
  <1>1. /\ UNCHANGED <<now, ended, ts, late, up, inserted, prompt, agg, ops, stops>>
        /\ up /\ clean[c].pc # "wait"
        /\ faults' = faults \/ (Calm /\ faults' = faults + 1)
        /\ \/ \E pc \in {"hour", "day"} : clean' = [clean EXCEPT ![c].pc = pc]
           \/ clean' = [clean EXCEPT ![c] = CleanupOver(c)]
    BY DEF RunCleanup, requests, history, Works, Fails
  <1>2. /\ now \in Nat /\ "scheduled" \in Cleaner
        /\ clean["scheduled"].due \in Nat /\ clean["scheduled"].at \in Nat
    BY DEF Inv, Types, Cleaner
  <1>3. OnTime(clean["scheduled"])
    BY <1>1 DEF Course, Timely
  <1>4. OnTime(clean["scheduled"])' /\ \A d \in Cleaner : clean'[d].at <= MaxTime
    <2>1. CASE \E pc \in {"hour", "day"} : clean' = [clean EXCEPT ![c].pc = pc]
      <3>1. \A d \in Cleaner : /\ clean'[d].at = clean[d].at /\ clean'[d].due = clean[d].due
                               /\ d # c => clean'[d].pc = clean[d].pc
                               /\ d = c => clean'[d].pc # "wait"
        BY <2>1 DEF Inv, Types
      <3>2. OnTime(clean["scheduled"])'
        BY <1>1, <1>2, <1>3, <3>1 DEF OnTime
      <3> QED
        BY <3>1, <3>2 DEF Course, Bounds
    <2>2. CASE clean' = [clean EXCEPT ![c] = CleanupOver(c)]
      <3>1. \A d \in Cleaner : clean'[d] = IF d = c THEN CleanupOver(c) ELSE clean[d]
        BY <2>2 DEF Inv, Types
      <3>2. CleanupOver(c).pc = "wait" /\ CleanupOver(c).at = 0
        BY DEF CleanupOver, Waiting
      <3>3. c = "scheduled" => CleanupOver(c).due \in {now + DayLen, clean[c].due + DayLen}
        BY DEF CleanupOver, Waiting
      <3>4. OnTime(clean["scheduled"])'
        <4>1. CASE c = "scheduled"
          <5>1. now <= clean["scheduled"].due + MaxLag
            BY <1>1, <1>3, <4>1 DEF OnTime
          <5>2. now <= clean'["scheduled"].due /\ clean'["scheduled"].pc = "wait"
            BY <1>2, <3>1, <3>2, <3>3, <4>1, <5>1, Limits
          <5> QED
            BY <1>1, <5>2 DEF OnTime
        <4>2. CASE c # "scheduled"
          BY <1>1, <1>2, <1>3, <3>1, <4>2 DEF OnTime
        <4> QED
          BY <4>1, <4>2
      <3>5. \A d \in Cleaner : clean'[d].at <= MaxTime
        BY <3>1, <3>2, Limits DEF Course, Bounds
      <3> QED
        BY <3>4, <3>5
    <2> QED
      BY <1>1, <2>1, <2>2
  <1>5. OnTime(agg)' /\ agg'.at <= MaxTime
    BY <1>1 DEF Course, Timely, OnTime, Bounds
  <1>6. Troubles'
    BY <1>1, OneTrouble DEF Course
  <1> QED
    BY <1>1, <1>4, <1>5, <1>6, TaskCourse

LEMMA StopCourse ==
    ASSUME Inv, Course, Stop
    PROVE  Course'
  <1>1. /\ UNCHANGED <<now, ended, ts, agg, clean, inserted, prompt, ops, faults>>
        /\ Calm /\ up' = FALSE /\ late' = {} /\ stops' = stops + 1
    BY DEF Stop, history
  <1>2. Timely'
    BY <1>1 DEF Timely
  <1>3. Bounds'
    BY <1>1 DEF Course, Bounds
  <1>4. Troubles'
    BY <1>1, OneTrouble DEF Course
  <1> QED
    BY <1>2, <1>3, <1>4 DEF Course

LEMMA StartCourse ==
    ASSUME Inv, Course, Start
    PROVE  Course'
  <1>1. /\ UNCHANGED <<now, ended, ts, late, inserted, prompt, ops, stops, faults>>
        /\ ~up /\ up' = TRUE /\ Schedule(now)
    BY DEF Start, requests, history
  <1>2. /\ agg'.pc = "wait" /\ agg'.at = 0 /\ agg'.due = NextAggregate(now)
        /\ clean'["scheduled"].pc = "wait" /\ clean'["scheduled"].due = NextCleanup(now)
        /\ \A c \in Cleaner : clean'[c].at = 0
    BY <1>1 DEF Schedule, Waiting, Cleaner
  <1>3. late = {}
    BY <1>1 DEF Course, Timely
  <1>4. Timely'
    <2>1. /\ now \in Nat /\ NextAggregate(now) \in Nat /\ now < NextAggregate(now)
          /\ NextCleanup(now) \in Nat /\ now < NextCleanup(now)
      BY DueAhead DEF Inv, Types
    <2>2. now <= agg'.due /\ now <= clean'["scheduled"].due
      BY <1>2, <2>1
    <2> QED
      BY <1>1, <1>2, <1>3, <2>2 DEF Timely, OnTime, RowsOnTime
  <1>5. Bounds'
    BY <1>1, <1>2, Limits DEF Course, Bounds
  <1>6. Troubles'
    BY <1>1, OneTrouble DEF Course
  <1> QED
    BY <1>4, <1>5, <1>6 DEF Course

LEMMA TickCourse ==
    ASSUME Inv, Course, Tick
    PROVE  Course'
  <1>1. /\ UNCHANGED <<ended, ts, late, up, agg, clean, inserted, prompt, ops, stops, faults>>
        /\ now < MaxTime /\ now' = now + 1
        /\ up => /\ InTime(agg) /\ InTime(clean["scheduled"])
                 /\ \A r \in late : now < ts[r] + MaxLag
    BY DEF Tick, requests, tasks, history
  <1>2. /\ now \in Nat /\ ts \in [Row -> Nat] /\ late \subseteq Row /\ "scheduled" \in Cleaner
        /\ agg.at \in Nat /\ agg.due \in Nat
        /\ clean["scheduled"].at \in Nat /\ clean["scheduled"].due \in Nat
    BY DEF Inv, Types, Cleaner
  <1>3. Timely'
    <2>1. CASE up
      <3>1. OnTime(agg)'
        BY <1>1, <1>2, <2>1, Limits DEF Course, Timely, OnTime, InTime
      <3>2. OnTime(clean["scheduled"])'
        BY <1>1, <1>2, <2>1, Limits DEF Course, Timely, OnTime, InTime
      <3>3. RowsOnTime'
        BY <1>1, <1>2, <2>1, Limits DEF Course, Timely, RowsOnTime
      <3> QED
        BY <1>1, <2>1, <3>1, <3>2, <3>3 DEF Timely
    <2>2. CASE ~up
      BY <1>1, <2>2 DEF Course, Timely
    <2> QED
      BY <2>1, <2>2
  <1>4. Bounds'
    BY <1>1, <1>2, Limits DEF Course, Bounds
  <1>5. Troubles'
    BY <1>1, OneTrouble DEF Course
  <1> QED
    BY <1>3, <1>4, <1>5 DEF Course

LEMMA StepCourse == Inv /\ Course /\ [Next]_vars => Course'
  <1> SUFFICES ASSUME Inv, Course, [Next]_vars PROVE Course'
    OBVIOUS
  <1>1. CASE EndAttempt
    BY <1>1, EndAttemptCourse
  <1>2. CASE \E r \in late, ok \in BOOLEAN : InsertMetrics(r, ok)
    BY <1>2, InsertMetricsCourse
  <1>3. CASE StartAggregation
    BY <1>3, StartAggregationCourse
  <1>4. CASE \E ok \in BOOLEAN : RunAggregation(ok)
    BY <1>4, RunAggregationCourse
  <1>5. CASE StartCleanup
    <2>1. /\ clean' = [clean EXCEPT !["scheduled"].pc = "raw", !["scheduled"].at = now]
          /\ UNCHANGED <<now, ended, ts, late, up, inserted, prompt, agg, ops, stops, faults>>
          /\ "scheduled" \in Cleaner /\ up /\ now = clean["scheduled"].due
      BY <1>5 DEF StartCleanup, requests, history, Cleaner
    <2>2. Troubles'
      BY <2>1, OneTrouble DEF Course
    <2> QED
      BY <2>1, <2>2, StartCleanupCourse
  <1>6. CASE HandleCleanupMetrics
    <2>1. /\ clean' = [clean EXCEPT !["admin"].pc = "raw", !["admin"].at = now]
          /\ UNCHANGED <<now, ended, ts, late, up, inserted, prompt, agg, stops, faults>>
          /\ "admin" \in Cleaner /\ up /\ Calm /\ ops' = ops + 1
      BY <1>6 DEF HandleCleanupMetrics, requests, history, Cleaner
    <2>2. Troubles'
      BY <2>1, OneTrouble DEF Course
    <2> QED
      BY <2>1, <2>2, StartCleanupCourse
  <1>7. CASE \E c \in Cleaner, ok \in BOOLEAN : RunCleanup(c, ok)
    BY <1>7, RunCleanupCourse
  <1>8. CASE \E target \in Target, d \in Windows, to \in {now - 1, now} :
                 HandleAggregateMetrics(target, to - d, to)
    <2>1. /\ UNCHANGED <<now, ended, ts, late, up, inserted, prompt, agg, clean, stops, faults>>
          /\ up /\ Calm /\ ops' = ops + 1
      BY <1>8 DEF HandleAggregateMetrics, requests, tasks, history
    <2>2. Troubles'
      BY <2>1, OneTrouble DEF Course
    <2>3. /\ OnTime(agg)' /\ OnTime(clean["scheduled"])'
          /\ agg'.at <= MaxTime /\ \A c \in Cleaner : clean'[c].at <= MaxTime
      BY <2>1 DEF Course, Timely, OnTime, Bounds
    <2> QED
      BY <2>1, <2>2, <2>3, TaskCourse
  <1>9. CASE Stop
    BY <1>9, StopCourse
  <1>10. CASE Start
    BY <1>10, StartCourse
  <1>11. CASE Tick
    BY <1>11, TickCourse
  <1>12. CASE UNCHANGED vars
    <2>1. UNCHANGED <<now, ended, ts, late, up, inserted, prompt, agg, clean,
                      ops, stops, faults>>
      BY <1>12 DEF vars, requests, tasks, history
    <2> QED
      BY <2>1 DEF Course, Timely, OnTime, RowsOnTime, Bounds, Troubles
  <1> QED
    BY <1>1, <1>2, <1>3, <1>4, <1>5, <1>6, <1>7, <1>8, <1>9, <1>10, <1>11, <1>12 DEF Next

\* Counts are within what the model has room for
LEMMA CountBound ==
    ASSUME NEW R, R \subseteq Row, NEW n \in Nat, n <= Cardinality(R)
    PROVE  n \in Count
  <1>1. MaxRows \in Nat /\ IsFiniteSet(Row) /\ Cardinality(Row) = MaxRows
    BY Limits, FS_Interval DEF Row
  <1>2. Cardinality(R) <= MaxRows /\ Cardinality(R) \in Nat
    BY <1>1, FS_Subset, FS_CardinalityType
  <1> QED
    BY <1>1, <1>2 DEF Count

(* The variables have their types, a task that waits has its time ahead of *)
(* it or is late by no more than a context, and a row is written within    *)
(* the limit of its request.                                               *)
THEOREM TypeCorrect == Spec => []TypeOK
  <1>1. ASSUME Inv, Totals, Course PROVE TypeOK
    <2>1. /\ now \in Time /\ up \in BOOLEAN /\ ended \in Count
      BY <1>1, Limits DEF Inv, Types, Course, Bounds, Time, Count
    <2>2. ts \in [Row -> Time]
      <3>1. ts \in [Row -> Nat] /\ \A r \in Row : ts[r] <= MaxTime
        BY <1>1 DEF Inv, Types, Course, Bounds
      <3>2. \A r \in Row : ts[r] \in Time
        BY <3>1, Limits DEF Time
      <3> QED
        BY <3>1, <3>2
    <2>3. /\ raw \subseteq inserted /\ prompt \subseteq inserted
          /\ inserted \subseteq 1 .. ended /\ late \subseteq 1 .. ended \ inserted
      BY <1>1 DEF Inv, Types, Course, Bounds
    <2>4. \A b, size : Rows(inserted, b, size) \subseteq Row
      BY <1>1 DEF Inv, Types, Rows
    <2>5. hourly \in [Hour -> Count]
      <3>1. hourly \in [Hour -> Nat] /\ \A h \in Hour : hourly[h] \in Count
        BY <1>1, <2>4, CountBound DEF Inv, Types, HoursNeverOver
      <3> QED
        BY <3>1
    <2>6. daily \in [Day -> Count]
      <3>1. daily \in [Day -> Nat] /\ \A d \in Day : daily[d] \in Count
        BY <1>1, <2>4, CountBound DEF Totals, DaysNeverOver
      <3> QED
        BY <3>1
    <2>7. monthly \in [Month -> Count]
      <3>1. monthly \in [Month -> Nat] /\ \A m \in Month : monthly[m] \in Count
        BY <1>1, <2>4, CountBound DEF Totals, MonthsNeverOver
      <3> QED
        BY <3>1
    <2>8. agg \in Loop(Target)
      <3>1. agg.at \in Time
        BY <1>1, Limits DEF Inv, Types, Course, Bounds, Time
      <3> QED
        BY <1>1, <3>1 DEF Inv, Types, Loop
    <2>9. clean \in [Cleaner -> Loop({"raw", "hour", "day"})]
      <3>1. clean \in [Cleaner -> [pc : {"wait", "raw", "hour", "day"}, at : Nat,
                                   due : Nat, first : BOOLEAN]]
        BY <1>1 DEF Inv, Types
      <3>2. \A c \in Cleaner : clean[c].at <= MaxTime
        BY <1>1 DEF Course, Bounds
      <3>3. \A c \in Cleaner : clean[c] \in Loop({"raw", "hour", "day"})
        BY <3>1, <3>2, Limits DEF Loop, Time
      <3> QED
        BY <3>1, <3>3
    <2>10. {ops, stops, faults} \subseteq 0 .. MaxTroubles
      BY <1>1, Limits DEF Course, Troubles
    <2>11. up => /\ agg.due >= now - MaxLag
                 /\ clean["scheduled"].due >= now - MaxLag
                 /\ \A r \in late : now - ts[r] \in 0 .. MaxLag
      <3> SUFFICES ASSUME up
                   PROVE  /\ agg.due >= now - MaxLag
                          /\ clean["scheduled"].due >= now - MaxLag
                          /\ \A r \in late : now - ts[r] \in 0 .. MaxLag
        OBVIOUS
      <3>1. /\ now \in Nat /\ agg.due \in Nat /\ clean["scheduled"].due \in Nat
            /\ \A r \in late : ts[r] \in Nat
        BY <1>1 DEF Inv, Types, Cleaner
      <3>2. OnTime(agg) /\ OnTime(clean["scheduled"]) /\ RowsOnTime
        BY <1>1 DEF Course, Timely
      <3>3. agg.due >= now - MaxLag /\ clean["scheduled"].due >= now - MaxLag
        BY <3>1, <3>2, Limits DEF OnTime
      <3> QED
        BY <3>1, <3>2, <3>3, Limits DEF RowsOnTime
    <2> QED
      BY <2>1, <2>2, <2>3, <2>5, <2>6, <2>7, <2>8, <2>9, <2>10, <2>11 DEF TypeOK
  <1>2. Spec => []Course
    <2>1. Inv /\ Course /\ [Next]_vars => Course'
      BY StepCourse
    <2> QED
      BY <2>1, Invariance, InitCourse, PTL DEF Spec
  <1> QED
    BY <1>1, <1>2, TotalsHold, PTL
\* Hours of instants and of buckets

LEMMA HourOrder ==
    ASSUME NEW t \in Nat, NEW u \in Nat
    PROVE  /\ u <= t => HourOf(u) <= HourOf(t)
           /\ u < t + HourLen => HourOf(u) <= HourOf(t) + 1
           /\ HourOf(t + HourLen) = HourOf(t) + 1
  <1> DEFINE h == HourOf(t)
             g == HourOf(u)
  <1>1. /\ h \in Nat /\ h * HourLen <= t /\ t < h * HourLen + HourLen
        /\ g \in Nat /\ g * HourLen <= u /\ u < g * HourLen + HourLen
        /\ HourLen \in Nat \ {0}
    BY Lengths, Division DEF HourOf
  <1> HIDE DEF h, g
  <1>2. /\ h * HourLen \in Nat /\ g * HourLen \in Nat
        /\ (h + 1) * HourLen = h * HourLen + HourLen
    BY <1>1, SMT
  <1>3. u <= t => g <= h
    <2>1. u <= t => g * HourLen < h * HourLen + HourLen
      BY <1>1, <1>2
    <2> QED
      BY <1>1, <2>1, LessByProduct
  <1>4. u < t + HourLen => g <= h + 1
    <2>1. u < t + HourLen => g * HourLen < (h + 1) * HourLen + HourLen
      BY <1>1, <1>2
    <2> QED
      BY <1>1, <2>1, LessByProduct
  <1>5. HourOf(t + HourLen) = h + 1
    <2>1. /\ t + HourLen \in Nat /\ h + 1 \in Int
          /\ (h + 1) * HourLen <= t + HourLen
          /\ t + HourLen < (h + 1) * HourLen + HourLen
      BY <1>1, <1>2
    <2>2. (t + HourLen) \div HourLen = h + 1
      BY <1>1, <2>1, DivisionUnique
    <2> QED
      BY <2>2 DEF HourOf
  <1> QED
    BY <1>3, <1>4, <1>5 DEF h, g

LEMMA ProductOrder ==
    ASSUME NEW a \in Int, NEW b \in Int, NEW k \in Nat, a <= b
    PROVE  a * k \in Int /\ b * k \in Int /\ a * k <= b * k
  <1>1. PICK n \in Nat : b = a + n
    <2>1. b - a \in Nat /\ b = a + (b - a)
      OBVIOUS
    <2> QED
      BY <2>1
  <1>2. b * k = a * k + n * k /\ n * k \in Nat /\ a * k \in Int
    BY <1>1, SMT
  <1> QED
    BY <1>2

\* The last part of bucket b, of n parts
Last(b, n) == (b + 1) * n - 1

LEMMA WithinBucket ==
    ASSUME NEW n \in Nat \ {0}, NEW unit \in Nat \ {0}, NEW size, size = n * unit,
           NEW t \in Nat
    PROVE  t \div unit <= Last(t \div size, n) /\ (t \div size) * n <= t \div unit
  <1> DEFINE b == t \div size
             h == t \div unit
  <1>1. size \in Nat \ {0}
    BY SMT
  <1>2. /\ b \in Nat /\ b * size <= t /\ t < b * size + size
        /\ h \in Nat /\ h * unit <= t /\ t < h * unit + unit
    BY <1>1, Division
  <1> HIDE DEF b, h
  <1>3. /\ b * size = (b * n) * unit /\ b * n \in Nat
        /\ ((b + 1) * n - 1) * unit = (b * n) * unit + n * unit - unit
        /\ (b + 1) * n - 1 \in Int
    BY <1>2, SMT
  <1>4. (b * n) * unit \in Nat /\ h * unit \in Nat /\ n * unit \in Nat
    BY <1>2, <1>3, SMT
  <1>5. h * unit < ((b + 1) * n - 1) * unit + unit
    BY <1>2, <1>3, <1>4
  <1>6. (b * n) * unit < h * unit + unit
    BY <1>2, <1>3, <1>4
  <1>7. h <= (b + 1) * n - 1 /\ b * n <= h
    BY <1>2, <1>3, <1>5, <1>6, LessByProduct
  <1> QED
    BY <1>7 DEF Last, b, h
---------------------------------------------------------------------------
\* What buckets owe once their time is over

(* The rows that are promised: all, or after a failure those inserted in   *)
(* time.  Two runs after its last hour a bucket with promised rows is      *)
(* there, and without a failure one with rows inserted in time after one.  *)
Certain == IF faults = 0 THEN inserted ELSE prompt

Found(count, rows, b, size) == Body(rows, b, size) # {} => count > 0

Reaches(count, b, size, last, run) ==
    /\ last + 2 <= run => Found(count, Certain, b, size)
    /\ faults = 0 /\ last + 1 <= run => Found(count, prompt, b, size)

LEMMA BodyOfParts ==
    ASSUME Types, NEW R, R \subseteq inserted, NEW unit \in Nat \ {0},
           NEW per \in Nat \ {0}, NEW size, size = per * unit, NEW b,
           NEW r \in Body(R, b, size)
    PROVE  \E s \in Part(b, per) : r \in Body(R, s, unit)
  <1> DEFINE t == ts[r]
             s == t \div unit
  <1>1. t \in Nat /\ t \div size = b /\ r \in R /\ t % HourLen >= MaxLag
    BY DEF Types, Body, Rows
  <1>2. r \in Body(R, s, unit)
    BY <1>1 DEF Body, Rows
  <1>3. size \in Nat \ {0}
    BY SMT
  <1> HIDE DEF t
  <1>4. s \in Nat /\ b \in Nat /\ s <= Last(b, per) /\ b * per <= s
    BY <1>1, <1>3, WithinBucket, Division
  <1> HIDE DEF s
  <1>5. (b + 1) * per = b * per + per /\ b * per \in Nat
    BY <1>4, SMT
  <1>6. s \in Part(b, per)
    BY <1>4, <1>5 DEF Last, Part
  <1> QED
    BY <1>2, <1>6

\* All parts of bucket b that have rows of R have a bucket
PartsReach(table, b, per, unit, R) ==
    \A s \in Part(b, per) : table[s] \in Nat /\ Found(table[s], R, s, unit)

\* A statement that makes the bucket that was over last of its parts
LEMMA MadeBucket ==
    ASSUME Types, prompt \subseteq inserted,
           NEW unit \in Nat \ {0}, NEW per \in Nat \ {0}, NEW size, size = per * unit,
           NEW D \in SUBSET Nat, NEW dst \in [D -> Nat], NEW src,
           NEW b \in D, NEW from, from = b * size, NEW to, to = (b + 1) * size,
           NEW new, new \in Aggregated(dst, src, unit, per, from, to),
           NEW R, R \subseteq inserted, PartsReach(src, b, per, unit, R)
    PROVE  Found(new[b], R, b, size)
  <1> DEFINE S == Part(b, per)
             W == Sources(b, unit, per, from, to)
  <1>1. W = S
    <2>1. ASSUME NEW s \in S PROVE b * size <= s * unit /\ s * unit < (b + 1) * size
      <3>1. b * per \in Nat /\ s \in Nat /\ b * per <= s /\ s <= (b * per + per) - 1
        BY DEF Part
      <3>2. /\ (b * per) * unit = b * size
            /\ ((b * per + per) - 1) * unit = (b + 1) * size - unit
            /\ (b + 1) * size \in Int
        BY SMT
      <3>3. /\ (b * per) * unit <= s * unit /\ s * unit \in Int
            /\ s * unit <= ((b * per + per) - 1) * unit
        BY <3>1, ProductOrder
      <3> QED
        BY <3>2, <3>3
    <2> QED
      BY <2>1 DEF Sources
  <1>2. \/ \E s \in W : src[s] # 0 /\ new[b] = src[s]
        \/ (\A s \in W : src[s] = 0) /\ new[b] = dst[b]
    BY AggregatedOne
  <1>3. SUFFICES ASSUME NEW r \in Body(R, b, size) PROVE new[b] > 0
    BY DEF Found
  <1>4. PICK s \in S : r \in Body(R, s, unit)
    BY BodyOfParts
  <1>5. \A p \in S : src[p] \in Nat
    BY DEF PartsReach
  <1>6. src[s] > 0
    BY <1>4 DEF PartsReach, Found
  <1> HIDE DEF S, W
  <1>7. \E p \in S : src[p] # 0 /\ new[b] = src[p]
    BY <1>1, <1>2, <1>5, <1>6
  <1> QED
    BY <1>5, <1>7
---------------------------------------------------------------------------
\* What a step may do to the rows that are promised

(* A row arrives within an hour of its time, and counts as inserted in     *)
(* time only if that is the hour it is.                                    *)
RowsArrive ==
    /\ inserted \subseteq inserted' /\ prompt' \subseteq inserted'
    /\ \A r \in inserted : ts'[r] = ts[r]
    /\ \A r \in inserted' \ inserted : HourOf(ts'[r]) >= HourOf(now) - 1
    /\ \A r \in prompt' \ prompt : HourOf(ts'[r]) >= HourOf(now)
    /\ faults' = 0 => faults = 0

LEMMA RowsArriveHolds ==
    ASSUME Inv, Course, Course', [Next]_vars
    PROVE  RowsArrive
  <1>1. inserted \subseteq inserted' /\ \A r \in inserted : ts'[r] = ts[r]
    BY TablesStep
  <1>2. prompt' \subseteq inserted'
    BY DEF Course, Bounds
  <1>3. ASSUME UNCHANGED history PROVE inserted' \ inserted = {} /\ prompt' \ prompt = {}
    BY <1>3 DEF history
  <1>4. faults \in Nat
    BY DEF Inv, Types
  <1>5. CASE \E r \in late, ok \in BOOLEAN : InsertMetrics(r, ok)
    <2>1. PICK r \in late, ok \in BOOLEAN : InsertMetrics(r, ok)
      BY <1>5
    <2>2. /\ up /\ ts' = ts
          /\ inserted' \ inserted \subseteq {r}
          /\ prompt' \ prompt \subseteq {r}
          /\ prompt' # prompt => HourOf(ts[r]) = HourOf(now)
          /\ faults' = faults \/ faults' = faults + 1
      BY <2>1 DEF InsertMetrics, history, Works, Fails
    <2>3. ts[r] \in Nat /\ now \in Nat /\ HourOf(ts[r]) \in Nat /\ HourOf(now) \in Nat
      BY DivMod DEF Inv, Types
    <2>4. now <= ts[r] + MaxLag
      BY <2>2 DEF Course, Timely, RowsOnTime
    <2>5. HourOf(now) <= HourOf(ts[r]) + 1
      <3>1. now < ts[r] + HourLen
        BY <2>3, <2>4, Limits
      <3> QED
        BY <2>3, <3>1, HourOrder
    <2> QED
      BY <1>1, <1>2, <1>4, <2>2, <2>3, <2>5 DEF RowsArrive
  <1>6. CASE \E ok \in BOOLEAN : RunAggregation(ok)
    <2>1. UNCHANGED history /\ (faults' = faults \/ faults' = faults + 1)
      BY <1>6 DEF RunAggregation, Works, Fails
    <2> QED
      BY <1>1, <1>2, <1>3, <1>4, <2>1 DEF RowsArrive
  <1>7. CASE \E c \in Cleaner, ok \in BOOLEAN : RunCleanup(c, ok)
    <2>1. UNCHANGED history /\ (faults' = faults \/ faults' = faults + 1)
      BY <1>7 DEF RunCleanup, Works, Fails
    <2> QED
      BY <1>1, <1>2, <1>3, <1>4, <2>1 DEF RowsArrive
  <1>8. CASE \/ EndAttempt \/ StartAggregation \/ StartCleanup \/ HandleCleanupMetrics
             \/ \E target \in Target, d \in Windows, to \in {now - 1, now} :
                    HandleAggregateMetrics(target, to - d, to)
             \/ Stop \/ Start \/ Tick \/ UNCHANGED vars
    <2>1. UNCHANGED history /\ faults' = faults
      BY <1>8 DEF EndAttempt, StartAggregation, StartCleanup, HandleCleanupMetrics,
                  HandleAggregateMetrics, Stop, Start, Tick, vars, history
    <2> QED
      BY <1>1, <1>2, <1>3, <2>1 DEF RowsArrive
  <1> QED
    BY <1>5, <1>6, <1>7, <1>8 DEF Next

\* A row that arrives is not of a bucket that the last run should have had
LEMMA RowsKept ==
    ASSUME Types, Types', prompt \subseteq inserted, RowsArrive,
           NEW n \in Nat \ {0}, NEW size, size = n * HourLen, NEW b \in Nat,
           NEW run \in Int, run <= HourOf(now), NEW count \in Nat,
           Reaches(count, b, size, Last(b, n), run)
    PROVE  Reaches(count, b, size, Last(b, n), run)'
  <1> DEFINE last == Last(b, n)
             old == Body(Certain, b, size)
             new == {r \in Certain' : ts'[r] \div size = b /\ ts'[r] % HourLen >= MaxLag}
             oldPrompt == Body(prompt, b, size)
             newPrompt == {r \in prompt' : ts'[r] \div size = b
                                           /\ ts'[r] % HourLen >= MaxLag}
  <1>1. last \in Int /\ HourOf(now) \in Nat
    BY DivMod, SMT DEF Last, Types
  <1>2. ASSUME NEW r \in inserted', ts'[r] \div size = b
        PROVE  HourOf(ts'[r]) \in Nat /\ HourOf(ts'[r]) <= last
    <2>1. ts'[r] \in Nat
      BY DEF Types
    <2>2. HourOf(ts'[r]) \in Nat
      BY <2>1, DivMod
    <2>3. PICK t \in Nat : t = ts'[r]
      BY <2>1
    <2>4. t \div HourLen <= Last(t \div size, n)
      BY <2>3, Lengths, WithinBucket
    <2> QED
      BY <1>2, <2>2, <2>3, <2>4 DEF HourOf
  <1>3. last + 2 <= run => new \subseteq old
    <2> SUFFICES ASSUME last + 2 <= run, NEW r \in new PROVE r \in old
      OBVIOUS
    <2>1. r \in Certain' /\ r \in inserted' /\ ts'[r] \div size = b
          /\ ts'[r] % HourLen >= MaxLag
      BY DEF RowsArrive, Certain
    <2>2. HourOf(ts'[r]) \in Nat /\ HourOf(ts'[r]) <= last
      BY <1>2, <2>1
    <2>3. r \in inserted /\ (r \in prompt' => r \in prompt)
      BY <1>1, <2>1, <2>2 DEF RowsArrive
    <2>4. r \in Certain /\ ts'[r] = ts[r]
      BY <2>1, <2>3 DEF RowsArrive, Certain
    <2> QED
      BY <2>1, <2>4 DEF Body, Rows
  <1>4. last + 1 <= run => newPrompt \subseteq oldPrompt
    <2> SUFFICES ASSUME last + 1 <= run, NEW r \in newPrompt PROVE r \in oldPrompt
      OBVIOUS
    <2>1. r \in prompt' /\ r \in inserted' /\ ts'[r] \div size = b
          /\ ts'[r] % HourLen >= MaxLag
      BY DEF RowsArrive
    <2>2. HourOf(ts'[r]) \in Nat /\ HourOf(ts'[r]) <= last
      BY <1>2, <2>1
    <2>3. r \in prompt
      BY <1>1, <2>1, <2>2 DEF RowsArrive
    <2>4. ts'[r] = ts[r]
      BY <2>3 DEF RowsArrive
    <2> QED
      BY <2>1, <2>3, <2>4 DEF Body, Rows
  <1>6. Body(Certain, b, size)' = new /\ Body(prompt, b, size)' = newPrompt
    BY DEF Body, Rows
  <1>7. faults' = 0 => faults = 0
    BY DEF RowsArrive
  <1>8. /\ last + 2 <= run /\ old # {} => count > 0
        /\ faults = 0 /\ last + 1 <= run /\ oldPrompt # {} => count > 0
    BY DEF Reaches, Found
  <1> HIDE DEF last, old, new, oldPrompt, newPrompt
  <1>9. last + 2 <= run /\ new # {} => count > 0
    BY <1>3, <1>8
  <1>10. faults' = 0 /\ last + 1 <= run /\ newPrompt # {} => count > 0
    BY <1>4, <1>7, <1>8
  <1>11. Last(b, n)' = last
    BY DEF Last, last
  <1> QED
    BY <1>6, <1>9, <1>10, <1>11 DEF Reaches, Found, last

(* Without the statement that failed a bucket is a run behind, and what    *)
(* was inserted in time is what that run had.                              *)
LEMMA FailedRun ==
    ASSUME UNCHANGED <<inserted, prompt, ts>>, faults = 0, faults' = 1,
           NEW count, NEW b, NEW size, NEW last \in Int, NEW run \in Int,
           Reaches(count, b, size, last, run)
    PROVE  Reaches(count, b, size, last, run + 1)'
  <1>1. Body(Certain, b, size)' = Body(prompt, b, size)
    BY DEF Body, Rows, Certain
  <1>2. last + 2 <= run + 1 => last + 1 <= run
    OBVIOUS
  <1> QED
    BY <1>1, <1>2 DEF Reaches, Found

PartsCount(table, b, per) == \A s \in Part(b, per) : table[s] \in Nat
PartsHave(table, b, per, unit, n, run) ==
    \A s \in Part(b, per) : Reaches(table[s], s, unit, Last(s, n), run)

\* A bucket of m hours is of per buckets of n hours
Nested(n, unit, per, size, m) ==
    /\ n \in Nat \ {0} /\ unit = n * HourLen
    /\ per \in Nat \ {0} /\ size = per * unit
    /\ m = per * n /\ m >= 2

LastOver(b, size, t) == b = t \div size - 1
MakesLastOver(new, dst, src, unit, per, size, t) ==
    new \in Aggregated(dst, src, unit, per, (t \div size - 1) * size, (t \div size) * size)

(* A statement over buckets that succeeds: the bucket that is over         *)
(* since the last boundary gets what its parts have, an older one had it   *)
(* all a run ago, and a younger one owes nothing yet.                      *)
LEMMA HandsOn ==
    ASSUME Types, prompt \subseteq inserted,
           NEW n, NEW unit, NEW per, NEW size, NEW m, Nested(n, unit, per, size, m),
           NEW D, D \subseteq Nat, NEW dst, dst \in [D -> Nat], NEW src,
           NEW t, t \in Nat, NEW k, k = HourOf(t), NEW before \in Int, before + 1 = k,
           NEW new, MakesLastOver(new, dst, src, unit, per, size, t),
           NEW b, b \in D, PartsCount(src, b, per),
           NEW old, old = dst[b], Reaches(old, b, size, Last(b, m), before),
           LastOver(b, size, t) => PartsHave(src, b, per, unit, n, k)
    PROVE  Reaches(new[b], b, size, Last(b, m), k)
  <1> DEFINE last == Last(b, m)
             q == t \div size
             from == (q - 1) * size
             to == q * size
  <1>0. /\ n \in Nat \ {0} /\ unit = n * HourLen
        /\ per \in Nat \ {0} /\ size = per * unit /\ m = per * n /\ m >= 2
        /\ new \in Aggregated(dst, src, unit, per, from, to) /\ before = k - 1
        /\ k \in Nat
        /\ D \in SUBSET Nat /\ dst \in [D -> Nat] /\ b \in D
    <2>1. k \in Nat
      BY DivMod
    <2> QED
      BY <2>1 DEF Nested, MakesLastOver
  <1> USE <1>0
  <1>1. unit \in Nat \ {0} /\ m \in Nat \ {0}
    BY Lengths, SMT
  <1>2. size \in Nat \ {0} /\ size = m * HourLen
    <2>1. size = per * (n * HourLen) /\ per \in Nat /\ n \in Nat /\ HourLen \in Nat
      BY Lengths
    <2> QED
      BY <1>1, <2>1, SMT
  <1>3. /\ q \in Nat /\ k \in Nat /\ q * m <= k /\ k <= (q + 1) * m - 1
    <2>1. t \div HourLen <= Last(t \div size, m) /\ (t \div size) * m <= t \div HourLen
      BY <1>1, <1>2, Lengths, WithinBucket
    <2>2. q \in Nat /\ k \in Nat
      BY <1>2, Division, DivMod
    <2> QED
      BY <2>1, <2>2 DEF Last, HourOf
  <1>4. b \in Nat /\ last = (b + 1) * m - 1 /\ (b + 1) * m \in Int /\ last \in Int
    BY <1>1, SMT DEF Last
  <1> HIDE DEF last, q
  <1>5. CASE b >= q
    <2>1. (q + 1) * m <= (b + 1) * m /\ (q + 1) * m \in Int
      BY <1>1, <1>3, <1>4, <1>5, ProductOrder
    <2>2. ~(last + 1 <= k) /\ ~(last + 2 <= k)
      BY <1>3, <1>4, <2>1
    <2> QED
      BY <2>2 DEF Reaches, last
  <1>6. CASE b <= q - 2
    <2>1. last + 2 <= k - 1
      <3>1. (b + 2) * m <= q * m /\ (b + 2) * m \in Int /\ q * m \in Int
        <4>1. b + 2 \in Int /\ q \in Int /\ m \in Nat /\ b + 2 <= q
          BY <1>1, <1>3, <1>4, <1>6
        <4> QED
          BY ONLY <4>1, ProductOrder
      <3>2. (b + 2) * m = (b + 1) * m + m
        BY <1>1, <1>4, SMT
      <3> QED
        BY <1>1, <1>3, <1>4, <3>1, <3>2
    <2>2. /\ Found(dst[b], Certain, b, size)
          /\ faults = 0 => Found(dst[b], prompt, b, size)
      <3>1. Reaches(dst[b], b, size, last, k - 1)
        BY DEF last
      <3>2. last + 1 <= k - 1
        BY <1>3, <1>4, <2>1
      <3> QED
        BY <2>1, <3>1, <3>2 DEF Reaches
    <2>4. new[b] = dst[b]
      <3> DEFINE W == Sources(b, unit, per, from, to)
      <3>1. W = {}
        <4>1. ASSUME NEW s \in Part(b, per) PROVE s * unit < (q - 1) * size
          <5>1. b * per \in Nat /\ s \in Nat /\ s <= b * per + per - 1
            BY <1>4 DEF Part
          <5>2. s * unit <= (b * per + per - 1) * unit /\ s * unit \in Int
            <6>1. s \in Int /\ b * per + per - 1 \in Int /\ unit \in Nat
              BY <1>1, <5>1
            <6> QED
              BY ONLY <5>1, <6>1, ProductOrder
          <5>3. (b * per + per - 1) * unit = (b + 1) * size - unit
            BY <1>1, <1>4, SMT
          <5>4. (b + 1) * size <= (q - 1) * size /\ (b + 1) * size \in Int
                /\ (q - 1) * size \in Int
            BY <1>2, <1>3, <1>4, <1>6, ProductOrder
          <5> QED
            BY <1>1, <5>2, <5>3, <5>4
        <4>2. ASSUME NEW s \in Part(b, per)
              PROVE  s * unit \in Int /\ (q - 1) * size \in Int
          BY <1>1, <1>2, <1>3, <1>4, SMT DEF Part
        <4> QED
          BY <4>1, <4>2 DEF Sources
      <3>2. (\E s \in W : new[b] = src[s]) \/ new[b] = dst[b]
        BY AggregatedOne
      <3> HIDE DEF W
      <3> QED
        BY <3>1, <3>2
    <2> QED
      BY <2>2, <2>4 DEF Reaches
  <1>7. CASE b = q - 1
    <2>1. \A s \in Part(b, per) : Reaches(src[s], s, unit, Last(s, n), k)
      BY <1>7 DEF PartsHave, LastOver, q
    <2>2. ASSUME NEW s \in Part(b, per) PROVE Last(s, n) \in Int /\ Last(s, n) <= last
      <3>1. b * per \in Nat /\ s \in Nat /\ s + 1 <= b * per + per
        BY <1>4 DEF Part
      <3>2. (s + 1) * n <= (b * per + per) * n /\ (s + 1) * n \in Int
        BY <3>1, ProductOrder
      <3>3. (b * per + per) * n = (b + 1) * m
        BY <1>4, SMT
      <3> QED
        BY <1>4, <3>2, <3>3 DEF Last
    <2>3. from = b * size /\ to = (b + 1) * size
      <3>1. b + 1 = q
        BY <1>3, <1>7
      <3> QED
        BY <1>7, <3>1
    <2>4. ASSUME NEW R, R \subseteq inserted, PartsReach(src, b, per, unit, R)
          PROVE  Found(new[b], R, b, size)
      BY <1>1, <2>3, <2>4, MadeBucket
    <2>5. last + 2 <= k => Found(new[b], Certain, b, size)
      <3> SUFFICES ASSUME last + 2 <= k PROVE Found(new[b], Certain, b, size)
        OBVIOUS
      <3>1. PartsReach(src, b, per, unit, Certain)
        BY <1>3, <1>4, <2>1, <2>2 DEF Reaches, PartsReach, PartsCount
      <3> QED
        BY <2>4, <3>1 DEF Certain
    <2>6. faults = 0 /\ last + 1 <= k => Found(new[b], prompt, b, size)
      <3> SUFFICES ASSUME faults = 0, last + 1 <= k PROVE Found(new[b], prompt, b, size)
        OBVIOUS
      <3>1. PartsReach(src, b, per, unit, prompt)
        BY <1>3, <1>4, <2>1, <2>2 DEF Reaches, PartsReach, PartsCount
      <3> QED
        BY <2>4, <3>1
    <2>7. Reaches(new[b], b, size, last, k)
      BY <2>5, <2>6 DEF Reaches
    <2> QED
      BY <2>7 DEF last
  <1>8. b >= q \/ b <= q - 2 \/ b = q - 1
    <2>1. b \in Nat /\ q \in Nat
      BY <1>3, <1>4
    <2> QED
      BY ONLY <2>1
  <1> QED
    BY <1>5, <1>6, <1>7, <1>8
---------------------------------------------------------------------------
\* What the tables have after a run

HoursPerMonth == DaysPerMonth * HoursPerDay

HoursHave(table, run) ==
    \A h \in Hour : h * HourLen >= now - HourKeep =>
        Reaches(table[h], h, HourLen, Last(h, 1), run)
DaysHave(table, run) ==
    \A d \in Day : d * DayLen >= now - DayKeep =>
        Reaches(table[d], d, DayLen, Last(d, HoursPerDay), run)
MonthsHave(table, run) ==
    \A m \in Month : Reaches(table[m], m, MonthLen, Last(m, HoursPerMonth), run)

LEMMA Sizes ==
    /\ HoursPerMonth \in Nat \ {0} /\ HoursPerMonth >= 2
    /\ HourLen = 1 * HourLen /\ DayLen = HoursPerDay * HourLen
    /\ MonthLen = HoursPerMonth * HourLen
  <1>1. HourLen \in Nat /\ HoursPerDay \in Nat \ {0} /\ DaysPerMonth \in Nat \ {0}
    BY Lengths
  <1>2. HoursPerDay >= 2
    BY ConfigAssumption
  <1>3. MonthLen = DaysPerMonth * (HoursPerDay * HourLen)
    BY DEF MonthLen, DayLen
  <1>4. HoursPerMonth \in Nat \ {0} /\ MonthLen = HoursPerMonth * HourLen
    BY <1>1, <1>3, SMT DEF HoursPerMonth
  <1>5. HoursPerMonth >= 2
    <2>1. 1 <= DaysPerMonth /\ HoursPerDay \in Nat /\ DaysPerMonth \in Int
      BY <1>1
    <2>2. 1 * HoursPerDay <= HoursPerMonth /\ 1 * HoursPerDay = HoursPerDay
      BY <1>1, <2>1, ProductOrder DEF HoursPerMonth
    <2> QED
      BY <1>1, <1>2, <1>4, <2>2
  <1> QED
    BY <1>1, <1>4, <1>5 DEF DayLen

LEMMA HaveKept ==
    ASSUME Types, Types', prompt \subseteq inserted, RowsArrive, now' >= now,
           NEW run \in Int, run <= HourOf(now), NEW table
    PROVE  /\ table \in [Hour -> Nat] /\ HoursHave(table, run) => HoursHave(table, run)'
           /\ table \in [Day -> Nat] /\ DaysHave(table, run) => DaysHave(table, run)'
           /\ table \in [Month -> Nat] /\ MonthsHave(table, run) => MonthsHave(table, run)'
  <1>1. now \in Nat /\ now' \in Nat /\ HourKeep \in Nat /\ DayKeep \in Nat
    BY ConfigAssumption DEF Types
  <1>2. ASSUME table \in [Hour -> Nat], HoursHave(table, run)
        PROVE  HoursHave(table, run)'
    <2>1. ASSUME NEW h \in Hour, h * HourLen >= now' - HourKeep
          PROVE  Reaches(table[h], h, HourLen, Last(h, 1), run)'
      <3>1. h \in Nat /\ table[h] \in Nat
        BY <1>2 DEF Hour
      <3>2. h * HourLen >= now - HourKeep
        <4>1. h * HourLen \in Int
          BY <3>1, Lengths
        <4> QED
          BY <1>1, <2>1, <4>1
      <3>3. PICK count \in Nat : count = table[h]
        BY <3>1
      <3>4. Reaches(count, h, HourLen, Last(h, 1), run)
        BY <1>2, <3>2, <3>3 DEF HoursHave
      <3>5. Reaches(count, h, HourLen, Last(h, 1), run)'
        BY <3>1, <3>4, Sizes, RowsKept
      <3> QED
        BY <3>3, <3>5
    <2> QED
      BY <2>1 DEF HoursHave
  <1>3. ASSUME table \in [Day -> Nat], DaysHave(table, run)
        PROVE  DaysHave(table, run)'
    <2>1. ASSUME NEW d \in Day, d * DayLen >= now' - DayKeep
          PROVE  Reaches(table[d], d, DayLen, Last(d, HoursPerDay), run)'
      <3>1. d \in Nat /\ table[d] \in Nat
        BY <1>3 DEF Day
      <3>2. d * DayLen >= now - DayKeep
        <4>1. d * DayLen \in Int
          BY <3>1, Lengths
        <4> QED
          BY <1>1, <2>1, <4>1
      <3>3. PICK count \in Nat : count = table[d]
        BY <3>1
      <3>4. Reaches(count, d, DayLen, Last(d, HoursPerDay), run)
        BY <1>3, <3>2, <3>3 DEF DaysHave
      <3>5. Reaches(count, d, DayLen, Last(d, HoursPerDay), run)'
        BY <3>1, <3>4, Lengths, Sizes, RowsKept
      <3> QED
        BY <3>3, <3>5
    <2> QED
      BY <2>1 DEF DaysHave
  <1>4. ASSUME table \in [Month -> Nat], MonthsHave(table, run)
        PROVE  MonthsHave(table, run)'
    <2>1. ASSUME NEW m \in Month
          PROVE  Reaches(table[m], m, MonthLen, Last(m, HoursPerMonth), run)'
      <3>1. m \in Nat /\ table[m] \in Nat
        BY <1>4 DEF Month
      <3>3. PICK count \in Nat : count = table[m]
        BY <3>1
      <3>4. Reaches(count, m, MonthLen, Last(m, HoursPerMonth), run)
        BY <1>4, <3>3 DEF MonthsHave
      <3>5. Reaches(count, m, MonthLen, Last(m, HoursPerMonth), run)'
        BY <3>1, <3>4, Sizes, RowsKept
      <3> QED
        BY <3>3, <3>5
    <2> QED
      BY <2>1 DEF MonthsHave
  <1> QED
    BY <1>2, <1>3, <1>4

LEMMA FailedHave ==
    ASSUME UNCHANGED <<now, inserted, prompt, ts>>, faults = 0, faults' = 1,
           NEW run \in Int, NEW table
    PROVE  /\ HoursHave(table, run) => HoursHave(table, run + 1)'
           /\ DaysHave(table, run) => DaysHave(table, run + 1)'
           /\ MonthsHave(table, run) => MonthsHave(table, run + 1)'
  <1>1. ASSUME NEW b \in Nat, NEW n \in Nat PROVE Last(b, n) \in Int
    BY DEF Last
  <1>2. ASSUME HoursHave(table, run) PROVE HoursHave(table, run + 1)'
    <2>1. ASSUME NEW h \in Hour, h * HourLen >= now' - HourKeep
          PROVE  Reaches(table[h], h, HourLen, Last(h, 1), run + 1)'
      <3>1. Reaches(table[h], h, HourLen, Last(h, 1), run)
        BY <1>2, <2>1 DEF HoursHave
      <3>2. h \in Nat /\ Last(h, 1) \in Int
        BY <1>1 DEF Hour
      <3>3. PICK last \in Int : last = Last(h, 1)
        BY <3>2
      <3>4. Reaches(table[h], h, HourLen, last, run + 1)'
        BY <3>1, <3>3, FailedRun
      <3> QED
        BY <3>3, <3>4
    <2> QED
      BY <2>1 DEF HoursHave
  <1>3. ASSUME DaysHave(table, run) PROVE DaysHave(table, run + 1)'
    <2>1. ASSUME NEW d \in Day, d * DayLen >= now' - DayKeep
          PROVE  Reaches(table[d], d, DayLen, Last(d, HoursPerDay), run + 1)'
      <3>1. Reaches(table[d], d, DayLen, Last(d, HoursPerDay), run)
        BY <1>3, <2>1 DEF DaysHave
      <3>2. d \in Nat /\ Last(d, HoursPerDay) \in Int
        BY <1>1, Lengths DEF Day
      <3>3. PICK last \in Int : last = Last(d, HoursPerDay)
        BY <3>2
      <3>4. Reaches(table[d], d, DayLen, last, run + 1)'
        BY <3>1, <3>3, FailedRun
      <3> QED
        BY <3>3, <3>4
    <2> QED
      BY <2>1 DEF DaysHave
  <1>4. ASSUME MonthsHave(table, run) PROVE MonthsHave(table, run + 1)'
    <2>1. ASSUME NEW m \in Month
          PROVE  Reaches(table[m], m, MonthLen, Last(m, HoursPerMonth), run + 1)'
      <3>1. Reaches(table[m], m, MonthLen, Last(m, HoursPerMonth), run)
        BY <1>4 DEF MonthsHave
      <3>2. m \in Nat /\ Last(m, HoursPerMonth) \in Int
        BY <1>1, Sizes DEF Month
      <3>3. PICK last \in Int : last = Last(m, HoursPerMonth)
        BY <3>2
      <3>4. Reaches(table[m], m, MonthLen, last, run + 1)'
        BY <3>1, <3>3, FailedRun
      <3> QED
        BY <3>3, <3>4
    <2> QED
      BY <2>1 DEF MonthsHave
  <1> QED
    BY <1>2, <1>3, <1>4
---------------------------------------------------------------------------
\* The three statements of a run

LEMMA RunWindow ==
    ASSUME Inv, RunAggregation(TRUE)
    PROVE  /\ agg.pc # "wait" /\ agg.at \in Nat /\ agg.at <= now /\ now <= agg.at + MaxLag
           /\ UNCHANGED <<now, ts, inserted, prompt, faults>>
           /\ agg.pc = "hour" => /\ hourly' = Counted(agg.at - 2 * HourLen, agg.at)
                                 /\ UNCHANGED <<daily, monthly>>
           /\ agg.pc = "day" => /\ daily' \in Aggregated(daily, hourly, HourLen, HoursPerDay,
                                       (DayOf(agg.at) - 1) * DayLen, DayOf(agg.at) * DayLen)
                                /\ UNCHANGED <<hourly, monthly>>
           /\ agg.pc = "month" => /\ monthly' \in Aggregated(monthly, daily, DayLen, DaysPerMonth,
                                         (MonthOf(agg.at) - 1) * MonthLen,
                                         MonthOf(agg.at) * MonthLen)
                                  /\ UNCHANGED <<hourly, daily>>
  <1>1. /\ agg.pc # "wait" /\ up /\ UNCHANGED <<now, ts, inserted, prompt, faults>>
        /\ AggregateMetrics(agg.pc, Window(agg.pc, agg.at)[1], Window(agg.pc, agg.at)[2])
    BY DEF RunAggregation, Works, requests, history
  <1>2. agg.pc = "hour" => /\ hourly' = Counted(agg.at - 2 * HourLen, agg.at)
                           /\ UNCHANGED <<daily, monthly>>
    BY <1>1 DEF AggregateMetrics, Window, LastTwoHours
  <1>3. agg.pc = "day" => /\ daily' \in Aggregated(daily, hourly, HourLen, HoursPerDay,
                                 (DayOf(agg.at) - 1) * DayLen, DayOf(agg.at) * DayLen)
                          /\ UNCHANGED <<hourly, monthly>>
    BY <1>1 DEF AggregateMetrics, Window, Yesterday
  <1>4. agg.pc = "month" => /\ monthly' \in Aggregated(monthly, daily, DayLen, DaysPerMonth,
                                   (MonthOf(agg.at) - 1) * MonthLen,
                                   MonthOf(agg.at) * MonthLen)
                            /\ UNCHANGED <<hourly, daily>>
    BY <1>1 DEF AggregateMetrics, Window, LastMonth
  <1>5. agg.at \in Nat /\ agg.at <= now /\ now <= agg.at + MaxLag
    BY <1>1 DEF Inv, Types, OnSchedule
  <1> QED
    BY <1>1, <1>2, <1>3, <1>4, <1>5

LEMMA HourStatement ==
    ASSUME Inv, prompt \subseteq inserted, RunAggregation(TRUE), agg.pc = "hour",
           NEW k, k = HourOf(agg.at), HoursHave(hourly, k - 1),
           NEW hours, hours = hourly'
    PROVE  HoursHave(hours, k)
  <1>1. /\ agg.at \in Nat /\ k \in Nat /\ HourLen \in Nat \ {0}
        /\ k * HourLen <= agg.at /\ agg.at < k * HourLen + HourLen
    BY RunWindow, Lengths, Division DEF HourOf
  <1>2. hours = Counted(agg.at - 2 * HourLen, agg.at)
    BY RunWindow
  <1>3. Types /\ Certain \subseteq inserted /\ hourly \in [Hour -> Nat]
    BY DEF Inv, Types, Certain
  <1>4. ASSUME NEW h \in Hour, h * HourLen >= now - HourKeep
        PROVE  Reaches(hours[h], h, HourLen, Last(h, 1), k)
    <2>1. h \in Nat /\ Last(h, 1) = h
      BY DEF Hour, Last
    <2>2. CASE h >= k
      BY <1>1, <2>1, <2>2 DEF Reaches
    <2>3. CASE h = k - 1 \/ h = k - 2
      <3>1. hours[h] >= Cardinality(Body(inserted, h, HourLen))
        BY <2>3, HourlyStep
      <3>2. hours[h] \in Nat
        BY <1>2, <1>3, CountedHour
      <3>3. ASSUME NEW Q, Q \subseteq inserted
            PROVE  Found(hours[h], Q, h, HourLen)
        <4> SUFFICES ASSUME Body(Q, h, HourLen) # {} PROVE hours[h] > 0
          BY DEF Found
        <4>1. Body(inserted, h, HourLen) # {} /\ Body(inserted, h, HourLen) \in SUBSET Row
          BY <1>3, <3>3 DEF Body, Rows, Types
        <4>2. IsFiniteSet(Body(inserted, h, HourLen))
          BY <4>1, RowsFinite
        <4>3. /\ Cardinality(Body(inserted, h, HourLen)) \in Nat
              /\ Cardinality(Body(inserted, h, HourLen)) # 0
          BY <4>1, <4>2, FS_EmptySet, FS_CardinalityType
        <4> QED
          BY <3>1, <3>2, <4>3
      <3> QED
        BY <1>3, <3>3 DEF Reaches
    <2>4. CASE h <= k - 3
      <3> DEFINE S == {r \in Rows(raw, h, HourLen) :
                           agg.at - 2 * HourLen <= ts[r] /\ ts[r] < agg.at}
      <3>1. S = {}
        <4> SUFFICES ASSUME NEW r \in S PROVE FALSE
          OBVIOUS
        <4>1. ts[r] \in Nat /\ HourOf(ts[r]) = h /\ agg.at - 2 * HourLen <= ts[r]
          BY <1>3 DEF Types, Rows, HourOf
        <4>2. ts[r] < h * HourLen + HourLen /\ h * HourLen \in Int
          <5>1. PICK t \in Nat : t = ts[r]
            BY <4>1
          <5>2. t \div HourLen = h
            BY <4>1, <5>1 DEF HourOf
          <5>3. t < (t \div HourLen) * HourLen + HourLen
            BY Lengths, Division
          <5> QED
            BY <2>1, <5>1, <5>2, <5>3, Lengths
        <4>3. h * HourLen <= (k - 3) * HourLen
          BY <1>1, <2>1, <2>4, ProductOrder
        <4>4. (k - 3) * HourLen = k * HourLen - 3 * HourLen /\ k * HourLen \in Int
          BY <1>1, SMT
        <4> QED
          BY <1>1, <4>1, <4>2, <4>3, <4>4
      <3>2. hours[h] = Replaced(hourly[h], Cardinality(S))
        BY <1>2, <1>3, CountedHour
      <3> HIDE DEF S
      <3>3. hours[h] = hourly[h]
        BY <3>1, <3>2, FS_EmptySet DEF Replaced
      <3>4. Reaches(hours[h], h, HourLen, Last(h, 1), k - 1)
        BY <1>4, <3>3 DEF HoursHave
      <3>5. Found(hours[h], Certain, h, HourLen)
        BY <1>1, <2>1, <2>4, <3>4 DEF Reaches
      <3>6. faults = 0 => Found(hours[h], prompt, h, HourLen)
        BY <1>1, <2>1, <2>4, <3>4 DEF Reaches
      <3> QED
        BY <3>5, <3>6 DEF Reaches
    <2> QED
      BY <1>1, <2>1, <2>2, <2>3, <2>4
  <1> QED
    BY <1>4 DEF HoursHave

\* The parts of the bucket before this one are still kept
LEMMA PartsKept ==
    ASSUME NEW unit \in Nat \ {0}, NEW per \in Nat \ {0}, NEW size, size = per * unit,
           NEW t \in Nat, NEW s \in Part(t \div size - 1, per)
    PROVE  s * unit \in Int /\ s * unit > t - 2 * size
  <1> DEFINE q == t \div size
  <1>1. size \in Nat \ {0}
    BY SMT
  <1>2. q \in Nat /\ t < q * size + size
    BY <1>1, Division
  <1> HIDE DEF q
  <1>3. (q - 1) * per \in Int /\ s \in Int /\ (q - 1) * per <= s
    BY <1>2, SMT DEF Part, q
  <1>4. /\ ((q - 1) * per) * unit <= s * unit /\ s * unit \in Int
        /\ ((q - 1) * per) * unit \in Int
    BY <1>3, ProductOrder
  <1>5. ((q - 1) * per) * unit = q * size - size /\ q * size \in Int
    BY <1>2, SMT
  <1> QED
    BY <1>1, <1>2, <1>4, <1>5

LEMMA DayStatement ==
    ASSUME Inv, Totals, prompt \subseteq inserted, RunAggregation(TRUE), agg.pc = "day",
           NEW k, k = HourOf(agg.at), HoursHave(hourly, k), DaysHave(daily, k - 1),
           NEW days, days = daily'
    PROVE  DaysHave(days, k)
  <1> DEFINE q == DayOf(agg.at)
  <1>1. PICK t \in Nat : t = agg.at /\ t <= now /\ now <= t + MaxLag
    BY RunWindow
  <1>2. /\ q = t \div DayLen /\ k = HourOf(t)
        /\ days \in Aggregated(daily, hourly, HourLen, HoursPerDay, (q - 1) * DayLen, q * DayLen)
    BY <1>1, RunWindow DEF DayOf
  <1>3. /\ Types /\ Day \in SUBSET Nat /\ daily \in [Day -> Nat]
        /\ 1 \in Nat \ {0} /\ HoursPerDay = HoursPerDay * 1 /\ HoursPerDay >= 2
    BY ConfigAssumption DEF Inv, Totals, Day
  <1> HIDE DEF q
  <1>4. ASSUME NEW d \in Day, d * DayLen >= now - DayKeep
        PROVE  Reaches(days[d], d, DayLen, Last(d, HoursPerDay), k)
    <2>1. \A h \in Part(d, HoursPerDay) : h \in Hour /\ hourly[h] \in Nat
      BY Parts DEF Inv, Types
    <2>2. Reaches(daily[d], d, DayLen, Last(d, HoursPerDay), k - 1)
      BY <1>4 DEF DaysHave
    <2>3. ASSUME d = q - 1, NEW h \in Part(d, HoursPerDay)
          PROVE  Reaches(hourly[h], h, HourLen, Last(h, 1), k)
      <3>1. h * HourLen \in Int /\ h * HourLen > t - 2 * DayLen
        BY <1>2, <2>3, Lengths, Sizes, PartsKept
      <3>2. h * HourLen >= now - HourKeep
        <4>1. HourKeep \in Nat /\ HourKeep >= 2 * DayLen + MaxLag /\ now \in Nat
          BY ConfigAssumption DEF Inv, Types
        <4> QED
          BY <1>1, <3>1, <4>1, Limits
      <3> QED
        BY <2>1, <3>2 DEF HoursHave
    <2>4. PartsCount(hourly, d, HoursPerDay)
      BY <2>1 DEF PartsCount
    <2>5. LastOver(d, DayLen, t) => PartsHave(hourly, d, HoursPerDay, HourLen, 1, k)
      BY <1>2, <2>3 DEF PartsHave, LastOver
    <2>6. MakesLastOver(days, daily, hourly, HourLen, HoursPerDay, DayLen, t)
      BY <1>2 DEF MakesLastOver
    <2>7. PICK before \in Int : before + 1 = k /\ before = k - 1
      <3>1. k \in Nat
        BY <1>2, DivMod
      <3> QED
        BY <3>1
    <2>8. PICK old : old = daily[d] /\ Reaches(old, d, DayLen, Last(d, HoursPerDay), before)
      BY <2>2, <2>7
    <2>9. Nested(1, HourLen, HoursPerDay, DayLen, HoursPerDay) /\ d \in Day /\ k = HourOf(t)
          /\ Day \subseteq Nat /\ prompt \subseteq inserted /\ t \in Nat
      BY <1>2, <1>3, Lengths, Sizes DEF Nested
    <2>10. Types /\ daily \in [Day -> Nat]
      BY <1>3
    <2>11. before + 1 = k
      BY <2>7
    <2> QED
      BY ONLY <2>4, <2>5, <2>6, <2>8, <2>9, <2>10, <2>11, HandsOn
  <1> QED
    BY <1>4 DEF DaysHave

LEMMA MonthStatement ==
    ASSUME Inv, Totals, prompt \subseteq inserted, RunAggregation(TRUE), agg.pc = "month",
           NEW k, k = HourOf(agg.at), DaysHave(daily, k), MonthsHave(monthly, k - 1),
           NEW months, months = monthly'
    PROVE  MonthsHave(months, k)
  <1> DEFINE q == MonthOf(agg.at)
  <1>1. PICK t \in Nat : t = agg.at /\ t <= now /\ now <= t + MaxLag
    BY RunWindow
  <1>2. /\ q = t \div MonthLen /\ k = HourOf(t)
        /\ months \in Aggregated(monthly, daily, DayLen, DaysPerMonth,
                               (q - 1) * MonthLen, q * MonthLen)
    BY <1>1, RunWindow DEF MonthOf
  <1>3. /\ Types /\ Month \in SUBSET Nat /\ monthly \in [Month -> Nat]
        /\ HoursPerMonth = DaysPerMonth * HoursPerDay /\ MonthLen = DaysPerMonth * DayLen
    BY DEF Inv, Totals, Month, HoursPerMonth, MonthLen
  <1> HIDE DEF q
  <1>4. ASSUME NEW m \in Month
        PROVE  Reaches(months[m], m, MonthLen, Last(m, HoursPerMonth), k)
    <2>1. \A d \in Part(m, DaysPerMonth) : d \in Day /\ daily[d] \in Nat
      BY Parts DEF Totals
    <2>2. Reaches(monthly[m], m, MonthLen, Last(m, HoursPerMonth), k - 1)
      BY DEF MonthsHave
    <2>3. ASSUME m = q - 1, NEW d \in Part(m, DaysPerMonth)
          PROVE  Reaches(daily[d], d, DayLen, Last(d, HoursPerDay), k)
      <3>1. d * DayLen \in Int /\ d * DayLen > t - 2 * MonthLen
        BY <1>2, <1>3, <2>3, Lengths, PartsKept
      <3>2. d * DayLen >= now - DayKeep
        <4>1. DayKeep \in Nat /\ DayKeep >= 2 * MonthLen + MaxLag /\ now \in Nat
          BY ConfigAssumption DEF Inv, Types
        <4> QED
          BY <1>1, <3>1, <4>1, Limits, Lengths
      <3> QED
        BY <2>1, <3>2 DEF DaysHave
    <2>4. PartsCount(daily, m, DaysPerMonth)
      BY <2>1 DEF PartsCount
    <2>5. LastOver(m, MonthLen, t) => PartsHave(daily, m, DaysPerMonth, DayLen, HoursPerDay, k)
      BY <1>2, <2>3 DEF PartsHave, LastOver
    <2>6. MakesLastOver(months, monthly, daily, DayLen, DaysPerMonth, MonthLen, t)
      BY <1>2 DEF MakesLastOver
    <2>7. PICK before \in Int : before + 1 = k /\ before = k - 1
      <3>1. k \in Nat
        BY <1>2, DivMod
      <3> QED
        BY <3>1
    <2>8. PICK old : /\ old = monthly[m]
                     /\ Reaches(old, m, MonthLen, Last(m, HoursPerMonth), before)
      BY <2>2, <2>7
    <2>9. /\ Nested(HoursPerDay, DayLen, DaysPerMonth, MonthLen, HoursPerMonth)
          /\ m \in Month /\ k = HourOf(t)
          /\ Month \subseteq Nat /\ prompt \subseteq inserted /\ t \in Nat
      BY <1>2, <1>3, Lengths, Sizes DEF Nested
    <2>10. Types /\ monthly \in [Month -> Nat]
      BY <1>3
    <2>11. before + 1 = k
      BY <2>7
    <2> QED
      BY ONLY <2>4, <2>5, <2>6, <2>8, <2>9, <2>10, <2>11, HandsOn
  <1> QED
    BY <1>4 DEF MonthsHave
---------------------------------------------------------------------------
\* From run to run

Undisturbed == stops = 0 /\ ops = 0 /\ faults <= 1

\* The hour of the last run whose statement, one that is over at pcs, was run
LastRun(pcs) == IF agg.pc \in pcs THEN HourOf(agg.due) ELSE HourOf(agg.due) - 1

Rolled(hours, days, months) ==
    /\ HoursHave(hours, LastRun({"day", "month"}))
    /\ DaysHave(days, LastRun({"month"}))
    /\ MonthsHave(months, LastRun({}))

(* The inductive invariant of BucketsAppear: every table has what the last *)
(* run of its statement owes it, and the next run is within an hour.       *)
RolledUp ==
    Undisturbed => /\ up /\ agg.due <= now + HourLen
                   /\ Rolled(hourly, daily, monthly)

LEMMA NextRun ==
    ASSUME Inv, Course, up, agg.pc = "month", AggregationOver
    PROVE  /\ agg'.pc = "wait" /\ agg'.due \in Nat /\ agg'.due <= now + HourLen
           /\ HourOf(agg'.due) = HourOf(agg.due) + 1
  <1>1. /\ now \in Nat /\ agg.due \in Nat /\ agg.due <= now /\ now <= agg.due + MaxLag
        /\ OffHour(agg.due) <= MaxLag /\ agg.first => OffHour(agg.due) = 0
    BY DEF Inv, Types, OnSchedule, Course, Timely, OnTime
  <1>2. agg'.pc = "wait" /\ agg'.due = IF agg.first THEN now + HourLen ELSE agg.due + HourLen
    BY DEF AggregationOver, Waiting
  <1>3. agg'.due \in Nat /\ agg'.due <= now + HourLen
    BY <1>1, <1>2, Limits
  <1>4. CASE agg.first
    <2>1. OffHour(agg.due) = 0
      BY <1>4, <1>1 DEF Inv, OnSchedule
    <2>2. HourOf(now) = HourOf(agg.due)
      <3>1. PICK t \in Nat : t = agg.due
        BY <1>1
      <3>2. t = HourOf(t) * HourLen /\ HourOf(t) \in Nat /\ HourOf(t) * HourLen \in Nat
        <4>1. OffHour(t) = 0 /\ t = HourOf(t) * HourLen + OffHour(t) /\ HourOf(t) \in Nat
          BY <2>1, <3>1, DivMod
        <4>2. HourOf(t) * HourLen \in Nat
          BY <4>1, Lengths
        <4> QED
          BY <4>1, <4>2
      <3>3. HourOf(t) * HourLen <= now /\ now < HourOf(t) * HourLen + HourLen
        BY <1>1, <3>1, <3>2, Limits
      <3>4. now \div HourLen = HourOf(t)
        <4>1. HourOf(t) \in Int
          BY <3>2
        <4> QED
          BY <1>1, <3>3, <4>1, Lengths, DivisionUnique
      <3> QED
        BY <3>1, <3>4 DEF HourOf
    <2>3. HourOf(now + HourLen) = HourOf(now) + 1
      BY <1>1, HourOrder
    <2> QED
      BY <1>2, <1>3, <1>4, <2>2, <2>3
  <1>5. CASE ~agg.first
    <2>1. HourOf(agg.due + HourLen) = HourOf(agg.due) + 1
      BY <1>1, HourOrder
    <2> QED
      BY <1>2, <1>3, <1>5, <2>1
  <1> QED
    BY <1>2, <1>3, <1>4, <1>5

\* No run is ahead of the clock
LEMMA RunsBehind ==
    ASSUME Inv, agg.due <= now + HourLen
    PROVE  /\ HourOf(agg.due) \in Nat /\ HourOf(now) \in Nat
           /\ HourOf(agg.due) - 1 <= HourOf(now)
           /\ agg.pc # "wait" => HourOf(agg.due) <= HourOf(now) /\ agg.at = agg.due
  <1>1. now \in Nat /\ agg.due \in Nat /\ HourOf(now) \in Nat /\ HourOf(agg.due) \in Nat
    BY DivMod DEF Inv, Types
  <1>2. HourOf(now + HourLen) = HourOf(now) + 1
    BY <1>1, HourOrder
  <1>3. HourOf(agg.due) <= HourOf(now + HourLen)
    <2>1. now + HourLen \in Nat
      BY <1>1, Limits
    <2> QED
      BY <1>1, <2>1, HourOrder
  <1>4. agg.pc # "wait" => HourOf(agg.due) <= HourOf(now) /\ agg.at = agg.due
    <2>1. agg.pc # "wait" => agg.due <= now /\ agg.at = agg.due
      BY DEF Inv, OnSchedule
    <2> QED
      BY <1>1, <2>1, HourOrder
  <1> QED
    BY <1>1, <1>2, <1>3, <1>4

\* Time and rows take nothing away from what the tables have
LEMMA TablesKept ==
    ASSUME Inv, Inv', Totals', prompt \subseteq inserted, RowsArrive, now' >= now,
           NEW h \in Int, h <= HourOf(now), NEW d \in Int, d <= HourOf(now),
           NEW m \in Int, m <= HourOf(now),
           NEW hours, hours = hourly', NEW days, days = daily', NEW months, months = monthly',
           HoursHave(hours, h) \/ HoursHave(hours, h)',
           DaysHave(days, d) \/ DaysHave(days, d)',
           MonthsHave(months, m) \/ MonthsHave(months, m)'
    PROVE  HoursHave(hourly, h)' /\ DaysHave(daily, d)' /\ MonthsHave(monthly, m)'
  <1>1. Types /\ Types' /\ hours \in [Hour -> Nat]
        /\ days \in [Day -> Nat] /\ months \in [Month -> Nat]
    BY DEF Inv, Types, Totals
  <1>2. HoursHave(hours, h)' /\ DaysHave(days, d)' /\ MonthsHave(months, m)'
    BY <1>1, HaveKept
  <1> QED
    BY <1>2 DEF HoursHave, DaysHave, MonthsHave

LEMMA RolledUpInit == Init => RolledUp
  <1> SUFFICES ASSUME Init PROVE RolledUp
    OBVIOUS
  <1>1. /\ now = 0 /\ up = TRUE /\ inserted = {} /\ prompt = {} /\ faults = 0
        /\ agg.pc = "wait" /\ agg.due = (HourOf(0) + 1) * HourLen
        /\ \A h \in Hour : hourly[h] = 0
        /\ \A d \in Day : daily[d] = 0
        /\ \A m \in Month : monthly[m] = 0
    BY DEF Init, Waiting, NextAggregate, None
  <1>2. agg.due <= now + HourLen
    <2>1. 0 \div HourLen = 0
      <3>1. 0 \in Nat /\ 0 \in Int /\ 0 * HourLen <= 0 /\ 0 < 0 * HourLen + HourLen
        BY Lengths
      <3> QED
        BY <3>1, Lengths, DivisionUnique
    <2> QED
      BY <1>1, <2>1, Lengths DEF HourOf
  <1>3. ASSUME NEW b, NEW size, NEW last, NEW run PROVE Reaches(0, b, size, last, run)
    <2>1. Certain = {} /\ Body({}, b, size) = {}
      BY <1>1 DEF Certain, Body, Rows
    <2> QED
      BY <1>1, <2>1 DEF Reaches, Found
  <1>4. Rolled(hourly, daily, monthly)
    BY <1>1, <1>3 DEF Rolled, HoursHave, DaysHave, MonthsHave
  <1> QED
    BY <1>1, <1>2, <1>4 DEF RolledUp

\* A step that leaves the tables, or deletes what is not kept
LEMMA QuietRolledUp ==
    ASSUME Inv, Inv', Totals', prompt \subseteq inserted, RowsArrive, now' >= now,
           RolledUp, Undisturbed, UNCHANGED up,
           LastRun({"day", "month"})' = LastRun({"day", "month"}),
           LastRun({"month"})' = LastRun({"month"}), LastRun({})' = LastRun({}),
           agg'.due = agg.due,
           \/ UNCHANGED <<hourly, daily, monthly>>
           \/ \E table, at : at <= now /\ at \in Nat /\ CleanupMetrics(table, at)
    PROVE  RolledUp'
  <1>1. PICK h, d, m : /\ h = LastRun({"day", "month"}) /\ d = LastRun({"month"})
                       /\ m = LastRun({})
    OBVIOUS
  <1>2. PICK hours, days, months : hours = hourly' /\ days = daily' /\ months = monthly'
    OBVIOUS
  <1>3. /\ HoursHave(hourly, h) /\ DaysHave(daily, d) /\ MonthsHave(monthly, m)
        /\ up /\ agg.due <= now + HourLen
    BY <1>1 DEF RolledUp, Rolled
  <1>4. /\ h \in Int /\ d \in Int /\ m \in Int
        /\ h <= HourOf(now) /\ d <= HourOf(now) /\ m <= HourOf(now)
    BY <1>1, <1>3, RunsBehind DEF LastRun
  <1>5. now \in Nat /\ HourKeep \in Nat /\ DayKeep \in Nat
    BY ConfigAssumption DEF Inv, Types
  <1>6. HoursHave(hours, h) /\ DaysHave(days, d) /\ MonthsHave(months, m)
    <2>1. CASE UNCHANGED <<hourly, daily, monthly>>
      BY <1>2, <1>3, <2>1
    <2>2. CASE \E table, at : at <= now /\ at \in Nat /\ CleanupMetrics(table, at)
      <3>1. PICK table, at : at <= now /\ at \in Nat /\ CleanupMetrics(table, at)
        BY <2>2
      <3>2. months = monthly
        BY <1>2, <3>1 DEF CleanupMetrics
      <3>3. ASSUME NEW i \in Hour, i * HourLen >= now - HourKeep
            PROVE  hours[i] = hourly[i]
        <4>1. hourly \in [Hour -> Nat] /\ i \in Nat
          BY DEF Inv, Types, Hour
        <4>2. i * HourLen \in Int
          BY <4>1, Lengths
        <4>3. ~(i * HourLen < at - HourKeep)
          BY <1>5, <3>1, <3>3, <4>2
        <4> QED
          BY <1>2, <3>1, <4>1, <4>3 DEF CleanupMetrics, Kept
      <3>4. ASSUME NEW i \in Day, i * DayLen >= now - DayKeep
            PROVE  days[i] = daily[i]
        <4>1. i \in Nat
          BY DEF Day
        <4>2. i * DayLen \in Int
          BY <4>1, Lengths
        <4>3. ~(i * DayLen < at - DayKeep)
          BY <1>5, <3>1, <3>4, <4>2
        <4>4. daily' = daily \/ daily' = Kept(daily, DayLen, at - DayKeep)
          BY <3>1 DEF CleanupMetrics
        <4>5. i \in DOMAIN daily \/ daily' = daily
          <5>1. daily' \in [Day -> Nat]
            BY DEF Totals
          <5>2. daily' = Kept(daily, DayLen, at - DayKeep) => DOMAIN daily' = DOMAIN daily
            BY DEF Kept
          <5> QED
            BY <4>4, <5>1, <5>2
        <4> QED
          BY <1>2, <4>3, <4>4, <4>5 DEF Kept
      <3>5. HoursHave(hours, h)
        BY <1>3, <3>3 DEF HoursHave
      <3>6. DaysHave(days, d)
        BY <1>3, <3>4 DEF DaysHave
      <3> QED
        BY <1>3, <3>2, <3>5, <3>6
    <2> QED
      BY <2>1, <2>2
  <1>7. HoursHave(hourly, h)' /\ DaysHave(daily, d)' /\ MonthsHave(monthly, m)'
    BY <1>2, <1>4, <1>6, TablesKept
  <1>8. h = LastRun({"day", "month"})' /\ d = LastRun({"month"})' /\ m = LastRun({})'
    BY <1>1
  <1>9. Rolled(hourly, daily, monthly)'
    BY <1>7, <1>8 DEF Rolled
  <1>10. agg'.due <= now' + HourLen
    <2>1. agg.due \in Nat /\ now' \in Nat
      BY DEF Inv, Types
    <2> QED
      BY <1>3, <1>5, <2>1, Limits
  <1> QED
    BY <1>3, <1>9, <1>10 DEF RolledUp

\* A statement that succeeds, or the only one that fails
LEMMA RunRolledUp ==
    ASSUME Inv, Inv', Totals, Totals', Course, RowsArrive, RolledUp, Undisturbed, Undisturbed',
           NEW ok \in BOOLEAN, RunAggregation(ok)
    PROVE  RolledUp'
  <1>0. PICK k : k = HourOf(agg.due)
    OBVIOUS
  <1>1. PICK hours, days, months : hours = hourly' /\ days = daily' /\ months = monthly'
    OBVIOUS
  <1>2. /\ agg.pc \in {"hour", "day", "month"} /\ up /\ agg.due <= now + HourLen
        /\ prompt \subseteq inserted /\ UNCHANGED <<now, up, inserted, prompt, ts>>
        /\ Rolled(hourly, daily, monthly)
    BY DEF RunAggregation, RolledUp, Course, Bounds, Inv, Types, Target, requests, history
  <1>3. k \in Nat /\ k <= HourOf(now) /\ HourOf(now) \in Nat /\ k = HourOf(agg.at)
    BY <1>0, <1>2, RunsBehind
  <1>4. /\ HoursHave(hourly, IF agg.pc = "hour" THEN k - 1 ELSE k)
        /\ DaysHave(daily, IF agg.pc = "month" THEN k ELSE k - 1)
        /\ MonthsHave(monthly, k - 1)
    BY <1>0, <1>2 DEF Rolled, LastRun
  <1>5. /\ agg.pc = "hour" => agg'.pc = "day" /\ agg'.due = agg.due
        /\ agg.pc = "day" => agg'.pc = "month" /\ agg'.due = agg.due
        /\ agg.pc = "month" => /\ agg'.pc = "wait"
                               /\ HourOf(agg'.due) = k + 1
        /\ agg'.due <= now + HourLen
    <2>1. agg.pc = "month" => AggregationOver
      BY DEF RunAggregation
    <2>2. /\ agg.pc = "hour" => agg' = [agg EXCEPT !.pc = "day"]
          /\ agg.pc = "day" => agg' = [agg EXCEPT !.pc = "month"]
      BY DEF RunAggregation
    <2>3. /\ agg.pc = "hour" => agg'.pc = "day" /\ agg'.due = agg.due
          /\ agg.pc = "day" => agg'.pc = "month" /\ agg'.due = agg.due
      BY <2>2 DEF Inv, Types
    <2> QED
      BY <1>0, <1>2, <2>1, <2>3, NextRun
  <1>6. ~ok => /\ UNCHANGED <<hourly, daily, monthly>> /\ faults = 0 /\ faults' = 1
    <2>1. ~ok => UNCHANGED <<hourly, daily, monthly>> /\ faults' = faults + 1
      BY DEF RunAggregation, Fails, tables
    <2> QED
      BY <2>1 DEF Undisturbed, Inv, Types
  <1>7. now' >= now
    BY <1>2 DEF Inv, Types
  <1>8. PICK before \in Int : /\ before = k - 1 /\ k = before + 1
                              /\ k \in Int /\ before <= HourOf(now)
    <2>1. k - 1 \in Int /\ k = (k - 1) + 1 /\ k - 1 <= HourOf(now) /\ k \in Int
      BY <1>3
    <2> QED
      BY <2>1
  <1>9. CASE agg.pc = "hour"
    <2>1. HoursHave(hours, k) \/ HoursHave(hours, k)'
      <3>1. CASE ok
        BY <1>1, <1>2, <1>3, <1>4, <1>9, <3>1, HourStatement
      <3>2. CASE ~ok
        <4>1. HoursHave(hours, before)
          BY <1>1, <1>4, <1>6, <1>8, <1>9, <3>2
        <4>2. HoursHave(hours, before + 1)'
          BY <1>2, <1>6, <1>8, <3>2, <4>1, FailedHave
        <4> QED
          BY <1>8, <4>2
      <3> QED
        BY <3>1, <3>2
    <2>2. UNCHANGED <<daily, monthly>>
      <3>1. ok => UNCHANGED <<daily, monthly>>
        BY <1>9, RunWindow
      <3> QED
        BY <1>6, <3>1
    <2>3. DaysHave(days, before) /\ MonthsHave(months, before)
      BY <1>1, <1>4, <1>8, <1>9, <2>2
    <2>4. HoursHave(hourly, k)' /\ DaysHave(daily, before)' /\ MonthsHave(monthly, before)'
      BY <1>1, <1>2, <1>3, <1>7, <1>8, <2>1, <2>3, TablesKept
    <2>5. /\ LastRun({"day", "month"})' = k /\ LastRun({"month"})' = before
          /\ LastRun({})' = before
      BY <1>0, <1>5, <1>8, <1>9 DEF LastRun
    <2>6. Rolled(hourly, daily, monthly)'
      BY <2>4, <2>5 DEF Rolled
    <2> QED
      BY <1>2, <1>5, <2>6 DEF RolledUp
  <1>10. CASE agg.pc = "day"
    <2>1. DaysHave(days, k) \/ DaysHave(days, k)'
      <3>1. CASE ok
        BY <1>1, <1>2, <1>3, <1>4, <1>10, <3>1, DayStatement
      <3>2. CASE ~ok
        <4>1. DaysHave(days, before)
          BY <1>1, <1>4, <1>6, <1>8, <1>10, <3>2
        <4>2. DaysHave(days, before + 1)'
          BY <1>2, <1>6, <1>8, <3>2, <4>1, FailedHave
        <4> QED
          BY <1>8, <4>2
      <3> QED
        BY <3>1, <3>2
    <2>2. UNCHANGED <<hourly, monthly>>
      <3>1. ok => UNCHANGED <<hourly, monthly>>
        BY <1>10, RunWindow
      <3> QED
        BY <1>6, <3>1
    <2>3. HoursHave(hours, k) /\ MonthsHave(months, before)
      BY <1>1, <1>4, <1>8, <1>10, <2>2
    <2>4. HoursHave(hourly, k)' /\ DaysHave(daily, k)' /\ MonthsHave(monthly, before)'
      BY <1>1, <1>2, <1>3, <1>7, <1>8, <2>1, <2>3, TablesKept
    <2>5. /\ LastRun({"day", "month"})' = k /\ LastRun({"month"})' = k
          /\ LastRun({})' = before
      BY <1>0, <1>5, <1>8, <1>10 DEF LastRun
    <2>6. Rolled(hourly, daily, monthly)'
      BY <2>4, <2>5 DEF Rolled
    <2> QED
      BY <1>2, <1>5, <2>6 DEF RolledUp
  <1>11. CASE agg.pc = "month"
    <2>1. MonthsHave(months, k) \/ MonthsHave(months, k)'
      <3>1. CASE ok
        BY <1>1, <1>2, <1>3, <1>4, <1>11, <3>1, MonthStatement
      <3>2. CASE ~ok
        <4>1. MonthsHave(months, before)
          BY <1>1, <1>4, <1>6, <1>8, <1>11, <3>2
        <4>2. MonthsHave(months, before + 1)'
          BY <1>2, <1>6, <1>8, <3>2, <4>1, FailedHave
        <4> QED
          BY <1>8, <4>2
      <3> QED
        BY <3>1, <3>2
    <2>2. UNCHANGED <<hourly, daily>>
      <3>1. ok => UNCHANGED <<hourly, daily>>
        BY <1>11, RunWindow
      <3> QED
        BY <1>6, <3>1
    <2>3. HoursHave(hours, k) /\ DaysHave(days, k)
      BY <1>1, <1>4, <1>11, <2>2
    <2>4. HoursHave(hourly, k)' /\ DaysHave(daily, k)' /\ MonthsHave(monthly, k)'
      BY <1>1, <1>2, <1>3, <1>7, <1>8, <2>1, <2>3, TablesKept
    <2>5. /\ LastRun({"day", "month"})' = k /\ LastRun({"month"})' = k
          /\ LastRun({})' = k
      BY <1>0, <1>5, <1>8, <1>11 DEF LastRun
    <2>6. Rolled(hourly, daily, monthly)'
      BY <2>4, <2>5 DEF Rolled
    <2> QED
      BY <1>2, <1>5, <2>6 DEF RolledUp
  <1> QED
    BY <1>2, <1>9, <1>10, <1>11

LEMMA RolledUpStep ==
    ASSUME Inv, Inv', Totals, Totals', Course, Course', RolledUp, [Next]_vars
    PROVE  RolledUp'
  <1> SUFFICES ASSUME Undisturbed' PROVE RolledUp'
    BY DEF RolledUp
  <1>1. RowsArrive /\ prompt \subseteq inserted
    BY RowsArriveHolds DEF Course, Bounds
  <1>2. /\ ops \in Nat /\ stops \in Nat /\ faults \in Nat
        /\ ops' = 0 /\ stops' = 0 /\ faults' <= 1
    BY DEF Undisturbed, Course, Troubles
  <1>3. ~HandleCleanupMetrics /\ ~Stop
        /\ ~\E target \in Target, d \in Windows, to \in {now - 1, now} :
                HandleAggregateMetrics(target, to - d, to)
    BY <1>2 DEF HandleCleanupMetrics, Stop, HandleAggregateMetrics
  <1>4. ops' = ops /\ stops' = stops /\ (faults' = faults \/ faults' = faults + 1)
    BY <1>3 DEF Next, vars, EndAttempt, InsertMetrics, StartAggregation, RunAggregation,
                StartCleanup, RunCleanup, Start, Tick, Works, Fails
  <1>5. Undisturbed /\ up
    BY <1>2, <1>4 DEF Undisturbed, RolledUp
  <1>6. now \in Nat
    BY DEF Inv, Types
  <1>7. CASE \E ok \in BOOLEAN : RunAggregation(ok)
    BY <1>1, <1>5, <1>7, RunRolledUp
  <1>8. CASE StartAggregation
    <2>1. /\ UNCHANGED <<now, up, hourly, daily, monthly>>
          /\ agg.pc = "wait" /\ agg' = [agg EXCEPT !.pc = "hour", !.at = now]
      BY <1>8 DEF StartAggregation, tables
    <2>2. agg'.pc = "hour" /\ agg'.due = agg.due /\ now' >= now
      BY <1>6, <2>1 DEF Inv, Types
    <2>3. /\ LastRun({"day", "month"})' = LastRun({"day", "month"})
          /\ LastRun({"month"})' = LastRun({"month"}) /\ LastRun({})' = LastRun({})
      BY <2>1, <2>2 DEF LastRun
    <2> QED
      BY <1>1, <1>5, <2>1, <2>2, <2>3, QuietRolledUp
  <1>9. ASSUME UNCHANGED <<up, agg>>, now' >= now,
               \/ UNCHANGED <<hourly, daily, monthly>>
               \/ \E table, at : at <= now /\ at \in Nat /\ CleanupMetrics(table, at)
        PROVE  RolledUp'
    <2>1. /\ LastRun({"day", "month"})' = LastRun({"day", "month"})
          /\ LastRun({"month"})' = LastRun({"month"}) /\ LastRun({})' = LastRun({})
          /\ agg'.due = agg.due
      BY <1>9 DEF LastRun
    <2> QED
      BY <1>1, <1>5, <1>9, <2>1, QuietRolledUp
  <1>10. CASE \E c \in Cleaner, ok \in BOOLEAN : RunCleanup(c, ok)
    <2>1. PICK c \in Cleaner, ok \in BOOLEAN : RunCleanup(c, ok)
      BY <1>10
    <2>2. /\ UNCHANGED <<up, agg, now>> /\ clean[c].pc # "wait"
          /\ \/ UNCHANGED <<hourly, daily, monthly>>
             \/ CleanupMetrics(clean[c].pc, clean[c].at)
      BY <2>1 DEF RunCleanup, tables
    <2>3. clean[c].at \in Nat /\ clean[c].at <= now
      BY <2>2 DEF Inv, Types, OnSchedule
    <2> QED
      BY <1>6, <1>9, <2>2, <2>3
  <1>11. CASE Tick
    <2>1. UNCHANGED <<up, agg, hourly, daily, monthly>> /\ now' >= now
      BY <1>6, <1>11 DEF Tick, tables, tasks
    <2> QED
      BY <1>9, <2>1
  <1>12. CASE \/ EndAttempt \/ \E r \in late, ok \in BOOLEAN : InsertMetrics(r, ok)
              \/ StartCleanup \/ UNCHANGED vars
    <2>1. UNCHANGED <<up, agg, hourly, daily, monthly, now>>
      BY <1>12 DEF EndAttempt, InsertMetrics, StartCleanup, vars, tables, tasks
    <2> QED
      BY <1>6, <1>9, <2>1
  <1>13. ~Start
    BY <1>5 DEF Start
  <1> QED
    BY <1>3, <1>7, <1>8, <1>10, <1>11, <1>12, <1>13 DEF Next

\* When a bucket is settled its second run is over
LEMMA SettledRuns ==
    ASSUME Inv, Course, up, NEW n \in Nat \ {0}, NEW size, size = n * HourLen, NEW b \in Nat,
           now > (b + 1) * size + 2 * HourLen + 2 * MaxLag
    PROVE  /\ Last(b, n) \in Int
           /\ Last(b, n) + 2 <= HourOf(agg.due) - 1 /\ HourOf(agg.due) \in Nat
  <1>1. /\ now \in Nat /\ agg.due \in Nat /\ agg.due >= now - MaxLag
    BY Limits DEF Inv, Types, Course, Timely, OnTime
  <1>2. PICK k \in Nat : k = HourOf(agg.due)
    BY <1>1, DivMod
  <1>3. agg.due < k * HourLen + HourLen /\ k * HourLen \in Nat
    <2>1. PICK t \in Nat : t = agg.due
      BY <1>1
    <2>2. t < (t \div HourLen) * HourLen + HourLen
      BY Lengths, Division
    <2> QED
      BY <1>2, <2>1, <2>2, Lengths DEF HourOf
  <1>4. PICK last \in Int : last = Last(b, n)
    BY DEF Last
  <1>5. (b + 1) * size = (last + 1) * HourLen
    BY <1>4, Lengths, SMT DEF Last
  <1>6. /\ (last + 3) * HourLen = (last + 1) * HourLen + 2 * HourLen
        /\ (last + 3) * HourLen \in Int /\ (last + 1) * HourLen \in Int
    BY <1>4, Lengths, SMT
  <1>7. (last + 3) * HourLen < k * HourLen + HourLen
    BY <1>1, <1>3, <1>5, <1>6, Limits
  <1>8. last + 3 <= k
    BY <1>4, <1>7, Lengths, LessByProduct
  <1> QED
    BY <1>2, <1>4, <1>8

(* As long as nobody interferes, at most one statement fails and rows are  *)
(* kept for two of the buckets they go into, a day and a month with        *)
(* requests have a bucket by the second run after they end: a row is late  *)
(* by less than an hour, so it is there for one of the two runs that count *)
(* its hour, and each table is made after the one it is made of.           *)
THEOREM BucketsAppearHolds == Spec => []BucketsAppear
  <1>1. Spec => [](Inv /\ Totals /\ Course /\ RolledUp)
    <2>1. Inv /\ Totals /\ Course /\ RolledUp /\ [Next]_vars
              => Inv' /\ Totals' /\ Course' /\ RolledUp'
      BY StepInv, TotalsStep, StepCourse, RolledUpStep
    <2> QED
      BY <2>1, InitInv, TotalsInit, InitCourse, RolledUpInit, PTL DEF Spec
  <1>2. ASSUME Inv, Course, RolledUp PROVE BucketsAppear
    <2> SUFFICES ASSUME Undisturbed PROVE BucketsAppear
      BY DEF BucketsAppear, Undisturbed
    <2> DEFINE Settled(b, size) == now > (b + 1) * size + 2 * HourLen + 2 * MaxLag
    <2>1. up /\ Rolled(hourly, daily, monthly)
      BY <1>2 DEF RolledUp
    <2>2. HourOf(agg.due) \in Nat
      BY <1>2, DivMod DEF Inv, Types
    <2>3. ASSUME NEW d \in Day, Settled(d, DayLen), d * DayLen >= now - DayKeep
          PROVE  Found(daily[d], Certain, d, DayLen)
      <3>1. Reaches(daily[d], d, DayLen, Last(d, HoursPerDay), LastRun({"month"}))
        BY <2>1, <2>3 DEF Rolled, DaysHave
      <3>2. Last(d, HoursPerDay) + 2 <= HourOf(agg.due) - 1 /\ Last(d, HoursPerDay) \in Int
        BY <1>2, <2>1, <2>3, Lengths, Sizes, SettledRuns DEF Day
      <3>3. Last(d, HoursPerDay) + 2 <= LastRun({"month"})
        BY <2>2, <3>2 DEF LastRun
      <3> QED
        BY <3>1, <3>3 DEF Reaches
    <2>4. ASSUME NEW m \in Month, Settled(m, MonthLen)
          PROVE  Found(monthly[m], Certain, m, MonthLen)
      <3>1. Reaches(monthly[m], m, MonthLen, Last(m, HoursPerMonth), LastRun({}))
        BY <2>1 DEF Rolled, MonthsHave
      <3>2. Last(m, HoursPerMonth) + 2 <= HourOf(agg.due) - 1 /\ Last(m, HoursPerMonth) \in Int
        BY <1>2, <2>1, <2>4, Sizes, SettledRuns DEF Month
      <3>3. Last(m, HoursPerMonth) + 2 <= LastRun({})
        BY <3>2 DEF LastRun
      <3> QED
        BY <3>1, <3>3 DEF Reaches
    <2> QED
      BY <2>3, <2>4 DEF BucketsAppear, Certain, Found
  <1> QED
    BY <1>1, <1>2, PTL

=============================================================================
