----------------------------- MODULE WatchMetrics -----------------------------
(****************************************************************************)
(* What the report computes from a donation: the metrics of the watch       *)
(* history, and their comparison with a reference population that can be    *)
(* narrowed to an age group and a gender.                                   *)
(*                                                                          *)
(* Times are seconds since a Monday at midnight.  A record of a list is     *)
(* [at, video, account]: at is Undated where the date could not be read,    *)
(* video is NoId where the link had none, account is the one its link       *)
(* names.  What a filter leaves of a list keeps its positions.  Means and   *)
(* shares are fractions <<numerator, denominator>>; the values of the       *)
(* reference population are hundredths.                                     *)
(****************************************************************************)
EXTENDS Integers, Sequences, FiniteSets, Functions

LOCAL INSTANCE FiniteSetsExt

CONSTANTS
    WindowStart,   \* the first moment that counts (REPORT_FIRST_DATE_TO_INCLUDE)
    Reference      \* the rows of the reference file: [gender, age, metrics, hours, weekdays]

Undated == -1
NoId == 0
Missing == -1

SessionBreak == 90
InstantSkip == 1
DayLength == 86400
HourLength == 3600
DayOf(at) == at \div DayLength
HourOf(at) == (at % DayLength) \div HourLength
WeekdayOf(day) == day % 7
Saturday == 5
AtNight(hour) == hour >= 22 \/ hour < 6
AgeThreshold == 30

ProfileMetrics ==
    <<"avg_active_hours_per_day", "avg_videos_per_session", "avg_session_length_sec",
      "weekend_activity_frac", "night_activity_frac", "peak_activity_hour",
      "frac_instant_skip", "rate_like", "frac_political_engagement">>

\* A cell of the file that cannot be read is Missing; other negative values
\* occur.
ReferenceRow ==
    [gender : STRING, age : Int, metrics : [Range(ProfileMetrics) -> Int],
     hours : [0..23 -> Int], weekdays : [0..6 -> Int]]
ASSUME ReferenceAssumption == Reference \in Seq(ReferenceRow) /\ WindowStart \in Int

LessThan(a, b) == a[1] * b[2] < b[1] * a[2]
SameAs(a, b) == a[1] * b[2] = b[1] * a[2]
InHundredths(v) == <<v, 100>>

\* How often each value of a function occurs.
CountBy(f) == [x \in Range(f) |-> Cardinality({i \in DOMAIN f : f[i] = x})]

\* The elements of S one after another; ahead holds of which pairs the first
\* comes before the second.
Ranked(S, ahead) ==
    [n \in 1..Cardinality(S) |->
        CHOOSE x \in S : Cardinality({y \in S : <<y, x>> \in ahead}) = n - 1]

\* Positions by their values, those of the same value as they were.
Before(f) ==
    {p \in (DOMAIN f) \X (DOMAIN f) :
        f[p[1]] < f[p[2]] \/ (f[p[1]] = f[p[2]] /\ p[1] < p[2])}
InOrder(f) == Ranked(DOMAIN f, Before(f))
Sorted(f) ==
    LET order == InOrder(f)
    IN [n \in DOMAIN order |-> f[order[n]]]

-----------------------------------------------------------------------------
(* The watch history.                                                       *)

InWindow(record) == record.at # Undated /\ record.at >= WindowStart
WithVideo(record) == record.video # NoId

Watches(history) == RestrictValues(history, LAMBDA r : InWindow(r) /\ WithVideo(r))
Engagements(records) == RestrictValues(records, LAMBDA r : InWindow(r) /\ WithVideo(r))

\* The times of the watches in order.
Moments(watches) == [i \in DOMAIN watches |-> watches[i].at]
Stamps(watches) == Sorted(Moments(watches))
Pairs(stamps) == 1..(Len(stamps) - 1)
Gap(stamps, i) == stamps[i + 1] - stamps[i]
Gaps(stamps, pairs) == SumFunction([i \in pairs |-> Gap(stamps, i)])

\* In-session gaps, by the day of the earlier watch: a gap of exactly the
\* break does not count here.
SecondsByDay(stamps) ==
    [d \in {DayOf(stamps[i]) : i \in 1..Len(stamps)} |->
        Gaps(stamps, {i \in Pairs(stamps) :
                          Gap(stamps, i) < SessionBreak /\ DayOf(stamps[i]) = d})]

\* Mean watch time of a weekday in seconds, over the days of it with watches.
WeekdaySeconds(stamps) ==
    LET daily == SecondsByDay(stamps)
    IN [w \in 0..6 |->
           LET days == {d \in DOMAIN daily : WeekdayOf(d) = w}
           IN <<SumFunctionOnSet(daily, days), IF days = {} THEN 1 ELSE Cardinality(days)>>]

\* Mean number of videos by hour, over the whole span of days.
HourlyMeans(stamps) ==
    LET days == {DayOf(stamps[i]) : i \in 1..Len(stamps)}
    IN [h \in 0..23 |->
           <<Cardinality({i \in 1..Len(stamps) : HourOf(stamps[i]) = h}),
             IF days = {} THEN 1 ELSE Max(days) - Min(days) + 1>>]

\* The sessions as pairs of positions: a session ends before a gap longer
\* than the break.
SplitsMistaken(stamps) == {i \in Pairs(stamps) : Gap(stamps, i) >= SessionBreak}
Splits(stamps) == {i \in Pairs(stamps) : Gap(stamps, i) > SessionBreak}
Sessions(stamps) ==
    {s \in (1..Len(stamps)) \X (1..Len(stamps)) :
        /\ s[1] <= s[2]
        /\ s[1] = 1 \/ s[1] - 1 \in Splits(stamps)
        /\ s[2] = Len(stamps) \/ s[2] \in Splits(stamps)
        /\ \A i \in s[1]..(s[2] - 1) : i \notin Splits(stamps)}
Duration(stamps, session) == stamps[session[2]] - stamps[session[1]]

InstantSkips(stamps) ==
    IF Len(stamps) < 2 THEN <<0, 1>>
    ELSE <<Cardinality({i \in Pairs(stamps) : Gap(stamps, i) < InstantSkip}), Len(stamps) - 1>>

\* The gaps behind each watch of a video, up to the break and including it.
Dwell(history) ==
    LET watches == Watches(history)
        order == InOrder(Moments(watches))
        stamps == [n \in DOMAIN order |-> watches[order[n]].at]
        close == {n \in Pairs(stamps) : Gap(stamps, n) <= SessionBreak}
    IN [v \in {watches[order[n]].video : n \in close} |->
           LET of == {n \in close : watches[order[n]].video = v}
           IN <<Gaps(stamps, of), Cardinality(of)>>]

\* The hour most videos were watched in; of several, the one met first.
PeakHour(watches) ==
    LET views == CountBy([i \in DOMAIN watches |-> HourOf(watches[i].at)])
        busiest == {i \in DOMAIN watches :
                        \A h \in DOMAIN views : views[h] <= views[HourOf(watches[i].at)]}
    IN HourOf(watches[Min(busiest)].at)

WatchMetricsOf(data) ==
    LET watches == Watches(data.watch_history)
        stamps == Stamps(watches)
        n == Len(stamps)
        sessions == Sessions(stamps)
        daily == SecondsByDay(stamps)
        share(Holds(_)) == <<Cardinality({i \in 1..n : Holds(stamps[i])}), n>>
    IN IF n = 0 THEN <<>>
       ELSE [avg_session_length_sec |->
                 <<SumFunction([s \in sessions |-> Duration(stamps, s)]), Cardinality(sessions)>>,
             avg_videos_per_session |->
                 <<SumFunction([s \in sessions |-> s[2] - s[1] + 1]), Cardinality(sessions)>>,
             avg_active_hours_per_day |->
                 <<SumFunction(daily), HourLength * Cardinality(DOMAIN daily)>>,
             weekend_activity_frac |-> share(LAMBDA at : WeekdayOf(DayOf(at)) >= Saturday),
             night_activity_frac |-> share(LAMBDA at : AtNight(HourOf(at))),
             frac_instant_skip |-> InstantSkips(stamps),
             rate_like |-> <<Len(data.liked_videos), n>>,
             peak_activity_hour |-> <<PeakHour(watches), 1>>]

\* The share of political videos among what was liked, shared, saved or
\* commented on.
EngagementMetrics(data, political) ==
    LET engaged == UNION {{<<list, i>> : i \in DOMAIN Engagements(data[list])} :
                              list \in {"liked_videos", "shared_videos", "video_bookmarks", "comments"}}
    IN IF engaged = {} THEN <<>>
       ELSE [frac_political_engagement |->
                 <<Cardinality({e \in engaged : data[e[1]][e[2]].video \in political}),
                   Cardinality(engaged)>>]

-----------------------------------------------------------------------------
(* The reference population: sets of rows of the file, by their position.   *)

\* Rows in which a metric is neither missing nor negative, and its values there.
WithValue(rows, metric) == {i \in rows : Reference[i].metrics[metric] >= 0}
ValuesOf(rows, metric) == Sorted([i \in WithValue(rows, metric) |-> Reference[i].metrics[metric]])

\* A row without any metric of the profile is not loaded.
Loaded == {i \in DOMAIN Reference : \E m \in Range(ProfileMetrics) : Reference[i].metrics[m] >= 0}

AgeGroups == {"all", "under30", "over30"}
Genders == {"any", "male", "female"}

\* Who has not given an age is in no age group.
MatchesFilter(row, age, gender) ==
    /\ gender = "any" \/ row.gender = gender
    /\ \/ age = "all"
       \/ age = "under30" /\ row.age # Missing /\ row.age < AgeThreshold
       \/ age = "over30" /\ row.age # Missing /\ row.age >= AgeThreshold
Group(age, gender) == {i \in Loaded : MatchesFilter(Reference[i], age, gender)}

\* The mean of every position of a series: a missing cell counts as zero, a
\* negative one not at all.
SeriesMean(series, positions) ==
    [p \in positions |->
        LET cell == [i \in DOMAIN series |-> IF series[i][p] = Missing THEN 0 ELSE series[i][p]]
            known == {i \in DOMAIN series : cell[i] >= 0}
        IN <<SumFunctionOnSet(cell, known), IF known = {} THEN 1 ELSE Cardinality(known)>>]
GroupHours(rows) == SeriesMean([i \in rows |-> Reference[i].hours], 0..23)
GroupWeekdays(rows) == SeriesMean([i \in rows |-> Reference[i].weekdays], 0..6)

\* Without a number in any cell there is nothing to compare with.
NumbersIn(row) ==
    {v \in {row.age} \cup Range(row.metrics) \cup Range(row.hours) \cup Range(row.weekdays) : v >= 0}
NoReference == \A i \in DOMAIN Reference : NumbersIn(Reference[i]) = {}

\* The share of a population below a value, those with that value counted half.
PercentileRank(value, population) ==
    LET n == Len(population)
        below == {i \in 1..n : LessThan(InHundredths(population[i]), value)}
        equal == {i \in 1..n : SameAs(InHundredths(population[i]), value)}
    IN <<2 * Cardinality(below) + Cardinality(equal), 2 * n>>

\* The k-th quarter of a sorted population, between two values if need be.
Quantile(population, k) ==
    LET position == k * (Len(population) - 1)
        low == position \div 4
        weight == position % 4
    IN IF weight = 0 THEN InHundredths(population[low + 1])
       ELSE <<population[low + 1] * (4 - weight) + population[low + 2] * weight, 400>>

Stats(population) ==
    LET n == Len(population)
    IN [min |-> InHundredths(population[1]), max |-> InHundredths(population[n]),
        mean |-> <<SumFunction(population), 100 * n>>,
        median |-> Quantile(population, 2),
        p25 |-> Quantile(population, 1), p75 |-> Quantile(population, 3)]

-----------------------------------------------------------------------------
(* The rows of the comparison.                                              *)

Half == <<1, 2>>

CompareWith(metric, value, population) ==
    [metric |-> metric, value |-> value,
     percentile |-> PercentileRank(value, population),
     stats |-> Stats(population), series |-> <<>>]

\* A number of hundredths as an integer, a half as the even one of the two.
Rounded(v) ==
    LET whole == v \div 100
        up == v % 100 > 50 \/ (v % 100 = 50 /\ whole % 2 = 1)
    IN IF up THEN whole + 1 ELSE whole

\* The percentile of the busiest hour is the share of those with the same one.
PeakHourShare(hour, population) ==
    <<Cardinality({i \in 1..Len(population) : Rounded(population[i]) = hour}), Len(population)>>
ComparePeak(value, population, hours, groupHours) ==
    LET same == PeakHourShare(value[1], population)
    IN [metric |-> "peak_activity_hour", value |-> value, percentile |-> same,
        stats |-> [Stats(population) EXCEPT !.mean = <<same[2] - same[1], same[2]>>],
        series |-> <<hours, groupHours>>]

\* Its figures are means, least and greatest values of the two series, which
\* are all that is kept here.
CompareWeekdays(own, group) ==
    [metric |-> "weekday_active_hours", value |-> <<0, 1>>, percentile |-> Half,
     stats |-> Stats(<<0>>), series |-> <<own, group>>]

\* A metric has the place it has in the profile, the weekdays come last.
WeekdaysPlace == Len(ProfileMetrics) + 1

Comparisons(data, political) ==
    LET stamps == Stamps(Watches(data.watch_history))
        watching == WatchMetricsOf(data)
        engaging == EngagementMetrics(data, political)
        value(m) == IF m \in DOMAIN engaging THEN engaging[m] ELSE watching[m]
        everyone == Group("all", "any")
        places == {k \in DOMAIN ProfileMetrics :
                       /\ ProfileMetrics[k] \in (DOMAIN engaging) \cup DOMAIN watching
                       /\ WithValue(DOMAIN Reference, ProfileMetrics[k]) # {}}
        compared(m) ==
            IF m = "peak_activity_hour"
            THEN ComparePeak(value(m), ValuesOf(DOMAIN Reference, m), HourlyMeans(stamps),
                             GroupHours(everyone))
            ELSE CompareWith(m, value(m), ValuesOf(DOMAIN Reference, m))
    IN IF (DOMAIN engaging) \cup DOMAIN watching = {} \/ NoReference THEN <<>>
       ELSE [k \in places \cup {WeekdaysPlace} |->
                IF k = WeekdaysPlace
                THEN CompareWeekdays(WeekdaySeconds(stamps), GroupWeekdays(everyone))
                ELSE compared(ProfileMetrics[k])]

\* The same rows against a part of the population; what the part says nothing
\* about stays as it was.
ApplyFilter(comparisons, age, gender) ==
    LET group == Group(age, gender)
        known == {m \in Range(ProfileMetrics) : WithValue(group, m) # {}}
        filtered(row) ==
            CASE row.metric = "weekday_active_hours" ->
                     CompareWeekdays(row.series[1], GroupWeekdays(group))
              [] row.metric \notin known /\ row.metric # "weekday_active_hours" -> row
              [] row.metric = "peak_activity_hour" /\ row.metric \in known ->
                     ComparePeak(row.value, ValuesOf(group, row.metric), row.series[1], GroupHours(group))
              [] OTHER -> CompareWith(row.metric, row.value, ValuesOf(group, row.metric))
    IN IF known = {} THEN comparisons
       ELSE [k \in DOMAIN comparisons |-> filtered(comparisons[k])]
=============================================================================
