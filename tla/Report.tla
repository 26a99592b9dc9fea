--------------------------------- MODULE Report ---------------------------------
(****************************************************************************)
(* A participant's report: the statistics that are computed once and kept   *)
(* as a row, by the task behind the donation or by the first visit of the   *)
(* page, and the page with its filters.  The catalogue of videos goes on    *)
(* changing; the row does not follow it.                                    *)
(****************************************************************************)
EXTENDS WatchMetrics

LOCAL INSTANCE FiniteSetsExt

CONSTANTS
    Donations,    \* the donations a participant may make, as user data
    Catalogues,   \* what the database may hold: video -> [account, monitored, views]
    PartyOf,      \* account -> party, the file of party accounts
    TopCount      \* how many videos the list of top videos holds (N_TOP_VIDEOS)

VARIABLES
    donated,      \* the donation once it is stored
    catalogue,    \* the videos known by now
    statistics,   \* the row of the report, none or one
    shown         \* what the page shows

reportVars == <<donated, catalogue, statistics, shown>>

NoParty == "Keine Partei"
NoViews == -1
EmptyData == [watch_history |-> <<>>, liked_videos |-> <<>>, shared_videos |-> <<>>,
              video_bookmarks |-> <<>>, comments |-> <<>>, followed |-> {}]

\* A donation has lists of records; of a video the views may be unknown.
Record == [at : Int, video : Nat, account : STRING]
DonationData ==
    [watch_history : Seq(Record), liked_videos : Seq(Record), shared_videos : Seq(Record),
     video_bookmarks : Seq(Record), comments : Seq(Record), followed : SUBSET STRING]
ASSUME ReportAssumption ==
    /\ Donations \subseteq DonationData /\ TopCount \in Nat
    /\ \A c \in Catalogues : \A v \in DOMAIN c : c[v].views \in Int

\* The spellings of a party that are merged, whatever their case; small parties
\* share a bucket.
Recode(party) ==
    CASE party \in {"CDU", "CSU"} -> "CDU/CSU"
      [] party \in {"Gruene", "B90"} -> "B90/GRUENE"
      [] party \in {"SPD", "CDU/CSU", "B90/GRUENE", "FDP", "AfD", "Linke", "BSW", NoParty} -> party
      [] OTHER -> "Sonstige"

-----------------------------------------------------------------------------
(* The statistics.                                                          *)

VideoIds(records) == [i \in DOMAIN Engagements(records) |-> records[i].video]

\* Parties by the account a link names, of several links the last one's.
PartiesByLink(history) ==
    LET named == {i \in DOMAIN Watches(history) : history[i].account \in DOMAIN PartyOf}
    IN [v \in {history[i].video : i \in named} |->
           LET of == {i \in named : history[i].video = v}
           IN Recode(PartyOf[history[Max(of)].account])]

\* Parties by the catalogue: accounts of parties, and videos with a monitored
\* hashtag that belong to no party.
PartiesByCatalogue(seen) ==
    LET known == seen \cap DOMAIN catalogue
        ofParty == {v \in known : catalogue[v].account \in DOMAIN PartyOf}
        others == {v \in known \ ofParty : catalogue[v].monitored}
    IN [v \in ofParty \cup others |->
           IF v \in ofParty THEN Recode(PartyOf[catalogue[v].account]) ELSE NoParty]

PoliticalVideos(history) ==
    LET byLink == PartiesByLink(history)
        byCatalogue == PartiesByCatalogue(Range(VideoIds(history)))
    IN [v \in (DOMAIN byLink) \cup DOMAIN byCatalogue |->
           IF v \in DOMAIN byLink THEN byLink[v] ELSE byCatalogue[v]]

PartyAt(parties, v) == IF v \in DOMAIN parties THEN parties[v] ELSE NoParty

PartyCounts(seen, parties) ==
    CountBy([i \in DOMAIN seen |-> PartyAt(parties, seen[i])])

\* Per day, counted from the history once more.
DailyPartyCounts(history, parties) ==
    LET kept == RestrictValues(history, LAMBDA r : WithVideo(r) /\ InWindow(r))
    IN CountBy([i \in DOMAIN kept |-> <<DayOf(kept[i].at), PartyAt(parties, kept[i].video)>>])

ViewsOf(v) == IF v \in DOMAIN catalogue THEN catalogue[v].views ELSE NoViews

\* Which of two videos comes first: by the views of the Research API, unknown
\* ones last, then by appearances, then by the first of them.
FirstOf(seen, v) == Min({i \in DOMAIN seen : seen[i] = v})
AheadInTop(seen) ==
    LET count == CountBy(seen)
    IN {p \in Range(seen) \X Range(seen) :
            LET v == p[1]
                w == p[2]
            IN \/ ViewsOf(v) > ViewsOf(w)
               \/ /\ ViewsOf(v) = ViewsOf(w)
                  /\ \/ count[v] > count[w]
                     \/ count[v] = count[w] /\ FirstOf(seen, v) < FirstOf(seen, w)}

TopVideos(data, seenPolitical, parties) ==
    LET count == CountBy(seenPolitical)
        ranked == Ranked(Range(seenPolitical), AheadInTop(seenPolitical))
        dwell == Dwell(data.watch_history)
    IN [n \in 1..Min({TopCount, Cardinality(Range(seenPolitical))}) |->
           [video |-> ranked[n], view_count |-> count[ranked[n]], total_views |-> ViewsOf(ranked[n]),
            dwell |-> IF ranked[n] \in DOMAIN dwell THEN {dwell[ranked[n]]} ELSE {},
            liked |-> ranked[n] \in Range(VideoIds(data.liked_videos))]]

Compute(data) ==
    LET seen == VideoIds(data.watch_history)
        parties == PoliticalVideos(data.watch_history)
        seenPolitical == RestrictValues(seen, LAMBDA v : v \in DOMAIN parties)
    IN [videos_seen_count_total |-> Cardinality(DOMAIN seen),
        has_watch_history |-> DOMAIN seen # {},
        seen_pol_video_ids |-> seenPolitical,
        liked_pol_video_ids |-> Range(VideoIds(data.liked_videos)) \cap DOMAIN parties,
        followed_pol_users |-> data.followed \cap DOMAIN PartyOf,
        party_counts |-> PartyCounts(seen, parties),
        daily_party_counts |-> DailyPartyCounts(data.watch_history, parties),
        top_videos |-> TopVideos(data, seenPolitical, parties),
        behaviour_comparisons |-> Comparisons(data, DOMAIN parties),
        of |-> data]

-----------------------------------------------------------------------------
(* The type of a participant.                                               *)

TypeRules ==
    <<<<"kolibri", "frac_instant_skip">>, <<"luchs", "frac_political_engagement">>,
      <<"eule", "night_activity_frac">>, <<"waschbaer", "weekend_activity_frac">>,
      <<"papagei", "rate_like">>>>

RowsFor(comparisons, metric) ==
    {comparisons[k] : k \in {j \in DOMAIN comparisons : comparisons[j].metric = metric}}

\* How far a percentile is past the median, if it is.
Above(p) == IF LessThan(Half, p) THEN {<<2 * p[1] - p[2], 2 * p[2]>>} ELSE {}
Below(p) == IF LessThan(p, Half) THEN {<<p[2] - 2 * p[1], 2 * p[2]>>} ELSE {}

FaultierScore(comparisons) ==
    LET long == UNION {Above(r.percentile) : r \in RowsFor(comparisons, "avg_session_length_sec")}
        few == UNION {Below(r.percentile) : r \in RowsFor(comparisons, "frac_instant_skip")}
    IN {a \in long : \E b \in few : ~LessThan(b, a)} \cup {b \in few : \E a \in long : LessThan(b, a)}

\* The first of the rules with the greatest score; the sloth must beat it.
StrongestType(comparisons) ==
    LET score(i) == UNION {Above(r.percentile) : r \in RowsFor(comparisons, TypeRules[i][2])}
        past == {i \in 1..Len(TypeRules) : score(i) # {}}
        ahead(i, j) == \E a \in score(i), b \in score(j) :
                           LessThan(b, a) \/ (SameAs(a, b) /\ i < j)
        best == {i \in past : \A j \in past \ {i} : ahead(i, j)}
    IN IF \E f \in FaultierScore(comparisons) : \A i \in best : \E a \in score(i) : LessThan(a, f)
       THEN {"faultier"} ELSE {TypeRules[i][1] : i \in best}

Clamp(f) == IF f[1] > f[2] THEN <<1, 1>> ELSE f
ValueIn(comparisons, metric) ==
    IF RowsFor(comparisons, metric) = {} THEN <<0, 1>>
    ELSE (CHOOSE r \in RowsFor(comparisons, metric) : TRUE).value

\* Without anything past a median, the metrics themselves decide.
AbsoluteType(comparisons) ==
    LET value(m) == Clamp(ValueIn(comparisons, m))
        session == LET v == ValueIn(comparisons, "avg_session_length_sec")
                   IN Clamp(<<v[1], v[2] * 300>>)
        skip == value("frac_instant_skip")
        calm == <<session[1] * skip[2] + (skip[2] - skip[1]) * session[2],
                  2 * session[2] * skip[2]>>
        scores == <<<<"kolibri", skip>>, <<"faultier", calm>>,
                    <<"luchs", value("frac_political_engagement")>>,
                    <<"eule", value("night_activity_frac")>>,
                    <<"waschbaer", value("weekend_activity_frac")>>,
                    <<"papagei", value("rate_like")>>>>
        first == CHOOSE i \in 1..6 :
                     /\ \A j \in 1..(i - 1) : LessThan(scores[j][2], scores[i][2])
                     /\ \A j \in i..6 : ~LessThan(scores[i][2], scores[j][2])
    IN scores[first][1]

UserTypeOf(comparisons) ==
    IF comparisons = <<>> THEN {}
    ELSE IF StrongestType(comparisons) # {} THEN StrongestType(comparisons)
    ELSE {AbsoluteType(comparisons)}

-----------------------------------------------------------------------------
(* The row and the page.                                                    *)

ReportInit ==
    /\ donated = {} /\ statistics = {} /\ shown = {}
    /\ catalogue \in Catalogues

StoreDonation ==
    /\ donated = {}
    /\ \E d \in Donations : donated' = {d}
    /\ UNCHANGED <<catalogue, statistics, shown>>

ImportVideos ==
    /\ \E c \in Catalogues : c # catalogue /\ catalogue' = c
    /\ UNCHANGED <<donated, statistics, shown>>

UserDataNow == IF donated = {} THEN EmptyData ELSE CHOOSE d \in donated : TRUE

\* The task computes whether there is a row or not, as often as it is
\* delivered, and even before the donation is stored.
ProcessReport ==
    /\ statistics' = {Compute(UserDataNow)}
    /\ UNCHANGED <<donated, catalogue, shown>>

PageMistaken(row, age, gender) ==
    LET filtered == ApplyFilter(row.behaviour_comparisons, age, gender)
    IN [row |-> row, age |-> age, gender |-> gender, comparisons |-> filtered,
        type |-> UserTypeOf(filtered)]
\* The type is that of the unfiltered comparisons.
Page(row, age, gender) ==
    [row |-> row, age |-> age, gender |-> gender,
     comparisons |-> ApplyFilter(row.behaviour_comparisons, age, gender),
     type |-> UserTypeOf(row.behaviour_comparisons)]

\* A page computes the row only when there is none, from what has been
\* donated by then.
ShowReport(age, gender) ==
    LET row == IF statistics = {} THEN Compute(UserDataNow) ELSE CHOOSE r \in statistics : TRUE
    IN /\ statistics' = {row}
       /\ shown' = {Page(row, age, gender)}
       /\ UNCHANGED <<donated, catalogue>>

OpenReport == ShowReport("all", "any")
FilterReport == \E age \in AgeGroups, gender \in Genders :
                    (shown # {} /\ ShowReport(age, gender))

ReportNext == StoreDonation \/ ImportVideos \/ ProcessReport \/ OpenReport \/ FilterReport
ReportSpec == ReportInit /\ [][ReportNext]_reportVars

-----------------------------------------------------------------------------
(* Properties.                                                              *)

ReportTypeOK ==
    /\ Cardinality(donated) <= 1 /\ Cardinality(statistics) <= 1 /\ Cardinality(shown) <= 1
    /\ catalogue \in Catalogues

\* The videos of the report, counted in every way the code counts them.
CountsAgree(row) ==
    LET total == row.videos_seen_count_total
        ofParties == DOMAIN row.party_counts \ {NoParty}
    IN /\ SumFunction(row.party_counts) = total
       /\ \A p \in DOMAIN row.party_counts :
              SumFunctionOnSet(row.daily_party_counts,
                               {k \in DOMAIN row.daily_party_counts : k[2] = p})
                  = row.party_counts[p]
       /\ SumFunction(row.daily_party_counts) = total
       /\ SumFunctionOnSet(row.party_counts, ofParties)
              <= Cardinality(DOMAIN row.seen_pol_video_ids)
       /\ \A r \in RowsFor(row.behaviour_comparisons, "avg_videos_per_session") :
              r.value[1] = total

\* The watch time, as sessions, per day and per video: a gap of exactly the
\* break belongs to a session and to a video, but not to a day.
TimesAgree(row) ==
    LET stamps == Stamps(Watches(row.of.watch_history))
        dwell == Dwell(row.of.watch_history)
        atBreak == {i \in Pairs(stamps) : Gap(stamps, i) = SessionBreak}
    IN \A r \in RowsFor(row.behaviour_comparisons, "avg_session_length_sec") :
          /\ r.value[1] = SumFunction([v \in DOMAIN dwell |-> dwell[v][1]])
          /\ r.value[1] = SumFunction(SecondsByDay(stamps)) + SessionBreak * Cardinality(atBreak)

FiguresOrdered(row) ==
    \A r \in Range(row.behaviour_comparisons) :
        /\ ~LessThan(<<1, 1>>, r.percentile) /\ r.percentile[1] >= 0
        /\ ~LessThan(r.stats.p25, r.stats.min) /\ ~LessThan(r.stats.median, r.stats.p25)
        /\ ~LessThan(r.stats.p75, r.stats.median) /\ ~LessThan(r.stats.max, r.stats.p75)

TopOrdered(row) ==
    LET top == row.top_videos
    IN /\ Len(top) = Min({TopCount, Cardinality(Range(row.seen_pol_video_ids))})
       /\ \A i, j \in 1..Len(top) :
              i < j => top[i].total_views >= top[j].total_views /\ top[i].video # top[j].video

AddsUp(row) == CountsAgree(row) /\ TimesAgree(row) /\ FiguresOrdered(row) /\ TopOrdered(row)

\* Whatever order a donation's records come in, with records outside the
\* window, without a date or without a video among them: the figures of one
\* report fit each other, though the code filters and counts the history
\* separately for each of them.
ReportAddsUp == \A row \in statistics : AddsUp(row)

Neutral(page) ==
    LET stored == page.row.behaviour_comparisons
    IN /\ DOMAIN page.comparisons = DOMAIN stored
       /\ \A i \in DOMAIN stored :
              /\ page.comparisons[i].metric = stored[i].metric
              /\ page.comparisons[i].value = stored[i].value
       /\ page.type = UserTypeOf(stored)
       /\ (page.age = "all" /\ page.gender = "any") => page.comparisons = stored
       /\ Group(page.age, page.gender) = {} => page.comparisons = stored

\* A filter changes what the participant is compared with, and nothing else:
\* neither the metrics, their values and their order nor the type; no filter,
\* or one that nobody meets, leaves the stored comparison as it is
\* (behaviour_metrics.py:926, views.py:76-77).
FilterNeutral == \A page \in shown : Neutral(page)
=============================================================================
