-------------------------------- MODULE MCData ---------------------------------
(****************************************************************************)
(* The data and what is made of it, for TLC: a batch of the scrape queue,   *)
(* the client of TikTok's pages, the way of a donated export, a             *)
(* participant's report, the figures of the dashboard and of the public     *)
(* pages.  They share no variable (the public pages and the dashboard share *)
(* the database): a behaviour is one of them, the scene.                    *)
(****************************************************************************)
EXTENDS MCScrapeQueue, PageScraper, MCDonatedData, Report, Figures

VARIABLE scene

sceneVars == <<scene, vars, pageVars, dataVars, reportVars, figuresVars>>

SceneInit ==
    /\ scene \in {"batch", "pages", "export", "report", "board", "public"}
    /\ Init /\ PagesInit
    /\ DataInit /\ (scene = "export" \/ written = NotBegun)
    /\ ReportInit /\ (scene = "report" \/ catalogue = <<>>)
    /\ FiguresInit /\ (scene \in {"board", "public"} \/ \A v \in Videos : facts[v] = {})

InBatch ==
    /\ scene = "batch" /\ Next
    /\ UNCHANGED <<scene, pageVars, dataVars, reportVars, figuresVars>>
InPages ==
    /\ scene = "pages" /\ PagesNext
    /\ UNCHANGED <<scene, vars, dataVars, reportVars, figuresVars>>
InExport ==
    /\ scene = "export" /\ DataNext
    /\ UNCHANGED <<scene, vars, pageVars, reportVars, figuresVars>>
InReport ==
    /\ scene = "report" /\ ReportNext
    /\ UNCHANGED <<scene, vars, pageVars, dataVars, figuresVars>>
InFigures ==
    /\ \/ scene \in {"board", "public"} /\ DatabaseNext
       \/ scene = "board" /\ DashboardNext
       \/ scene = "public" /\ (PublicNext \/ \E v \in Videos : Measure(v))
    /\ UNCHANGED <<scene, vars, pageVars, dataVars, reportVars>>

SceneNext == InBatch \/ InPages \/ InExport \/ InReport \/ InFigures
SceneSpec == SceneInit /\ [][SceneNext]_sceneVars

\* The variables of the scene hold values of their types; those of the others
\* do not change.
EveryTypeOK ==
    /\ scene = "batch" => TypeOK
    /\ scene = "pages" => PagesTypeOK
    /\ scene = "export" => DataTypeOK
    /\ scene = "report" => ReportTypeOK
    /\ scene \in {"board", "public"} => FiguresTypeOK

-----------------------------------------------------------------------------
\* Captions of a video: none, others, and the one in its own language.
Caption(original, webvtt) == [original |-> original, webvtt |-> webvtt, url |-> TRUE]
SomeCaptions ==
    {<<>>, <<Caption(FALSE, TRUE), Caption(TRUE, FALSE)>>, <<Caption(TRUE, FALSE), Caption(TRUE, TRUE)>>}

\* What is stored of two videos at the start: nothing; two donated ones, one
\* of them scraped; one of the Research API, one listed in Datapods.
SomeDatabases ==
    LET Pair(a, b) == [v \in Videos |-> IF v = 1 THEN a ELSE b]
    IN {Pair({}, {}),
        Pair({"donation", "donated", "in_window", "scraped", "author"}, {"donation", "donated"}),
        Pair({"research_api", "author", "api", "classified"}, {"datapods", "listed"})}

\* A donor's events around midnight of a Friday, and the rows of the reference.
FridayEvening == 4 * DayLength + 21 * HourLength + 59 * 60 + 40
FridayMorning == 4 * DayLength
Event(at, video, account) == [at |-> at, video |-> video, account |-> account]
Events ==
    {Event(FridayEvening, 1, "someone"), Event(FridayEvening + 90, 2, "cdu"),
     Event(FridayEvening + 90, NoId, "someone"), Event(FridayEvening + 91, 1, "someone"),
     Event(5 * DayLength - 10, 1, "someone"), Event(5 * DayLength + 20, 3, "small"),
     Event(Undated, 1, "someone"), Event(FridayMorning - 30, 2, "cdu")}
ShortHistories == {<<>>} \cup [1..1 -> Events]
Histories ==
    ShortHistories \cup [1..2 -> {e \in Events : InWindow(e) /\ WithVideo(e)}]
        \cup {<<a, b, Event(FridayEvening, 1, "someone")>> : a, b \in Events}
Donation(history, likes) ==
    [EmptyData EXCEPT !.watch_history = history, !.liked_videos = likes, !.followed = {"cdu"}]
SomeDonations ==
    {Donation(h, <<>>) : h \in Histories}
        \cup {Donation(h, <<Event(FridayEvening, 2, "cdu")>>) : h \in ShortHistories}
Video(account, monitored, views) == [account |-> account, monitored |-> monitored, views |-> views]
SomeCatalogues ==
    {<<>>, <<Video("someone", TRUE, NoViews), Video("cdu", FALSE, 7)>>}
Parties == [cdu |-> "CSU", small |-> "Volt"]
Row(gender, age, of, hour, week) ==
    [gender |-> gender, age |-> age,
     metrics |-> [m \in {ProfileMetrics[i] : i \in 1..Len(ProfileMetrics)} |->
                     IF m \in DOMAIN of THEN of[m] ELSE Missing],
     hours |-> [h \in 0..23 |-> IF h = hour THEN 100 ELSE Missing],
     weekdays |-> [d \in 0..6 |-> week]]
SomeReference ==
    <<Row("male", 25, [avg_session_length_sec |-> 3000, avg_videos_per_session |-> 150,
                       frac_instant_skip |-> 0, night_activity_frac |-> 40, rate_like |-> 10,
                       avg_active_hours_per_day |-> 2, weekend_activity_frac |-> 30,
                       peak_activity_hour |-> 2200, frac_political_engagement |-> 50], 22, 60),
      Row("female", 40, [avg_session_length_sec |-> 6000, avg_videos_per_session |-> 300,
                         frac_instant_skip |-> 50, night_activity_frac |-> 0, rate_like |-> -200,
                         avg_active_hours_per_day |-> 1, weekend_activity_frac |-> 70,
                         peak_activity_hour |-> 2100], 21, -5),
      Row("", Missing, [avg_session_length_sec |-> 9000, frac_instant_skip |-> 100,
                        rate_like |-> 60, peak_activity_hour |-> 2200], 22, Missing),
      Row("female", 20, [none |-> 0], 3, 10)>>
=============================================================================
