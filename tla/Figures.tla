-------------------------------- MODULE Figures ---------------------------------
(****************************************************************************)
(* Figures computed in several queries while the database goes on changing, *)
(* and shown from a cache: the snapshot of the metadata dashboard, the post *)
(* counts behind the public plots, and the figures per party.  No           *)
(* transaction holds the queries together; what is written while they run   *)
(* is seen by the later ones only.                                          *)
(****************************************************************************)
EXTENDS Integers, Sequences, FiniteSets

CONSTANTS
    Videos,       \* the videos the database may come to hold
    Databases,    \* what may be stored of them at the start: video -> facts
    Refreshes,    \* workers that may recompute the dashboard
    WriteLimit,   \* bound: writes to the database
    RowLimit,     \* bound: statistics rows of one video
    QueueLimit    \* bound: dashboard refreshes queued by pages at a time

VARIABLES
    facts,        \* video -> what is stored about it
    rows,         \* video -> how many statistics rows it has
    attempted,    \* whether a sync of the monitored account's day has succeeded
    writes,       \* how many writes there were
    pending,      \* the key that says a dashboard refresh is queued or running
    requests,     \* dashboard refreshes that are queued
    refresh,      \* worker -> the refresh it runs, none or one
    snapshot,     \* the cached dashboard, none or one
    reading,      \* who computes post counts, and how far
    posts,        \* the cached post counts, none or one
    image,        \* the post counts the plot files show
    parties       \* the cached figures per party, none or one

figuresDb == <<facts, rows, attempted, writes>>
figuresBoard == <<pending, requests, refresh, snapshot>>
figuresPublic == <<reading, posts, image, parties>>
figuresVars == <<figuresDb, figuresBoard, figuresPublic>>

\* Which source registered a video; what became known about it later.  The
\* author is the monitored account, the day one day of the window.
Origins == {"donation", "research_api", "datapods"}
Facts == Origins \cup {"donated", "in_window", "listed", "api", "scraped",
                       "classified", "author"}

\* Only videos that were donated were donated for an interaction in the window.
ASSUME FiguresAssumption ==
    /\ IsFiniteSet(Videos) /\ IsFiniteSet(Refreshes)
    /\ WriteLimit \in Nat /\ RowLimit \in Nat /\ QueueLimit \in Nat \ {0}
    /\ Databases \subseteq [Videos -> SUBSET Facts]
    /\ \A database \in Databases, v \in Videos :
           "in_window" \in database[v] => "donated" \in database[v]

Known == {v \in Videos : facts[v] \cap Origins # {}}
With(fact) == {v \in Known : fact \in facts[v]}

-----------------------------------------------------------------------------
(* What others write.                                                       *)

Written == writes < WriteLimit /\ writes' = writes + 1
Stored(v, new) == facts' = [facts EXCEPT ![v] = @ \cup new]

\* A source registers a video; only the Research API says who posted it.
Register(v, origin) ==
    /\ v \notin Known
    /\ Written /\ Stored(v, {origin} \cup IF origin = "research_api" THEN {"author"} ELSE {})
    /\ UNCHANGED <<rows, attempted>>

\* Something becomes known of a video that is registered.  A row that another
\* source registered gets its author from the scraper, never from the
\* Research API.
Learn(v, fact) ==
    /\ v \in Known /\ fact \in Facts \ (Origins \cup {"author"}) /\ fact \notin facts[v]
    /\ fact = "in_window" => "donated" \in facts[v]
    /\ Written /\ Stored(v, {fact} \cup IF fact = "scraped" THEN {"author"} ELSE {})
    /\ UNCHANGED <<rows, attempted>>

\* A recount finds no interaction within the window any more.
Leave(v) ==
    /\ "in_window" \in facts[v]
    /\ Written /\ facts' = [facts EXCEPT ![v] = @ \ {"in_window"}]
    /\ UNCHANGED <<rows, attempted>>

\* Each time the Research API delivers a video, its statistics are one more row.
Measure(v) ==
    /\ v \in With("api") /\ rows[v] < RowLimit
    /\ rows' = [rows EXCEPT ![v] = @ + 1]
    /\ UNCHANGED <<facts, attempted, writes, figuresBoard, figuresPublic>>

\* The outcome of a sync is recorded after its videos are stored.
SyncSucceeds ==
    /\ ~attempted /\ attempted' = TRUE
    /\ Written /\ UNCHANGED <<facts, rows>>

DatabaseNext ==
    /\ \/ \E v \in Videos : \/ \E o \in Origins : Register(v, o)
                            \/ \E f \in Facts : Learn(v, f)
                            \/ Leave(v)
       \/ SyncSucceeds
    /\ UNCHANGED <<figuresBoard, figuresPublic>>

-----------------------------------------------------------------------------
(* The dashboard.                                                           *)

OriginOf(v) == CHOOSE o \in Origins : o \in facts[v]

\* Videos listed in Datapods have a state of their own.
DonationState(v) ==
    IF "listed" \in facts[v] THEN "datapods"
    ELSE IF "donated" \notin facts[v] THEN "none"
    ELSE IF "in_window" \in facts[v] THEN "inside" ELSE "outside"
States == {"datapods", "none", "outside", "inside"}

Queries == <<"totals", "with_api_info", "everything", "api", "api_classified", "scraped",
             "scraped_classified", "classified_only", "dated", "dated_classified">>
ByOrigin == {"totals", "with_api_info"}

Selected(query) ==
    CASE query \in {"totals", "everything"} -> Known
      [] query \in {"with_api_info", "api", "dated"} -> With("api")
      [] query \in {"api_classified", "dated_classified"} -> With("api") \cap With("classified")
      [] query = "scraped" -> With("scraped") \ With("api")
      [] query = "scraped_classified" ->
             (With("scraped") \ With("api")) \cap With("classified")
      [] query = "classified_only" ->
             With("classified") \ (With("api") \cup With("scraped"))

\* The rows of an aggregate: how many of the selected videos per group.
Counted(query) ==
    IF query \in ByOrigin
    THEN [o \in Origins |-> Cardinality({v \in Selected(query) : OriginOf(v) = o})]
    ELSE [s \in States |-> Cardinality({v \in Selected(query) : DonationState(v) = s})]

\* What the aggregates add up to, for the videos of some states.
Sum(counts, states) ==
    LET Part(s) == IF s \in states THEN counts[s] ELSE 0
    IN Part("datapods") + Part("none") + Part("outside") + Part("inside")

\* Research API infos are metadata: nothing waits.
WithApiInfos(read, states) ==
    LET total == Sum(read["api"], states)
        classified == Sum(read["api_classified"], states)
    IN [classified |-> classified, metadata_only |-> total - classified, waiting |-> 0,
        classified_without_metadata |-> 0]

WithoutApiInfos(read, states) ==
    LET total == Sum(read["everything"], states) - Sum(read["api"], states)
        metadata == Sum(read["scraped"], states)
        classified == Sum(read["scraped_classified"], states)
        odd == Sum(read["classified_only"], states)
    IN [classified |-> classified, metadata_only |-> metadata - classified,
        waiting |-> total - metadata - odd, classified_without_metadata |-> odd]

\* The rows of the card: priority 4, 3 by donation, 3 by Datapods, 2 and 1.
PriorityCounts(read) ==
    <<WithApiInfos(read, {"outside", "inside", "datapods"}),
      WithoutApiInfos(read, {"inside"}),
      WithoutApiInfos(read, {"datapods"}),
      WithApiInfos(read, {"none"}),
      WithoutApiInfos(read, {"none", "outside"})>>

OriginCounts(read) ==
    [o \in Origins |-> [with_api_info |-> read["with_api_info"][o],
                        without_api_info |-> read["totals"][o] - read["with_api_info"][o]]]

\* By the day a video was published; the model has one day.
ClassificationCounts(read) ==
    [total |-> Sum(read["dated"], States), classified |-> Sum(read["dated_classified"], States)]

\* Reference: a row of the card for each video, a part of it for each progress,
\* by the rules of the priorities.
Columns == {"classified", "metadata_only", "waiting", "classified_without_metadata"}
RowOf(v) ==
    LET api == "api" \in facts[v]
        donated == facts[v] \cap {"donated", "listed"} # {}
    IN CASE donated /\ api -> 1
         [] "listed" \in facts[v] /\ ~api -> 3
         [] "in_window" \in facts[v] /\ ~api /\ "listed" \notin facts[v] -> 2
         [] ~donated /\ api -> 4
         [] OTHER -> 5
ColumnOf(v) ==
    LET metadata == facts[v] \cap {"api", "scraped"} # {}
        classified == "classified" \in facts[v]
    IN IF metadata THEN IF classified THEN "classified" ELSE "metadata_only"
       ELSE IF classified THEN "classified_without_metadata" ELSE "waiting"

Truth ==
    [priority |-> [i \in 1..5 |->
         [c \in Columns |-> Cardinality({v \in Known : RowOf(v) = i /\ ColumnOf(v) = c})]],
     origin |-> [o \in Origins |->
         [with_api_info |-> Cardinality({v \in With("api") : OriginOf(v) = o}),
          without_api_info |-> Cardinality({v \in Known \ With("api") : OriginOf(v) = o})]]]

\* The button of the page, and the page itself when there is no snapshot.
RequestRefresh ==
    /\ ~pending /\ requests < QueueLimit
    /\ pending' = TRUE /\ requests' = requests + 1
    /\ UNCHANGED <<refresh, snapshot>>

\* The hourly beat does not look at the key.
BeatRefresh ==
    /\ requests = 0
    /\ requests' = 1
    /\ UNCHANGED <<pending, refresh, snapshot>>

StartRefresh(w) ==
    /\ requests > 0 /\ refresh[w] = {}
    /\ requests' = requests - 1
    /\ refresh' = [refresh EXCEPT ![w] = {[computed_at |-> writes, truth |-> Truth, read |-> <<>>]}]
    /\ UNCHANGED <<pending, snapshot>>

RunQuery(w) ==
    /\ \E run \in refresh[w] :
          /\ Len(run.read) < Len(Queries)
          /\ refresh' = [refresh EXCEPT ![w] =
                 {[run EXCEPT !.read = Append(@, Counted(Queries[Len(@) + 1]))]}]
    /\ UNCHANGED <<pending, requests, snapshot>>

\* The last to finish is shown, whichever began first; the key goes in any case.
StoreSnapshot(w) ==
    /\ \E run \in refresh[w] :
          /\ Len(run.read) = Len(Queries)
          /\ LET read == [q \in {Queries[i] : i \in 1..Len(Queries)} |->
                             run.read[CHOOSE i \in 1..Len(Queries) : Queries[i] = q]]
             IN snapshot' = {[priority_counts |-> PriorityCounts(read),
                              origin_counts |-> OriginCounts(read),
                              classification |-> ClassificationCounts(read),
                              truth |-> run.truth, during |-> writes - run.computed_at]}
    /\ refresh' = [refresh EXCEPT ![w] = {}]
    /\ pending' = FALSE
    /\ UNCHANGED requests

\* The soft limit or an error ends a refresh; a worker that is killed leaves
\* the key, and its message comes again.
AbandonRefresh(w) ==
    /\ refresh[w] # {}
    /\ refresh' = [refresh EXCEPT ![w] = {}]
    /\ \/ pending' = FALSE /\ UNCHANGED requests
       \/ requests' = requests + 1 /\ UNCHANGED pending
    /\ UNCHANGED snapshot

BoardLapses ==
    /\ \/ pending /\ pending' = FALSE /\ UNCHANGED snapshot
       \/ snapshot # {} /\ snapshot' = {} /\ UNCHANGED pending
    /\ UNCHANGED <<requests, refresh>>

DashboardNext ==
    /\ \/ RequestRefresh \/ BeatRefresh \/ BoardLapses
       \/ \E w \in Refreshes :
              StartRefresh(w) \/ RunQuery(w) \/ StoreSnapshot(w) \/ AbandonRefresh(w)
    /\ UNCHANGED <<figuresDb, figuresPublic>>

-----------------------------------------------------------------------------
(* The public plots and figures.                                            *)

\* What the database knows the account to have published, with infos.
Posted == With("api") \cap With("author")

Askers == {"daily", "page"}
Stage(stage, found, since, seen) ==
    [stage |-> stage, found |-> found, since |-> since, seen |-> seen]
Goes(a, step) == reading' = [reading EXCEPT ![a] = step]
AtRest == Stage("rest", 0, 0, FALSE)

\* The daily task deletes the cached counts first; a page computes them when
\* there are none.
AskPosts(a) ==
    /\ reading[a].stage = "rest"
    /\ IF a = "daily" THEN posts' = {} ELSE posts = {} /\ UNCHANGED posts
    /\ Goes(a, Stage("videos", 0, 0, FALSE))
    /\ UNCHANGED <<image, parties>>

CountVideos(a) ==
    /\ reading[a].stage = "videos"
    /\ Goes(a, Stage("attempts", Cardinality(Posted), writes, FALSE))
    /\ UNCHANGED <<posts, image, parties>>

ReadAttempts(a) ==
    /\ reading[a].stage = "attempts"
    /\ Goes(a, Stage("add", reading[a].found, reading[a].since, attempted))
    /\ UNCHANGED <<posts, image, parties>>

\* A day without videos counts as zero whether it was synced or not.
CountOfMistaken(found, seen) == {found}
\* No count at all where there are no videos and no successful sync.
CountOf(found, seen) == IF found = 0 /\ ~seen THEN {} ELSE {found}

\* The counts are added, not set: what another one stored meanwhile stays.
AddPosts(a) ==
    /\ reading[a].stage = "add"
    /\ posts' = IF posts # {} THEN posts
                ELSE {[count |-> CountOf(reading[a].found, reading[a].seen),
                       synced |-> attempted, during |-> writes - reading[a].since,
                       truth |-> Cardinality(Posted)]}
    /\ Goes(a, IF a = "daily" THEN Stage("draw", 0, 0, FALSE) ELSE AtRest)
    /\ UNCHANGED <<image, parties>>

\* The plot files are drawn from the cache, or from counts computed again when
\* the cache is empty; a file that fails to be drawn stays as it was.
DrawPlots ==
    /\ reading["daily"].stage = "draw"
    /\ IF posts = {}
       THEN Goes("daily", Stage("videos", 0, 0, FALSE)) /\ UNCHANGED image
       ELSE Goes("daily", AtRest) /\ image' \in {image, posts}
    /\ UNCHANGED <<posts, parties>>

\* Figures per party: the likes of all statistics rows, the k-th of which says
\* k likes here, and the videos that have one.
ShowParties ==
    /\ parties = {}
    /\ parties' = {[total_likes |-> Cardinality({like \in Posted \X (1..RowLimit) \X (1..RowLimit) :
                                                    like[3] <= like[2] /\ like[2] <= rows[like[1]]}),
                    video_count |-> Cardinality({v \in Posted : rows[v] > 0}),
                    total_videos |-> Cardinality(Posted)]}
    /\ UNCHANGED <<reading, posts, image>>

PublicLapses ==
    /\ \/ posts # {} /\ posts' = {} /\ UNCHANGED parties
       \/ parties # {} /\ parties' = {} /\ UNCHANGED posts
    /\ UNCHANGED <<reading, image>>

PublicNext ==
    /\ \/ \E a \in Askers : AskPosts(a) \/ CountVideos(a) \/ ReadAttempts(a) \/ AddPosts(a)
       \/ DrawPlots \/ ShowParties \/ PublicLapses
    /\ UNCHANGED <<figuresDb, figuresBoard>>

-----------------------------------------------------------------------------
FiguresInit ==
    /\ facts \in Databases /\ rows = [v \in Videos |-> 0]
    /\ attempted = FALSE /\ writes = 0
    /\ pending = FALSE /\ requests = 0 /\ snapshot = {}
    /\ refresh = [w \in Refreshes |-> {}]
    /\ reading = [a \in Askers |-> AtRest]
    /\ posts = {} /\ image = {} /\ parties = {}

FiguresNext == DatabaseNext \/ DashboardNext \/ PublicNext \/ \E v \in Videos : Measure(v)

FiguresSpec == FiguresInit /\ [][FiguresNext]_figuresVars

-----------------------------------------------------------------------------
(* What the figures promise.  The likes of a party promise nothing: they    *)
(* count a video once for each time it was delivered.                       *)

\* What the variables may hold.
FiguresTypeOK ==
    /\ facts \in [Videos -> SUBSET Facts] /\ rows \in [Videos -> 0..RowLimit]
    /\ attempted \in BOOLEAN /\ writes \in 0..WriteLimit
    /\ pending \in BOOLEAN /\ requests \in 0..(QueueLimit + Cardinality(Refreshes))
    /\ \A w \in Refreshes : Cardinality(refresh[w]) <= 1
    /\ Cardinality(snapshot) <= 1 /\ Cardinality(posts) <= 1 /\ Cardinality(image) <= 1
    /\ \A a \in Askers : reading[a].stage \in {"rest", "videos", "attempts", "add", "draw"}

Near(shown, truth, margin) == shown - truth \in -margin..margin

\* A part of the card of priorities differs from the videos that had that
\* priority and progress when the refresh began by no more than what was
\* written while its queries ran; so does the split by origin.
SnapshotHonest ==
    \A s \in snapshot :
        /\ \A i \in 1..5, c \in Columns :
               Near(s.priority_counts[i][c], s.truth.priority[i][c], s.during)
        /\ \A o \in Origins, c \in {"with_api_info", "without_api_info"} :
               Near(s.origin_counts[o][c], s.truth.origin[o][c], s.during)
        /\ s.classification.classified <= s.classification.total + s.during

\* Post counts, cached or drawn, differ from the videos there were when they
\* were stored by no more than what was written while they were computed; a
\* zero is shown only of a day that was synced.
PostsHonest ==
    \A p \in posts \cup image :
        /\ p.count = {} => p.truth <= p.during
        /\ \A n \in p.count : Near(n, p.truth, p.during) /\ (n = 0 => p.synced)

\* The figures of both pages are off by what was written meanwhile and no more
\* (get_priority_counts and get_video_counts_by_origin add and subtract the
\* results of eight queries; _compute_post_data reads videos before attempts).
FiguresHonest == SnapshotHonest /\ PostsHonest
=============================================================================
