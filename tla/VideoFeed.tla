------------------------------- MODULE VideoFeed -------------------------------
(****************************************************************************)
(* What is known of a video, who writes it, and the consumer of the         *)
(* prioritised video API that asks for what has changed (updated_since).    *)
(* Source: ResearchAPIService, ScraperService._store, record_donated_videos *)
(* and its purge, import_video_links, and priority.py, filters.py, api.py   *)
(* and serializers.py of ddcs/metadata.                                     *)
(*                                                                          *)
(* A call of the Research API runs outside transactions: every statement    *)
(* is committed by itself.  The other writers take the time they write to   *)
(* updated_at, and commit later.  Time is counted in polls.  Of metadata    *)
(* only the source is kept; hashtags and keywords, which change without     *)
(* moving updated_at, are not compared.                                     *)
(****************************************************************************)
EXTENDS Integers, FiniteSets

CONSTANTS
    Clips,         \* TikTok IDs, in the order of the primary keys
    Keywords,
    Mentions,      \* pairs of a video and a keyword its description contains
    Calls,         \* queries of the Research API that may run at a time
    Credentials,   \* the number of key pairs
    OtherWriters,  \* donations, imports, scrapers, purges
    Interactions,  \* what donations show: a time, and if it is in the window
    Overlap,       \* polls a write may last, and the consumer looks back
    CallLimit,     \* bound: queries
    WriteLimit,    \* bound: writes of the other writers
    PollLimit      \* bound: polls

ASSUME FeedAssumption ==
    /\ IsFiniteSet(Clips) /\ Clips \subseteq Nat
    /\ Mentions \subseteq Clips \X Keywords
    /\ Interactions \subseteq [last : Nat \ {0}, window : BOOLEAN]
    /\ {Credentials, Overlap} \subseteq Nat \ {0}
    /\ {CallLimit, WriteLimit, PollLimit} \subseteq Nat

VARIABLES
    videos,      \* the videos that have a row
    updatedAt,   \* their updated_at
    apiInfos,    \* the videos with Research API infos
    scraped,     \* those with scraped infos
    shown,       \* the interactions recorded for each video
    inDatapods,  \* the videos listed in Datapods
    monitored,   \* the keywords with monitor_api
    linked,      \* the keywords of each video
    call,        \* what each query is at
    begun,       \* the number of queries
    writer,      \* what each other writer is at
    writes,      \* the number of their writes
    clock,       \* the number of polls begun
    since,       \* what the consumer asks for next
    unread,      \* the videos a poll under way has not come to
    copy,        \* what the consumer was told last of each video
    interrupted, \* videos whose row a query left unmarked
    overwritten  \* videos with an interaction set back

factVars == <<videos, apiInfos, scraped, shown, inDatapods>>
keywordVars == <<monitored, linked>>
consumerVars == <<clock, since, unread, copy>>
feedVars == <<factVars, updatedAt, keywordVars, call, begun, writer, writes,
              consumerVars, interrupted, overwritten>>

\* No infos, infos without and with an interaction within the watch window;
\* last is last_interaction_at.
NoInfos == [known |-> FALSE, last |-> 0, window |-> FALSE]
Donation == [known : BOOLEAN, last : Nat, window : BOOLEAN]
Stages == {"idle", "pages", "look", "infos", "mark", "rest"}
\* names: the keywords read, if they have been; kept: those monitored since
\* the call began.
NoCall == [at |-> "idle", video |-> 0, created |-> FALSE, key |-> 1,
           seen |-> {}, stored |-> [v \in Clips |-> 0], read |-> FALSE,
           names |-> {}, kept |-> {}]
NoWrite == [kind |-> "none", video |-> 0, began |-> 0, read |-> NoInfos,
            new |-> NoInfos]

-----------------------------------------------------------------------------
(****************************************************************************)
(* What the API serves                                                      *)
(****************************************************************************)

Donated(v) == shown[v].known \/ v \in inDatapods
InWindow(v) == shown[v].window \/ v \in inDatapods

\* PRIORITY_CONDITIONS.
PriorityCondition(v, p) ==
    CASE p = 4 -> Donated(v) /\ v \in apiInfos
      [] p = 3 -> InWindow(v) /\ v \notin apiInfos
      [] p = 2 -> ~Donated(v) /\ v \in apiInfos
      [] p = 1 -> ~InWindow(v) /\ v \notin apiInfos

\* annotate_priority.
Annotated(v) ==
    IF \E p \in 2..4 : PriorityCondition(v, p)
    THEN CHOOSE p \in 2..4 : PriorityCondition(v, p) ELSE 1

Source(v) == IF v \in apiInfos THEN "research_api"
             ELSE IF v \in scraped THEN "scraped" ELSE "none"

Unknown == [priority |-> 0, source |-> "none", last |-> 0, datapods |-> FALSE]
Served(v) ==
    IF v \notin videos THEN Unknown
    ELSE [priority |-> Annotated(v), source |-> Source(v),
          last |-> shown[v].last, datapods |-> v \in inDatapods]

-----------------------------------------------------------------------------
FeedInit ==
    /\ videos = {} /\ apiInfos = {} /\ scraped = {} /\ inDatapods = {}
    /\ updatedAt = [v \in Clips |-> 0]
    /\ shown = [v \in Clips |-> NoInfos]
    /\ monitored \in SUBSET Keywords /\ linked = {}
    /\ call = [c \in Calls |-> NoCall] /\ begun = 0
    /\ writer = [d \in OtherWriters |-> NoWrite] /\ writes = 0
    /\ clock = 1 /\ since = 0 /\ unread = {}
    /\ copy = [v \in Clips |-> Unknown]
    /\ interrupted = {} /\ overwritten = {}

-----------------------------------------------------------------------------
(****************************************************************************)
(* A query of the Research API                                              *)
(****************************************************************************)

\* A new service has seen nothing and read no keywords.
BeginQuery(c) ==
    /\ call[c].at = "idle" /\ begun < CallLimit
    /\ call' = [call EXCEPT ![c] = [NoCall EXCEPT !.at = "pages",
                                               !.kept = monitored]]
    /\ begun' = begun + 1
    /\ UNCHANGED <<factVars, updatedAt, keywordVars, writer, writes,
                   consumerVars, interrupted, overwritten>>

\* The next video of a page, unless this call has stored it: its row is
\* found or created.
Deliver(c, v) ==
    /\ call[c].at = "pages" /\ v \notin call[c].seen
    /\ videos' = videos \cup {v}
    /\ updatedAt' = IF v \in videos THEN updatedAt
                    ELSE [updatedAt EXCEPT ![v] = clock]
    /\ call' = [call EXCEPT ![c].at = "look", ![c].video = v,
                            ![c].created = v \notin videos]
    /\ UNCHANGED <<apiInfos, scraped, shown, inDatapods, keywordVars, begun,
                   writer, writes, consumerVars, interrupted, overwritten>>

LookForInfos(c) ==
    /\ call[c].at = "look"
    /\ call' = [call EXCEPT ![c].at =
                    IF call[c].video \in apiInfos THEN "rest" ELSE "infos"]
    /\ UNCHANGED <<factVars, updatedAt, keywordVars, begun, writer, writes,
                   consumerVars, interrupted, overwritten>>

CreateInfos(c) ==
    /\ call[c].at = "infos"
    /\ apiInfos' = apiInfos \cup {call[c].video}
    /\ call' = [call EXCEPT ![c].at =
                    IF call[c].created THEN "rest" ELSE "mark"]
    /\ UNCHANGED <<videos, scraped, shown, inDatapods, updatedAt, keywordVars,
                   begun, writer, writes, consumerVars, interrupted, overwritten>>

\* A video of another source is marked as changed.  Mistake: it is not.
MarkedMistaken(c) == updatedAt
Marked(c) == [updatedAt EXCEPT ![call[c].video] = clock]
MarkChanged(c) ==
    /\ call[c].at = "mark"
    /\ updatedAt' = Marked(c)
    /\ call' = [call EXCEPT ![c].at = "rest"]
    /\ UNCHANGED <<factVars, keywordVars, begun, writer, writes, consumerVars,
                   interrupted, overwritten>>

\* The statistics, and the keywords, read once, that the video mentions.
KnownKeywords(c) == IF call[c].read THEN call[c].names ELSE monitored
Matched(c) == {m \in Mentions : m[1] = call[c].video /\ m[2] \in KnownKeywords(c)}
StoreRest(c) ==
    /\ call[c].at = "rest"
    /\ linked' = linked \cup Matched(c)
    /\ call' = [call EXCEPT ![c].at = "pages", ![c].video = 0,
                            ![c].created = FALSE,
                            ![c].stored[call[c].video] = @ + 1,
                            ![c].seen = @ \cup {call[c].video},
                            ![c].names = KnownKeywords(c), ![c].read = TRUE]
    /\ UNCHANGED <<factVars, updatedAt, monitored, begun, writer, writes,
                   consumerVars, interrupted, overwritten>>

\* A key is used up: the query starts from the top with the next one.
\* Mistake: having seen nothing.
RestartedMistaken(c) == [call[c] EXCEPT !.key = @ + 1, !.seen = {}]
Restarted(c) == [call[c] EXCEPT !.key = @ + 1]
UseNextKey(c) ==
    /\ call[c].at = "pages" /\ call[c].key < Credentials
    /\ call' = [call EXCEPT ![c] = Restarted(c)]
    /\ UNCHANGED <<factVars, updatedAt, keywordVars, begun, writer, writes,
                   consumerVars, interrupted, overwritten>>

\* The query is over, out of keys, or interrupted by an error or the time
\* limit, between any two statements.
EndQuery(c) ==
    /\ call[c].at # "idle"
    /\ call' = [call EXCEPT ![c] = NoCall]
    /\ interrupted' = IF call[c].at = "mark"
                      THEN interrupted \cup {call[c].video} ELSE interrupted
    /\ UNCHANGED <<factVars, updatedAt, keywordVars, begun, writer, writes,
                   consumerVars, overwritten>>

-----------------------------------------------------------------------------
(****************************************************************************)
(* The other writers                                                        *)
(****************************************************************************)

\* video_pks: an unknown video gets a row.
Register(v) ==
    /\ v \notin videos
    /\ videos' = videos \cup {v}
    /\ updatedAt' = [updatedAt EXCEPT ![v] = clock]
    /\ UNCHANGED <<apiInfos, scraped, shown, inDatapods, keywordVars, call,
                   begun, writer, writes, consumerVars, interrupted, overwritten>>

StartWrite(d, kind, v, new) ==
    /\ writer[d].kind = "none" /\ writes < WriteLimit /\ v \in videos
    /\ writer' = [writer EXCEPT ![d] =
           [kind |-> kind, video |-> v, began |-> clock, read |-> shown[v],
            new |-> new]]
    /\ writes' = writes + 1
    /\ UNCHANGED <<factVars, updatedAt, keywordVars, call, begun, consumerVars,
                   interrupted, overwritten>>

\* record_donated_videos: the row is read, the later interaction kept.
Later(infos, i) ==
    [known |-> TRUE, last |-> IF i.last > infos.last THEN i.last ELSE infos.last,
     window |-> infos.window \/ i.window]
RecordDonation(d, v) ==
    \E i \in Interactions : StartWrite(d, "donation", v, Later(shown[v], i))
\* purge_unbacked_donation_infos.
StartPurge(d, v) == shown[v].known /\ StartWrite(d, "purge", v, NoInfos)
\* ScraperService._store.
StartStore(d, v) ==
    v \notin scraped /\ StartWrite(d, "scrape", v, shown[v])

\* What a commit leaves of the infos: an existing row is overwritten, one
\* that appeared since is kept, one that was deleted stays deleted.
Recorded(w) ==
    IF w.kind = "scrape" \/ (w.kind = "donation" /\ w.read.known # shown[w.video].known)
    THEN shown[w.video] ELSE w.new

\* Whether the video is marked as changed.
Moves(w) == w.kind # "donation" \/ w.new # w.read

CommitWrite(d) ==
    LET w == writer[d] IN
    /\ w.kind # "none"
    /\ shown' = [shown EXCEPT ![w.video] = Recorded(w)]
    /\ scraped' = IF w.kind = "scrape" THEN scraped \cup {w.video} ELSE scraped
    /\ updatedAt' = IF Moves(w) THEN [updatedAt EXCEPT ![w.video] = w.began]
                    ELSE updatedAt
    /\ overwritten' = IF w.kind = "donation" /\ shown[w.video] # w.read
                      THEN overwritten \cup {w.video} ELSE overwritten
    /\ writer' = [writer EXCEPT ![d] = NoWrite]
    /\ UNCHANGED <<videos, apiInfos, inDatapods, keywordVars, call, begun, writes,
                   consumerVars, interrupted>>

\* import_video_links marks a video, in one statement.
MarkDatapods(v) ==
    /\ v \in videos \ inDatapods /\ writes < WriteLimit
    /\ inDatapods' = inDatapods \cup {v}
    /\ updatedAt' = [updatedAt EXCEPT ![v] = clock]
    /\ writes' = writes + 1
    /\ UNCHANGED <<videos, apiInfos, scraped, shown, keywordVars, call, begun,
                   writer, consumerVars, interrupted, overwritten>>

\* Monitoring of a keyword is switched.
SwitchKeyword(k) ==
    /\ writes < WriteLimit /\ writes' = writes + 1
    /\ monitored' = IF k \in monitored THEN monitored \ {k} ELSE monitored \cup {k}
    /\ call' = [c \in Calls |-> [call[c] EXCEPT !.kept = @ \ {k}]]
    /\ UNCHANGED <<factVars, updatedAt, linked, begun, writer, consumerVars,
                   interrupted, overwritten>>

-----------------------------------------------------------------------------
(****************************************************************************)
(* The consumer                                                             *)
(****************************************************************************)

\* A poll begins.  No write lasts longer than the consumer looks back.
StartPoll ==
    /\ unread = {} /\ videos # {} /\ clock <= PollLimit
    /\ \A d \in OtherWriters :
           writer[d].kind # "none" => clock < writer[d].began + Overlap
    /\ \A c \in Calls :
           call[c].at \in {"look", "infos", "mark"} =>
               clock < updatedAt[call[c].video] + Overlap \/ ~call[c].created
    /\ unread' = videos
    /\ clock' = clock + 1
    /\ UNCHANGED <<factVars, updatedAt, keywordVars, call, begun, writer, writes,
                   since, copy, interrupted, overwritten>>

\* updated_since.
Reported(v) == updatedAt[v] > since

\* One page; the next poll asks for what changed since this one began.
ReadPage ==
    \E v \in unread :
        /\ \A u \in unread : u <= v
        /\ copy' = IF Reported(v) THEN [copy EXCEPT ![v] = Served(v)] ELSE copy
        /\ unread' = unread \ {v}
        /\ since' = IF unread = {v} THEN clock - 1 - Overlap ELSE since
        /\ UNCHANGED <<factVars, updatedAt, keywordVars, call, begun, writer,
                       writes, clock, interrupted, overwritten>>

Query(c) ==
    \/ BeginQuery(c) \/ LookForInfos(c) \/ CreateInfos(c) \/ MarkChanged(c)
    \/ StoreRest(c) \/ UseNextKey(c) \/ EndQuery(c)
    \/ \E v \in Clips : Deliver(c, v)

FeedNext ==
    \/ \E c \in Calls : Query(c)
    \/ \E v \in Clips :
           \/ Register(v) \/ MarkDatapods(v)
           \/ \E d \in OtherWriters :
                  RecordDonation(d, v) \/ StartPurge(d, v) \/ StartStore(d, v)
    \/ \E d \in OtherWriters : CommitWrite(d)
    \/ \E k \in Keywords : SwitchKeyword(k)
    \/ StartPoll \/ ReadPage

FeedSpec == FeedInit /\ [][FeedNext]_feedVars

-----------------------------------------------------------------------------
(****************************************************************************)
(* Properties                                                               *)
(****************************************************************************)

\* The types; the priorities of the filter are mutually exclusive, cover
\* every video, and are those of the annotation, whatever a video is known
\* from and in whichever order.
FeedTypeOK ==
    /\ videos \subseteq Clips /\ apiInfos \subseteq videos
    /\ scraped \subseteq videos /\ inDatapods \subseteq videos
    /\ shown \in [Clips -> Donation]
    /\ linked \subseteq Mentions /\ monitored \subseteq Keywords
    /\ \A c \in Calls : call[c].at \in Stages /\ call[c].key \in 1..Credentials
    /\ \A v \in Clips :
           {p \in 1..4 : PriorityCondition(v, p)} = {Annotated(v)}

\* A change the consumer was not told of comes with its next poll, or one
\* still to write it: unless a query was cut short before it marked the
\* video, or two donations overwrote each other.
NothingMissed ==
    \A v \in videos \ (interrupted \cup overwritten) :
        \/ copy[v] = Served(v)
        \/ updatedAt[v] > IF unread = {} THEN since ELSE clock - 1 - Overlap
        \/ v \in unread /\ updatedAt[v] > since
        \/ \E c \in Calls : call[c].at = "mark" /\ call[c].video = v

\* One query stores the statistics of a video once, however often keys run
\* out and the pages are asked for again.
StatisticsOncePerQuery == \A c \in Calls, v \in Clips : call[c].stored[v] <= 1

\* A query links the videos it stores to the keywords that were monitored
\* when it began, and still are.
KeywordsLinked ==
    \A c \in Calls :
        \A m \in Mentions :
            m[1] \in call[c].seen /\ m[2] \in call[c].kept => m \in linked

\* Together: what a query has gone through is stored, and stored once.
QueriesComplete == StatisticsOncePerQuery /\ KeywordsLinked

\* The later of the stored and the given interaction is kept: only the purge
\* takes interactions back.
LaterKept ==
    [][\A v \in Clips :
           shown[v].known /\ shown'[v].known =>
               /\ shown'[v].last >= shown[v].last
               /\ shown[v].window => shown'[v].window]_feedVars
=============================================================================
