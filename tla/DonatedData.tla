------------------------------ MODULE DonatedData ------------------------------
(****************************************************************************)
(* The way of a donated export: the command that sets up the project in     *)
(* DDM, blueprint by blueprint and rule by rule, the extraction that keeps  *)
(* the fields the rules name (DDM's, external), the services that read the  *)
(* stored records back, and the task that registers what they hold.         *)
(*                                                                          *)
(* An export is one upload with a list per blueprint.  A row of it has a    *)
(* date, written in one of the formats TikTok has used, and a link or a     *)
(* text; some exports spell keys in lower case.                             *)
(****************************************************************************)
EXTENDS Naturals, Sequences, FiniteSets, Functions

CONSTANTS
    WatchWindow,  \* the points in time of the study period
    Exports,      \* what may be uploaded: the rows of an export
    EarlyExports  \* bound: what is uploaded before the set-up is complete

\* A link that leads to no video.
NoVideo == 0

\* A row's date is written in one of the known forms, or in none; its link
\* leads to a video, possibly with a query behind it, or elsewhere.
Forms == {"plain", "iso", "other"}
LinkTargets == {"video", "query", "elsewhere"}
Rows == [form : Forms, at : Nat, target : LinkTargets, video : Nat \ {NoVideo}]

\* A list that is found in an export has rows.
ASSUME ExportsAssumption == Exports \cup EarlyExports \subseteq Seq(Rows) \ {<<>>}
ASSUME WindowAssumption == WatchWindow \subseteq Nat

VARIABLES
    written,     \* the place of the set-up's last write: blueprint, rule
    installing,  \* TRUE while the command runs
    file,        \* the uploaded export
    donation,    \* what DDM has stored of it, by blueprint and variant
    metadata     \* what the task made of it

dataVars == <<written, installing, file, donation, metadata>>

\* What may be missing is a set of at most one element.
Nothing == {}
The(option) == CHOOSE x \in option : TRUE

-----------------------------------------------------------------------------
(* The blueprints and their rules.                                          *)

\* The fields each blueprint keeps, in the order of its rules.
KeptOfUsage ==
    [watch_history |-> <<"Date", "Link">>,
     posted_videos |-> <<"Date", "WhoCanView", "AllowComments", "AllowStitches",
                         "AllowDuets", "AllowSharingToStory", "ContentDisclosure",
                         "AIGeneratedContent", "Sound">>]

KeptOfBookmarks ==
    [activity_summary |-> <<"videosCommentedOnSinceAccountRegistration",
                            "videosSharedSinceAccountRegistration",
                            "videosWatchedToTheEndSinceAccountRegistration">>,
     effect_bookmarks |-> <<"Date", "EffectLink">>,
     hashtag_bookmarks |-> <<"Date", "(L|l)ink">>,
     video_bookmarks |-> <<"Date", "(L|l)ink">>,
     sound_bookmarks |-> <<"Date", "(L|l)ink">>]

KeptOfOthersMistaken ==
    [followed_accounts |-> <<"Date", "UserName">>,
     liked_videos |-> <<"(D|d)ate", "(L|l)ink">>,
     searches |-> <<"Date", "SearchTerm">>,
     comments |-> <<"(D|d)ate", "comment">>,
     shared_videos |-> <<"Date", "SharedContent", "Method", "(L|l)ink">>]
KeptOfOthers ==
    [followed_accounts |-> <<"Date", "UserName">>,
     liked_videos |-> <<"(D|d)ate", "(L|l)ink">>,
     searches |-> <<"Date", "SearchTerm">>,
     comments |-> <<"(D|d)ate", "(L|l)ink">>,
     shared_videos |-> <<"Date", "SharedContent", "Method", "(L|l)ink">>]

Kept(b) ==
    CASE b \in DOMAIN KeptOfUsage -> KeptOfUsage[b]
      [] b \in DOMAIN KeptOfBookmarks -> KeptOfBookmarks[b]
      [] OTHER -> KeptOfOthers[b]

\* The order in which the command creates the blueprints.
Blueprints ==
    <<"watch_history", "posted_videos", "activity_summary", "effect_bookmarks",
      "hashtag_bookmarks", "video_bookmarks", "sound_bookmarks",
      "followed_accounts", "liked_videos", "searches", "comments", "shared_videos">>

\* The fields a row must have for the blueprint to take it.
Expected(b) ==
    CASE b \in {"watch_history", "posted_videos"} -> {"Date", "Link"}
      [] b = "activity_summary" -> {"videosWatchedToTheEndSinceAccountRegistration"}
      [] b = "effect_bookmarks" -> {"EffectLink"}
      [] b = "followed_accounts" -> {"Date", "UserName"}
      [] b = "liked_videos" -> {"(D|d)ate"}
      [] b = "comments" -> {"comment"}
      [] b = "shared_videos" -> {"Date", "SharedContent"}
      [] OTHER -> {"Date"}

BlueprintNames == Range(Blueprints)

\* The writes of the command have places: <<0, 1>> is the project, <<0, 2>> the
\* uploader, <<k, 0>> the k-th blueprint, <<k, i>> the i-th of its rules.
NotBegun == <<0, 0>>
RulesOf(k) == IF k = 0 THEN 2 ELSE Len(Kept(Blueprints[k]))
Place == {p \in (0..Len(Blueprints)) \X Nat : p[2] <= RulesOf(p[1])}
NextWrite ==
    IF written[2] < RulesOf(written[1]) THEN <<written[1], written[2] + 1>>
    ELSE <<written[1] + 1, 0>>
LastWrite == <<Len(Blueprints), RulesOf(Len(Blueprints))>>

Complete == written = LastWrite
Made(k, i) == k < written[1] \/ (k = written[1] /\ i <= written[2])
ProjectMade == Made(0, 1)
BlueprintMade(b) == \E k \in 1..Len(Blueprints) : Blueprints[k] = b /\ Made(k, 0)
RuleMade(b, i) == \E k \in 1..Len(Blueprints) : Blueprints[k] = b /\ Made(k, i)

-----------------------------------------------------------------------------
(* The donor's file.                                                        *)

\* The keys of a row.
Keys(b, spelling) ==
    CASE b = "activity_summary" -> {"videosWatchedToTheEndSinceAccountRegistration"}
      [] b = "effect_bookmarks" -> {"Date", "EffectLink"}
      [] b = "followed_accounts" -> {"Date", "UserName"}
      [] b = "searches" -> {"Date", "SearchTerm"}
      [] b = "comments" -> {"date", "comment"}
      [] b = "shared_videos" -> {"Date", "SharedContent", "Method"}
      [] OTHER -> {IF spelling = "lower" THEN "date" ELSE "Date",
                   IF spelling = "upper" THEN "Link" ELSE "link"}

Value(key, row) ==
    CASE key \in {"Date", "date"} -> [form |-> row.form, at |-> row.at]
      [] key \in {"Link", "link", "SharedContent"} ->
             [target |-> row.target, video |-> row.video]
      [] OTHER -> "text"

\* The keys a rule's field stands for, and the name it is stored under.
Matching(field) ==
    CASE field = "(D|d)ate" -> {"Date", "date"}
      [] field = "(L|l)ink" -> {"Link", "link"}
      [] OTHER -> {field}
StoredAs(field, key, byPattern) == IF byPattern THEN field ELSE key

\* What a blueprint with these fields stores of a row, as a set of pairs, and
\* of all rows.
Extract(fields, keys, row, byPattern) ==
    UNION {{<<StoredAs(f, k, byPattern), Value(k, row)>> : k \in keys \cap Matching(f)} :
               f \in fields}
Extracted(fields, keys, rows, byPattern) ==
    {[i \in 1..Len(rows) |-> Extract(fields, keys, rows[i], byPattern)]}

\* The blueprint takes a file whose rows have the expected fields.
Takes(b, keys) == \A f \in Expected(b) : Matching(f) \cap keys # {}

FieldsNow(b) == {Kept(b)[i] : i \in {j \in 1..Len(Kept(b)) : RuleMade(b, j)}}

\* The variants, by suffix, in the order of preference.
Variants == <<"none", "_txt", "_old", "_old_api">>
VariantNames == Range(Variants)

\* A blueprint an administrator has added for older exports (a variant) takes
\* the lower-case spelling; it is not created by the command.
VariantFields == {"date", "link"}

StoredOf(b, keys, rows, byPattern) ==
    IF BlueprintMade(b) /\ Takes(b, keys)
    THEN Extracted(FieldsNow(b), keys, rows, byPattern) ELSE Nothing
StoredByVariant(keys, rows, byPattern) ==
    IF VariantFields \subseteq keys
    THEN Extracted(VariantFields, keys, rows, byPattern) ELSE Nothing

Upload(spelling, rows, suffix, byPattern) ==
    [b \in BlueprintNames |-> [s \in VariantNames |->
        IF s = "none" THEN StoredOf(b, Keys(b, spelling), rows, byPattern)
        ELSE IF s = suffix THEN StoredByVariant(Keys(b, spelling), rows, byPattern)
        ELSE Nothing]]

-----------------------------------------------------------------------------
(* Reading it back.                                                         *)

ReadLists == {"watch_history", "followed_accounts", "liked_videos",
              "shared_videos", "video_bookmarks", "comments"}
VideoLists == {"watch_history", "liked_videos", "video_bookmarks"}

\* The first variant that has been extracted.
Preferred(variants) ==
    LET found == {i \in 1..Len(Variants) : variants[Variants[i]] # Nothing}
    IN IF found = {} THEN Nothing
       ELSE variants[Variants[CHOOSE i \in found : \A j \in found : i <= j]]

NormaliseKeyMistaken(key) ==
    CASE key \in {"Date", "date"} -> "date"
      [] key \in {"Link", "link"} -> "link"
      [] OTHER -> key
\* Lower case, with the patterns of the rules resolved.
NormaliseKey(key) ==
    CASE key \in {"Date", "date", "(D|d)ate"} -> "date"
      [] key \in {"Link", "link", "(L|l)ink"} -> "link"
      [] key = "SharedContent" -> "sharedcontent"
      [] key = "UserName" -> "username"
      [] OTHER -> key

\* A date of a known form becomes a point in time, any other stays as it is.
ParseDate(date) == IF date.form = "other" THEN date ELSE [at |-> date.at]

CleanRecord(kept) ==
    {<<NormaliseKey(p[1]),
       IF NormaliseKey(p[1]) = "date" THEN ParseDate(p[2]) ELSE p[2]>> : p \in kept}
CleanRecords(option) ==
    {[i \in 1..Len(records) |-> CleanRecord(records[i])] : records \in option}

\* The number at the end of a link's path, if there is one.
ExtractId(link) == IF link.target = "elsewhere" THEN NoVideo ELSE link.video

\* A link that is missing is taken from what was shared.
AddVideoId(record) ==
    LET given == {p \in record : p[1] = "link"}
        shared == {<<"link", p[2]>> : p \in {q \in record : q[1] = "sharedcontent"}}
        links == IF given # {} THEN given ELSE shared
    IN record \cup links \cup {<<"video_id", ExtractId(p[2])>> : p \in links}

MapVideoRecords(option) ==
    {[i \in 1..Len(records) |-> AddVideoId(records[i])] : records \in option}

MapToUserData(b, option) ==
    IF b = "followed_accounts" THEN option ELSE MapVideoRecords(option)

\* get_user_data and get_video_donations: the same conversion of more or of
\* fewer lists; what is not asked for is missing.
ReadBack(lists, b) ==
    IF b \in lists
    THEN MapToUserData(b, CleanRecords(Preferred(donation[b])))
    ELSE Nothing
UserData(b) == ReadBack(ReadLists, b)
VideoDonations(b) == ReadBack(VideoLists, b)

HasVideoDonation ==
    \E b \in VideoLists, s \in VariantNames : donation[b][s] # Nothing

-----------------------------------------------------------------------------
(* Registering what was read.                                               *)

\* The list that shows each kind of interaction with a video.
Sources == [watched |-> "watch_history", liked |-> "liked_videos",
            bookmarked |-> "video_bookmarks"]

FieldOf(record, key) == {p[2] : p \in {q \in record : q[1] = key}}
RecordsOf(data, b) == UNION {Range(records) : records \in data[b]}
IdsOf(records) == (UNION {FieldOf(r, "video_id") : r \in records}) \ {NoVideo}
\* A date that was parsed; one that was not is of no use.
Times(record) == {d.at : d \in {e \in FieldOf(record, "date") : DOMAIN e = {"at"}}}
Latest(times) == {t \in times : \A u \in times : u <= t}

\* The latest interaction in the window.
LatestInWindow(times) == Latest(times \cap WatchWindow)

\* The records of a kind that show a video, and when those of any kind do.
Showing(data, v, k) ==
    {r \in RecordsOf(data, Sources[k]) : v \in FieldOf(r, "video_id")}
When(data, v) ==
    UNION {Times(r) : r \in UNION {Showing(data, v, k) : k \in DOMAIN Sources}}

ScannedVideos(data) ==
    UNION {IdsOf(RecordsOf(data, Sources[k])) : k \in DOMAIN Sources}

\* By video: the kinds of interaction, the last one, the last in the window.
Scan(data) ==
    [v \in ScannedVideos(data) |->
        [kinds |-> {k \in DOMAIN Sources : Showing(data, v, k) # {}},
         last |-> Latest(When(data, v)),
         window |-> LatestInWindow(When(data, v))]]

\* What one donation adds to the queue: a video, and when it was seen last.
QueueEntries(videos) ==
    {p \in (DOMAIN videos) \X WatchWindow : p[2] \in videos[p[1]].window}

\* The lists whose videos get a row before the scan, record by record: a
\* record without an ID raises an error, and the task ends.
Unreadable(data, b) == \E r \in RecordsOf(data, b) : IdsOf({r}) = {}

Registered(records, users, videos, queue) ==
    [videos |-> IdsOf(records), users |-> users, infos |-> videos, queue |-> queue]
Abandoned(records) == Registered(records, {}, <<>>, {})

\* Tried again, the task fails again: what it has written by then stays.
RegisterMetadata(data) ==
    IF Unreadable(data, "watch_history") THEN Abandoned({})
    ELSE IF Unreadable(data, "liked_videos")
         THEN Abandoned(RecordsOf(data, "watch_history"))
         ELSE Registered(UNION {RecordsOf(data, Sources[k]) : k \in DOMAIN Sources},
                         UNION {FieldOf(r, "username") : r \in RecordsOf(data, "followed_accounts")},
                         Scan(data), QueueEntries(Scan(data)))

-----------------------------------------------------------------------------
NothingStored == [b \in BlueprintNames |-> [s \in VariantNames |-> Nothing]]

\* No project yet, or one that was set up before.
DataInit ==
    /\ written \in {NotBegun, LastWrite} /\ installing = FALSE
    /\ file = Nothing /\ metadata = Nothing /\ donation = NothingStored

\* The command stops at once when there is a project.
RunSetUp ==
    /\ ~installing /\ ~ProjectMade
    /\ installing' = TRUE
    /\ UNCHANGED <<written, file, donation, metadata>>

\* One row is created after the other, each committed by itself.
WriteRow ==
    /\ installing
    /\ written' = NextWrite
    /\ installing' = (NextWrite # LastWrite)
    /\ UNCHANGED <<file, donation, metadata>>

SetUpDies ==
    /\ installing
    /\ installing' = FALSE
    /\ UNCHANGED <<written, file, donation, metadata>>

\* A participant uploads an export: the project is active from its first row.
Donate ==
    /\ file = Nothing /\ ProjectMade
    /\ \E spelling \in {"upper", "mixed", "lower"},
          rows \in IF Complete THEN Exports ELSE EarlyExports,
          suffix \in {"none", "_txt", "_old_api"}, byPattern \in BOOLEAN :
           /\ file' = {[spelling |-> spelling, rows |-> rows, suffix |-> suffix,
                         complete |-> Complete]}
           /\ donation' = Upload(spelling, rows, suffix, byPattern)
    /\ UNCHANGED <<written, installing, metadata>>

\* process_donation, with the scraper enabled.
ProcessDonation ==
    /\ file # Nothing /\ metadata = Nothing
    /\ metadata' = {RegisterMetadata([b \in ReadLists |-> UserData(b)])}
    /\ UNCHANGED <<written, installing, file, donation>>

DataNext == RunSetUp \/ WriteRow \/ SetUpDies \/ Donate \/ ProcessDonation
DataSpec == DataInit /\ [][DataNext]_dataVars

-----------------------------------------------------------------------------
(* Properties.                                                              *)

DataTypeOK ==
    /\ written \in Place /\ installing \in BOOLEAN
    /\ Cardinality(file) <= 1 /\ Cardinality(metadata) <= 1

\* What the reading must find of a row: its date and its video.
DateRead(row) == <<"date", IF row.form = "other" THEN [form |-> row.form, at |-> row.at]
                         ELSE [at |-> row.at]>>
VideoOf(row) == <<"video_id", IF row.target = "elsewhere" THEN NoVideo ELSE row.video>>
Linked(b) == b \in {"watch_history", "liked_videos", "video_bookmarks", "shared_videos"}

TakenBySome(b) ==
    LET keys == Keys(b, The(file).spelling)
    IN Takes(b, keys) \/ (The(file).suffix # "none" /\ VariantFields \subseteq keys)

\* What is to be recorded: by the rows of the file, the videos, and when each
\* was seen; by the lists that were taken, how.
KindsTaken == {k \in DOMAIN Sources : TakenBySome(Sources[k])}
SeenIn(rows) == {rows[i].video : i \in {j \in 1..Len(rows) : rows[j].target # "elsewhere"}}
SeenAt(rows, v) ==
    {rows[i].at : i \in {j \in 1..Len(rows) :
        rows[j].target # "elsewhere" /\ rows[j].video = v /\ rows[j].form # "other"}}

RecordedAsSeen(m, rows) ==
    /\ m.videos = (IF KindsTaken = {} THEN {} ELSE SeenIn(rows))
    /\ DOMAIN m.infos = m.videos
    /\ \A v \in m.videos :
           /\ m.infos[v].kinds = KindsTaken
           /\ m.infos[v].last = Latest(SeenAt(rows, v))
           /\ {q[2] : q \in {p \in m.queue : p[1] = v}}
                  = Latest(SeenAt(rows, v) \cap WatchWindow)
    /\ {q[1] : q \in m.queue} \subseteq m.videos

\* However an export spells its keys, whichever variant of a blueprint took it
\* and by whatever name DDM stored a field: a list that was taken is read back
\* row by row, in order, each with its one date and its one video; a list that
\* nobody took is missing; the reading of the videos alone agrees with the
\* reading of everything (services.py:272-288 promises so); and what is
\* registered, unless a record cannot be registered at all, is what the rows
\* show: each video once, how and when it was seen last, and queued by the last
\* time within the study period even if it was seen again after it.  For a
\* donation made with the complete set-up.
NothingLost ==
    (\E f \in file : f.complete) =>
        /\ \A b \in ReadLists :
               IF ~TakenBySome(b) THEN UserData(b) = Nothing
               ELSE /\ Len(The(UserData(b))) = Len(The(file).rows)
                    /\ \A i \in 1..Len(The(file).rows) :
                           LET record == The(UserData(b))[i]
                               row == The(file).rows[i]
                           IN /\ {p \in record : p[1] = "date"} = {DateRead(row)}
                              /\ Linked(b) => {p \in record : p[1] = "video_id"} = {VideoOf(row)}
        /\ \A b \in VideoLists : VideoDonations(b) = UserData(b)
        /\ HasVideoDonation <=> \E b \in VideoLists : UserData(b) # Nothing
        /\ \A m \in metadata :
               (\A i \in 1..Len(The(file).rows) : The(file).rows[i].target # "elsewhere")
                   => RecordedAsSeen(m, The(file).rows)

\* Whenever the upload happens, even while the project is being set up, the
\* text of a comment and the link of an own video are not stored: the
\* descriptions shown to the participant say so
\* (create_tiktok_project.py:80-82, 443-444).
ContentSpared ==
    file # Nothing =>
        /\ \A v \in VariantNames : \A records \in donation["comments"][v] :
               \A i \in 1..Len(records) : \A p \in records[i] : p[1] # "comment"
        /\ \A records \in donation["posted_videos"]["none"] :
               \A i \in 1..Len(records) : \A p \in records[i] : NormaliseKey(p[1]) # "link"

\* The documentation: the task registers a donation so that any new video
\* discovered in it enters the registry (docs/3_datadonation.md:46-48).
\* Here: once the project is completely set up.
VideosEnterRegistry ==
    (\E f \in file : f.complete) =>
    \A m \in metadata : \A b \in VideoLists : \A records \in UserData(b) :
        IdsOf(Range(records)) \subseteq m.videos
=============================================================================
