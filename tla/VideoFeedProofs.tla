----------------------------- MODULE VideoFeedProofs -----------------------------
(****************************************************************************)
(* Proofs about what the Research API is asked for and what is served of    *)
(* it.  VideoFeed: what is known of a video reaches the consumer, whoever   *)
(* writes it, and a query stores a video once, with its keywords, however   *)
(* often its credentials run out.  MonitoredItems: a run of the command     *)
(* that ends leaves what its file says.                                     *)
(****************************************************************************)
EXTENDS VideoFeed, MonitoredItems, WellFoundedInduction, TLAPS

-----------------------------------------------------------------------------
(* The inductive invariants                                                *)

CallType ==
    [at : Stages, video : Clips \cup {0}, created : BOOLEAN,
     key : 1..Credentials, seen : SUBSET Clips, stored : [Clips -> Nat],
     read : BOOLEAN, names : SUBSET Keywords, kept : SUBSET Keywords]

WriteType ==
    [kind : {"none", "donation", "purge", "scrape"}, video : Clips \cup {0},
     began : Nat, read : Donation, new : Donation]

CopyType ==
    [priority : 0..4, last : Nat, datapods : BOOLEAN,
     source : {"none", "scraped", "research_api"}]

\* Every variable holds a value of its type; what is at work on a video has
\* one, and it has a row.
StateTypes ==
    /\ videos \subseteq Clips /\ apiInfos \subseteq videos
    /\ scraped \subseteq videos /\ inDatapods \subseteq videos
    /\ updatedAt \in [Clips -> Nat] /\ shown \in [Clips -> Donation]
    /\ monitored \subseteq Keywords /\ linked \subseteq Mentions
    /\ begun \in Nat /\ writes \in Nat
    /\ clock \in Nat /\ since \in Int /\ unread \subseteq videos
    /\ copy \in [Clips -> CopyType]

CallTypes ==
    /\ call \in [Calls -> CallType]
    /\ \A c \in Calls :
           call[c].at \in {"look", "infos", "mark", "rest"}
               => call[c].video \in videos

WriterTypes ==
    /\ writer \in [OtherWriters -> WriteType]
    /\ \A d \in OtherWriters :
           writer[d].kind # "none" => writer[d].video \in videos

Types == StateTypes /\ CallTypes /\ WriterTypes

\* What a query has seen is what it has stored, and linked to all keywords
\* that were monitored all the time; the names it has read include those.
QueryInv ==
    \A c \in Calls :
        /\ \A v \in Clips :
               call[c].stored[v] = IF v \in call[c].seen THEN 1 ELSE 0
        /\ call[c].at \in {"look", "infos", "mark", "rest"}
               => call[c].video \notin call[c].seen
        /\ call[c].kept \subseteq monitored
        /\ call[c].read => call[c].kept \subseteq call[c].names
        /\ \A m \in Mentions :
               m[1] \in call[c].seen /\ m[2] \in call[c].kept => m \in linked

\* What changes after this time the next poll asks for.
Base == IF unread = {} THEN since ELSE clock - 1 - Overlap

\* A write under way began late enough, and so was created what a query has
\* created and not yet stored.
LateEnough ==
    /\ since < clock /\ Base < clock /\ clock >= 1
    /\ \A d \in OtherWriters :
           writer[d].kind # "none" => writer[d].began > Base
    /\ \A c \in Calls :
           call[c].at \in {"look", "infos"} /\ call[c].created
               => updatedAt[call[c].video] > Base

Announced(v) ==
    \/ copy[v] = Served(v)
    \/ updatedAt[v] > Base
    \/ v \in unread /\ updatedAt[v] > since
    \/ \E c \in Calls : call[c].at = "mark" /\ call[c].video = v

AllAnnounced == \A v \in videos \ (interrupted \cup overwritten) : Announced(v)

Told == LateEnough /\ AllAnnounced

-----------------------------------------------------------------------------
(* What is served                                                          *)

\* The priorities of the filter are mutually exclusive and cover every video.
LEMMA OnePriority ==
    ASSUME NEW v
    PROVE  {p \in 1..4 : PriorityCondition(v, p)} = {Annotated(v)}
<1>1. \E q \in 1..4 : \A p \in 1..4 : PriorityCondition(v, p) <=> p = q
  <2>1. CASE v \in apiInfos /\ Donated(v)
    BY <2>1 DEF PriorityCondition
  <2>2. CASE v \in apiInfos /\ ~Donated(v)
    BY <2>2 DEF PriorityCondition
  <2>3. CASE v \notin apiInfos /\ InWindow(v)
    BY <2>3 DEF PriorityCondition
  <2>4. CASE v \notin apiInfos /\ ~InWindow(v)
    BY <2>4 DEF PriorityCondition
  <2>5. QED
    BY <2>1, <2>2, <2>3, <2>4
<1>2. PICK q \in 1..4 : \A p \in 1..4 : PriorityCondition(v, p) <=> p = q
  BY <1>1
<1>3. Annotated(v) = q
  <2>1. CASE q = 1
    BY <1>2, <2>1 DEF Annotated
  <2>2. CASE q \in 2..4
    BY <1>2, <2>2 DEF Annotated
  <2>3. QED
    BY <2>1, <2>2
<1>4. QED
  BY <1>2, <1>3

LEMMA ServedType ==
    ASSUME StateTypes, NEW v \in Clips
    PROVE  Served(v) \in CopyType
<1>1. Annotated(v) \in 1..4
  BY OnePriority
<1>2. Source(v) \in {"none", "scraped", "research_api"}
  BY DEF Source
<1>3. shown[v].last \in Nat
  BY DEF StateTypes, Donation
<1>4. QED
  BY <1>1, <1>2, <1>3 DEF Served, Unknown, CopyType

-----------------------------------------------------------------------------
(* Types                                                                   *)

LEMMA InitTypes == FeedInit => Types
<1> SUFFICES ASSUME FeedInit
             PROVE  Types
  OBVIOUS
<1> USE FeedAssumption
<1>1. NoInfos \in Donation /\ NoCall.at = "idle" /\ NoWrite.kind = "none"
  BY DEF NoInfos, Donation, NoCall, NoWrite
<1>2. StateTypes
  BY <1>1 DEF FeedInit, StateTypes, Unknown, CopyType
<1>3. NoCall \in CallType
  BY DEF NoCall, CallType, Stages
<1>4. CallTypes
  BY <1>1, <1>3 DEF FeedInit, CallTypes
<1>5. WriterTypes
  BY <1>1 DEF FeedInit, WriterTypes, NoWrite, WriteType
<1>6. QED
  BY <1>2, <1>4, <1>5 DEF Types

\* A step of a query changes its own record, to one of the type.
LEMMA CallTyped ==
    ASSUME CallTypes, NEW c \in Calls, NEW r \in CallType,
           call' = [call EXCEPT ![c] = r],
           r.at \in {"look", "infos", "mark", "rest"} => r.video \in videos',
           videos \subseteq videos'
    PROVE  CallTypes'
BY DEF CallTypes

\* Stages is a set of constants, and names of stages are different.
LEMMA StepTypes ==
    ASSUME Types, NEW c \in Calls,
           \/ BeginQuery(c) \/ LookForInfos(c) \/ CreateInfos(c)
           \/ MarkChanged(c) \/ UseNextKey(c) \/ EndQuery(c)
    PROVE  Types'
<1> USE FeedAssumption DEF Types
<1>1. call[c] \in CallType /\ call[c].key \in Nat
  BY DEF CallTypes, CallType
<1>2. CASE BeginQuery(c)
  <2>1. NoCall \in CallType
    BY DEF NoCall, CallType, Stages
  <2>2. [NoCall EXCEPT !.at = "pages", !.kept = monitored] \in CallType
    BY <2>1 DEF CallType, Stages, StateTypes
  <2>3. CallTypes'
    BY <1>2, <2>2, CallTyped DEF BeginQuery, factVars, NoCall
  <2>4. QED
    BY <1>2, <2>3 DEF BeginQuery, StateTypes, WriterTypes, factVars,
       keywordVars, consumerVars
<1>3. CASE LookForInfos(c)
  <2>1. CallTypes'
    BY <1>1, <1>3 DEF LookForInfos, factVars, CallTypes, CallType, Stages
  <2>2. QED
    BY <1>3, <2>1 DEF LookForInfos, StateTypes, WriterTypes, factVars,
       keywordVars, consumerVars
<1>4. CASE CreateInfos(c)
  <2>1. CallTypes'
    BY <1>1, <1>4 DEF CreateInfos, CallTypes, CallType, Stages
  <2>2. StateTypes'
    BY <1>4 DEF CreateInfos, StateTypes, keywordVars, consumerVars, CallTypes
  <2>3. QED
    BY <1>4, <2>1, <2>2 DEF CreateInfos, WriterTypes
<1>5. CASE MarkChanged(c)
  <2>1. CallTypes'
    BY <1>1, <1>5 DEF MarkChanged, factVars, CallTypes, CallType, Stages
  <2>2. StateTypes'
    BY <1>5 DEF MarkChanged, Marked, StateTypes, factVars, keywordVars,
       consumerVars, CallTypes
  <2>3. QED
    BY <1>5, <2>1, <2>2 DEF MarkChanged, WriterTypes, factVars
<1>6. CASE UseNextKey(c)
  <2>1. Restarted(c) \in CallType /\ Restarted(c).at = "pages"
    BY <1>1, <1>6 DEF UseNextKey, Restarted, CallType
  <2>2. CallTypes'
    BY <1>6, <2>1, CallTyped DEF UseNextKey, factVars
  <2>3. QED
    BY <1>6, <2>2 DEF UseNextKey, StateTypes, WriterTypes, factVars,
       keywordVars, consumerVars
<1>7. CASE EndQuery(c)
  <2>1. NoCall \in CallType /\ NoCall.at = "idle"
    BY DEF NoCall, CallType, Stages
  <2>2. CallTypes'
    BY <1>7, <2>1, CallTyped DEF EndQuery, factVars
  <2>3. QED
    BY <1>7, <2>2 DEF EndQuery, StateTypes, WriterTypes, factVars,
       keywordVars, consumerVars
<1>8. QED
  BY <1>2, <1>3, <1>4, <1>5, <1>6, <1>7

LEMMA DeliverTypes ==
    ASSUME Types, NEW c \in Calls, NEW v \in Clips, Deliver(c, v)
    PROVE  Types'
<1> USE DEF Types
<1> DEFINE created == v \notin videos
<1>1. CallTypes'
  <2>1. call[c] \in CallType /\ created \in BOOLEAN
    BY DEF CallTypes
  <2>2. [call[c] EXCEPT !.at = "look", !.video = v, !.created = created]
            \in CallType
    <3> HIDE DEF created
    <3> QED
      BY <2>1 DEF CallType, Stages
  <2>3. QED
    BY <2>2, CallTyped DEF Deliver, CallTypes
<1>2. StateTypes'
  BY DEF Deliver, StateTypes, keywordVars, consumerVars
<1>3. WriterTypes'
  BY DEF Deliver, WriterTypes
<1>4. QED
  BY <1>1, <1>2, <1>3

\* What the storing of video v leaves of a query's record q, with the keywords
\* it knows.
Rested(q, v, names) ==
    [q EXCEPT !.at = "pages", !.video = 0, !.created = FALSE,
              !.stored[v] = @ + 1, !.seen = @ \cup {v},
              !.names = names, !.read = TRUE]

LEMMA RestedTyped ==
    ASSUME NEW q \in CallType, NEW v \in Clips, NEW names,
           names \subseteq Keywords
    PROVE  /\ Rested(q, v, names) \in CallType
           /\ Rested(q, v, names).at = "pages"
           /\ Rested(q, v, names).stored = [q.stored EXCEPT ![v] = @ + 1]
           /\ Rested(q, v, names).seen = q.seen \cup {v}
           /\ Rested(q, v, names).kept = q.kept
           /\ Rested(q, v, names).names = names
<1>1. [q.stored EXCEPT ![v] = @ + 1] \in [Clips -> Nat]
  BY DEF CallType
<1>2. q.seen \cup {v} \subseteq Clips
  BY DEF CallType
<1>3. /\ Rested(q, v, names) \in CallType
      /\ Rested(q, v, names).at = "pages"
  BY <1>1, <1>2 DEF Rested, CallType, Stages
<1>4. /\ Rested(q, v, names).stored = [q.stored EXCEPT ![v] = @ + 1]
      /\ Rested(q, v, names).seen = q.seen \cup {v}
      /\ Rested(q, v, names).kept = q.kept
      /\ Rested(q, v, names).names = names
  BY DEF Rested, CallType
<1>5. QED
  BY <1>3, <1>4

LEMMA RestRecord ==
    ASSUME Types, NEW c \in Calls, StoreRest(c)
    PROVE  LET r == Rested(call[c], call[c].video, KnownKeywords(c)) IN
           /\ call' = [call EXCEPT ![c] = r]
           /\ call[c] \in CallType /\ call[c].video \in Clips
           /\ KnownKeywords(c) \subseteq Keywords
<1> DEFINE v == call[c].video
           names == KnownKeywords(c)
<1>1. call[c] \in CallType /\ v \in Clips /\ DOMAIN call = Calls
  BY DEF StoreRest, Types, CallTypes, StateTypes
<1>2. names \subseteq Keywords
  BY <1>1 DEF KnownKeywords, CallType, Types, StateTypes
<1>3. call' = [call EXCEPT ![c].at = "pages", ![c].video = 0,
                           ![c].created = FALSE, ![c].stored[v] = @ + 1,
                           ![c].seen = @ \cup {v}, ![c].names = names,
                           ![c].read = TRUE]
  BY DEF StoreRest
<1> HIDE DEF v, names
<1>4. call' = [call EXCEPT ![c] =
                  [call[c] EXCEPT !.at = "pages", !.video = 0,
                                  !.created = FALSE, !.stored[v] = @ + 1,
                                  !.seen = @ \cup {v}, !.names = names,
                                  !.read = TRUE]]
  BY <1>1, <1>3 DEF CallType
<1>6. call' = [call EXCEPT ![c] = Rested(call[c], v, names)]
  BY <1>4 DEF Rested
<1>7. QED
  BY <1>1, <1>2, <1>6 DEF v, names

LEMMA StoreRestTypes ==
    ASSUME Types, NEW c \in Calls, StoreRest(c)
    PROVE  Types'
<1>1. CallTypes'
  <2> DEFINE r == Rested(call[c], call[c].video, KnownKeywords(c))
  <2>1. call' = [call EXCEPT ![c] = r]
    BY RestRecord
  <2>2. r \in CallType /\ r.at = "pages"
    <3>1. /\ call[c] \in CallType /\ call[c].video \in Clips
          /\ KnownKeywords(c) \subseteq Keywords
      BY RestRecord
    <3> DEFINE q == call[c]
               v == call[c].video
               names == KnownKeywords(c)
    <3>2. q \in CallType /\ v \in Clips /\ names \subseteq Keywords
      BY <3>1
    <3> HIDE DEF q, v, names
    <3>3. Rested(q, v, names) \in CallType
      BY <3>2, RestedTyped
    <3>5. Rested(q, v, names).at = "pages"
      BY <3>2 DEF Rested, CallType
    <3>4. QED
      BY <3>3, <3>5 DEF q, v, names
  <2> HIDE DEF r
  <2>3. QED
    BY <2>1, <2>2, CallTyped DEF StoreRest, Types, factVars
<1>2. StateTypes'
  BY DEF StoreRest, Matched, Types, StateTypes, factVars, consumerVars
<1>3. QED
  BY <1>1, <1>2 DEF StoreRest, Types, WriterTypes, factVars

-----------------------------------------------------------------------------
LEMMA OtherTypes ==
    ASSUME Types, NEW v \in Clips, Register(v) \/ MarkDatapods(v)
    PROVE  Types'
<1> USE DEF Types
<1>1. StateTypes'
  BY DEF Register, MarkDatapods, StateTypes, keywordVars, consumerVars
<1>2. call' = call /\ writer' = writer /\ videos \subseteq videos'
  BY DEF Register, MarkDatapods
<1>3. QED
  BY <1>1, <1>2 DEF CallTypes, WriterTypes

\* A write that begins holds what was read and what it will leave.
LEMMA StartTypes ==
    ASSUME Types, NEW d \in OtherWriters, NEW v \in Clips,
           NEW kind \in {"donation", "purge", "scrape"}, NEW new \in Donation,
           StartWrite(d, kind, v, new)
    PROVE  Types'
<1> USE DEF Types
<1>1. shown[v] \in Donation /\ clock \in Nat
  BY DEF StateTypes
<1>2. WriterTypes'
  BY <1>1 DEF StartWrite, WriterTypes, WriteType, factVars
<1>3. QED
  BY <1>2 DEF StartWrite, StateTypes, CallTypes, factVars, keywordVars,
     consumerVars

LEMMA WriterStarts ==
    ASSUME StateTypes, NEW d \in OtherWriters, NEW v \in Clips,
           RecordDonation(d, v) \/ StartPurge(d, v) \/ StartStore(d, v)
    PROVE  \E kind \in {"donation", "purge", "scrape"}, new \in Donation :
               StartWrite(d, kind, v, new)
<1>1. shown[v] \in Donation
  BY DEF StateTypes
<1>2. CASE RecordDonation(d, v)
  <2>1. \A i \in Interactions : Later(shown[v], i) \in Donation
    BY <1>1, FeedAssumption DEF Later, Donation
  <2>2. QED
    BY <1>2, <2>1 DEF RecordDonation
<1>3. CASE StartPurge(d, v)
  <2>1. NoInfos \in Donation
    BY DEF NoInfos, Donation
  <2>2. QED
    BY <1>3, <2>1 DEF StartPurge
<1>4. CASE StartStore(d, v)
  BY <1>1, <1>4 DEF StartStore
<1>5. QED
  BY <1>2, <1>3, <1>4

LEMMA CommitTypes ==
    ASSUME Types, NEW d \in OtherWriters, CommitWrite(d)
    PROVE  Types'
<1> USE DEF Types
<1>1. /\ writer[d] \in WriteType /\ writer[d].video \in videos
      /\ writer[d].video \in Clips
  BY DEF CommitWrite, WriterTypes, StateTypes
<1>2. Recorded(writer[d]) \in Donation
  BY <1>1 DEF Recorded, StateTypes, WriteType
<1>3. WriterTypes'
  <2>1. NoWrite \in WriteType /\ NoWrite.kind = "none"
    BY DEF NoWrite, WriteType, NoInfos, Donation
  <2>2. QED
    BY <2>1 DEF CommitWrite, WriterTypes
<1>4. StateTypes'
  BY <1>1, <1>2 DEF CommitWrite, StateTypes, WriteType, keywordVars,
     consumerVars
<1>5. QED
  BY <1>3, <1>4 DEF CommitWrite, CallTypes

LEMMA PollTypes ==
    ASSUME Types, StartPoll \/ ReadPage
    PROVE  Types'
<1> USE FeedAssumption DEF Types
<1>1. CallTypes' /\ WriterTypes'
  BY DEF StartPoll, ReadPage, CallTypes, WriterTypes, factVars
<1>2. CASE StartPoll
  BY <1>1, <1>2 DEF StartPoll, StateTypes, factVars, keywordVars
<1>3. CASE ReadPage
  <2>1. PICK v \in unread :
            /\ copy' = IF Reported(v) THEN [copy EXCEPT ![v] = Served(v)] ELSE copy
            /\ unread' = unread \ {v}
            /\ since' = IF unread = {v} THEN clock - 1 - Overlap ELSE since
            /\ UNCHANGED <<factVars, updatedAt, keywordVars, call, begun, writer,
                           writes, clock, interrupted, overwritten>>
    BY <1>3 DEF ReadPage
  <2>2. v \in Clips
    BY DEF StateTypes
  <2>3. copy' \in [Clips -> CopyType]
    BY <2>1, <2>2, ServedType DEF StateTypes
  <2>4. QED
    BY <1>1, <2>1, <2>3 DEF StateTypes, factVars, keywordVars
<1>4. QED
  BY <1>2, <1>3

LEMMA StutterTypes ==
    ASSUME Types, UNCHANGED feedVars
    PROVE  Types'
BY DEF Types, StateTypes, CallTypes, WriterTypes, feedVars, factVars,
   keywordVars, consumerVars

\* Every step keeps the types.
LEMMA NextTypes == Types /\ [FeedNext]_feedVars => Types'
<1> SUFFICES ASSUME Types, [FeedNext]_feedVars
             PROVE  Types'
  OBVIOUS
<1>1. ASSUME NEW c \in Calls, Query(c)
      PROVE  Types'
  BY <1>1, StepTypes, DeliverTypes, StoreRestTypes DEF Query
<1>2. ASSUME NEW v \in Clips, Register(v) \/ MarkDatapods(v)
      PROVE  Types'
  BY <1>2, OtherTypes
<1>3. ASSUME NEW v \in Clips, NEW d \in OtherWriters,
             RecordDonation(d, v) \/ StartPurge(d, v) \/ StartStore(d, v)
      PROVE  Types'
  BY <1>3, WriterStarts, StartTypes DEF Types
<1>4. ASSUME NEW k \in Keywords, SwitchKeyword(k)
      PROVE  Types'
  <2>1. CallTypes'
    BY <1>4 DEF SwitchKeyword, CallTypes, CallType, factVars, Types
  <2>2. QED
    BY <1>4, <2>1 DEF SwitchKeyword, StateTypes, WriterTypes, factVars,
       consumerVars, Types
<1>5. QED
  BY <1>1, <1>2, <1>3, <1>4, CommitTypes, PollTypes, StutterTypes
     DEF FeedNext

\* The type invariant the runs check.
LEMMA TypesImply == Types => FeedTypeOK
BY OnePriority DEF Types, StateTypes, CallTypes, CallType, FeedTypeOK

\* Every variable keeps its type, and every video has one priority.
THEOREM FeedTyped == FeedSpec => []FeedTypeOK
<1>1. FeedSpec => []Types
  BY InitTypes, NextTypes, PTL DEF FeedSpec
<1>2. QED
  BY <1>1, TypesImply, PTL

-----------------------------------------------------------------------------
(* What a query stores                                                     *)

OneQuery(q, on, links) ==
    /\ \A v \in Clips : q.stored[v] = IF v \in q.seen THEN 1 ELSE 0
    /\ q.at \in {"look", "infos", "mark", "rest"} => q.video \notin q.seen
    /\ q.kept \subseteq on
    /\ q.read => q.kept \subseteq q.names
    /\ \A m \in Mentions : m[1] \in q.seen /\ m[2] \in q.kept => m \in links

LEMMA QueryParts == QueryInv <=> \A c \in Calls : OneQuery(call[c], monitored, linked)
BY DEF QueryInv, OneQuery

\* It is enough that the record of one query is right.
LEMMA OneQueryKept ==
    ASSUME CallTypes, QueryInv, NEW c \in Calls, NEW r,
           call' = [call EXCEPT ![c] = r], monitored' = monitored,
           linked \subseteq linked', OneQuery(r, monitored', linked')
    PROVE  QueryInv'
<1>1. \A q \in Calls : OneQuery(call[q], monitored, linked)
  BY QueryParts
<1>2. ASSUME NEW q \in Calls
      PROVE  OneQuery(call'[q], monitored', linked')
  <2>1. CASE q = c
    <3>1. call'[q] = r
      BY <2>1 DEF CallTypes
    <3>2. QED
      BY <3>1 DEF OneQuery
  <2>2. CASE q # c
    <3>1. call'[q] = call[q]
      BY <2>2 DEF CallTypes
    <3>2. QED
      BY <1>1, <3>1 DEF OneQuery
  <2>3. QED
    BY <2>1, <2>2
<1>3. QED
  BY <1>2 DEF QueryInv, OneQuery

LEMMA StepStores ==
    ASSUME Types, QueryInv, NEW c \in Calls,
           \/ BeginQuery(c) \/ LookForInfos(c) \/ CreateInfos(c)
           \/ MarkChanged(c) \/ UseNextKey(c) \/ EndQuery(c)
    PROVE  QueryInv'
<1> USE DEF Types
<1>1. call[c] \in CallType /\ OneQuery(call[c], monitored, linked)
  BY QueryParts DEF CallTypes
<1>2. /\ NoCall.seen = {} /\ NoCall.kept = {} /\ NoCall.at = "idle"
      /\ NoCall.read = FALSE /\ \A v \in Clips : NoCall.stored[v] = 0
  BY DEF NoCall
<1>3. CASE BeginQuery(c)
  <2> DEFINE r == [NoCall EXCEPT !.at = "pages", !.kept = monitored]
  <2>1. /\ r.seen = {} /\ r.kept = monitored /\ r.at = "pages"
        /\ r.read = FALSE /\ \A v \in Clips : r.stored[v] = 0
    BY <1>2 DEF NoCall
  <2>2. /\ call' = [call EXCEPT ![c] = r] /\ monitored' = monitored
        /\ linked' = linked
    BY <1>3 DEF BeginQuery, keywordVars
  <2> HIDE DEF r
  <2>3. OneQuery(r, monitored', linked')
    BY <2>1, <2>2 DEF OneQuery
  <2>4. QED
    BY <2>2, <2>3, OneQueryKept
<1>4. CASE LookForInfos(c)
  <2> DEFINE r == [call[c] EXCEPT !.at = IF call[c].video \in apiInfos
                                         THEN "rest" ELSE "infos"]
  <2>1. /\ call' = [call EXCEPT ![c] = r] /\ monitored' = monitored
        /\ linked' = linked
    BY <1>4 DEF LookForInfos, keywordVars, CallTypes
  <2>2. OneQuery(r, monitored', linked')
    BY <1>1, <1>4, <2>1 DEF LookForInfos, OneQuery, CallType
  <2> HIDE DEF r
  <2>3. QED
    BY <2>1, <2>2, OneQueryKept
<1>5. CASE CreateInfos(c)
  <2> DEFINE r == [call[c] EXCEPT !.at = IF call[c].created
                                         THEN "rest" ELSE "mark"]
  <2>1. /\ call' = [call EXCEPT ![c] = r] /\ monitored' = monitored
        /\ linked' = linked
    BY <1>5 DEF CreateInfos, keywordVars, CallTypes
  <2>2. OneQuery(r, monitored', linked')
    BY <1>1, <1>5, <2>1 DEF CreateInfos, OneQuery, CallType
  <2> HIDE DEF r
  <2>3. QED
    BY <2>1, <2>2, OneQueryKept
<1>6. CASE MarkChanged(c)
  <2> DEFINE r == [call[c] EXCEPT !.at = "rest"]
  <2>1. /\ call' = [call EXCEPT ![c] = r] /\ monitored' = monitored
        /\ linked' = linked
    BY <1>6 DEF MarkChanged, keywordVars, CallTypes
  <2>2. OneQuery(r, monitored', linked')
    BY <1>1, <1>6, <2>1 DEF MarkChanged, OneQuery, CallType
  <2> HIDE DEF r
  <2>3. QED
    BY <2>1, <2>2, OneQueryKept
<1>7. CASE UseNextKey(c)
  <2>1. /\ call' = [call EXCEPT ![c] = Restarted(c)] /\ monitored' = monitored
        /\ linked' = linked
    BY <1>7 DEF UseNextKey, keywordVars
  <2> DEFINE r == [call[c] EXCEPT !.key = @ + 1]
  <2>2. OneQuery(r, monitored', linked')
    BY <1>1, <1>7, <2>1 DEF UseNextKey, OneQuery, CallType
  <2>3. call' = [call EXCEPT ![c] = r]
    BY <2>1 DEF Restarted
  <2> HIDE DEF r
  <2>4. QED
    BY <2>1, <2>2, <2>3, OneQueryKept
<1>8. CASE EndQuery(c)
  <2>1. /\ call' = [call EXCEPT ![c] = NoCall] /\ monitored' = monitored
        /\ linked' = linked
    BY <1>8 DEF EndQuery, keywordVars
  <2>2. OneQuery(NoCall, monitored', linked')
    BY <1>2 DEF OneQuery, NoCall
  <2>3. QED
    BY <2>1, <2>2, OneQueryKept
<1>9. QED
  BY <1>3, <1>4, <1>5, <1>6, <1>7, <1>8

LEMMA DeliverStores ==
    ASSUME Types, QueryInv, NEW c \in Calls, NEW v \in Clips, Deliver(c, v)
    PROVE  QueryInv'
<1> USE DEF Types
<1> DEFINE created == v \notin videos
           r == [call[c] EXCEPT !.at = "look", !.video = v,
                                !.created = created]
<1>1. call[c] \in CallType /\ OneQuery(call[c], monitored, linked) /\ v \notin call[c].seen
  BY QueryParts DEF CallTypes, Deliver
<1>2. /\ call' = [call EXCEPT ![c] = r] /\ monitored' = monitored
      /\ linked' = linked
  BY DEF Deliver, keywordVars, CallTypes
<1> HIDE DEF created
<1>3. OneQuery(r, monitored', linked')
  BY <1>1, <1>2 DEF OneQuery, CallType
<1> HIDE DEF r
<1>4. QED
  BY <1>2, <1>3, OneQueryKept

\* The keywords a query knows include all that were monitored throughout: so
\* the video it stores is linked to them.
LEMMA RestStores ==
    ASSUME Types, QueryInv, NEW c \in Calls, StoreRest(c)
    PROVE  QueryInv'
<1> DEFINE v == call[c].video
           r == Rested(call[c], v, KnownKeywords(c))
<1>1. /\ call[c] \in CallType /\ OneQuery(call[c], monitored, linked)
      /\ v \in Clips /\ v \notin call[c].seen
  BY QueryParts, RestRecord DEF StoreRest, OneQuery
<1>2. /\ call' = [call EXCEPT ![c] = r] /\ monitored' = monitored
      /\ linked' = linked \cup Matched(c)
  BY RestRecord DEF StoreRest
<1>3. call[c].kept \subseteq KnownKeywords(c)
  BY <1>1 DEF OneQuery, KnownKeywords
<1>4. /\ r.seen = call[c].seen \cup {v} /\ r.kept = call[c].kept
      /\ r.names = KnownKeywords(c) /\ r.at = "pages"
      /\ r.stored = [call[c].stored EXCEPT ![v] = @ + 1]
  <2>1. /\ call[c] \in CallType /\ v \in Clips
        /\ KnownKeywords(c) \subseteq Keywords
    BY RestRecord
  <2>2. QED
    BY <2>1, RestedTyped
<1> HIDE DEF r
<1>5. \A u \in Clips : r.stored[u] = IF u \in r.seen THEN 1 ELSE 0
  BY <1>1, <1>4 DEF OneQuery, CallType
<1>6. \A m \in Mentions :
          m[1] \in r.seen /\ m[2] \in r.kept => m \in linked'
  <2>1. \A m \in Mentions :
            m[1] = v /\ m[2] \in KnownKeywords(c) => m \in Matched(c)
    BY DEF Matched
  <2>2. QED
    BY <1>1, <1>2, <1>3, <1>4, <2>1 DEF OneQuery
<1>7. OneQuery(r, monitored', linked')
  BY <1>1, <1>2, <1>3, <1>4, <1>5, <1>6 DEF OneQuery
<1>8. QED
  BY <1>2, <1>7, OneQueryKept DEF Types

LEMMA SwitchStores ==
    ASSUME Types, QueryInv, NEW k \in Keywords, SwitchKeyword(k)
    PROVE  QueryInv'
<1>1. ASSUME NEW c \in Calls
      PROVE  OneQuery(call'[c], monitored', linked')
  <2> DEFINE r == [call[c] EXCEPT !.kept = @ \ {k}]
  <2>1. call[c] \in CallType /\ OneQuery(call[c], monitored, linked) /\ call'[c] = r
    BY QueryParts DEF SwitchKeyword, Types, CallTypes
  <2>2. /\ r.kept = call[c].kept \ {k} /\ r.seen = call[c].seen
        /\ r.stored = call[c].stored /\ r.at = call[c].at
        /\ r.video = call[c].video /\ r.read = call[c].read
        /\ r.names = call[c].names
    BY <2>1 DEF CallType
  <2>3. monitored \ {k} \subseteq monitored' /\ linked' = linked
    BY DEF SwitchKeyword
  <2> HIDE DEF r
  <2>4. QED
    BY <2>1, <2>2, <2>3 DEF OneQuery
<1>2. QED
  BY <1>1 DEF QueryInv, OneQuery

LEMMA NextStores == Types /\ QueryInv /\ [FeedNext]_feedVars => QueryInv'
<1> SUFFICES ASSUME Types, QueryInv, [FeedNext]_feedVars
             PROVE  QueryInv'
  OBVIOUS
<1>1. ASSUME NEW c \in Calls, Query(c)
      PROVE  QueryInv'
  BY <1>1, StepStores, DeliverStores, RestStores DEF Query
<1>2. ASSUME UNCHANGED <<call, keywordVars>>
      PROVE  QueryInv'
  BY <1>2 DEF QueryInv, keywordVars
<1>3. ASSUME NEW v \in Clips, Register(v) \/ MarkDatapods(v)
      PROVE  QueryInv'
  BY <1>2, <1>3 DEF Register, MarkDatapods
<1>4. ASSUME NEW v \in Clips, NEW d \in OtherWriters,
             RecordDonation(d, v) \/ StartPurge(d, v) \/ StartStore(d, v)
      PROVE  QueryInv'
  BY <1>2, <1>4 DEF RecordDonation, StartPurge, StartStore, StartWrite
<1>5. ASSUME NEW d \in OtherWriters, CommitWrite(d)
      PROVE  QueryInv'
  BY <1>2, <1>5 DEF CommitWrite
<1>6. CASE StartPoll \/ ReadPage
  BY <1>2, <1>6 DEF StartPoll, ReadPage
<1>7. CASE UNCHANGED feedVars
  BY <1>2, <1>7 DEF feedVars
<1>8. QED
  BY <1>1, <1>3, <1>4, <1>5, <1>6, <1>7, SwitchStores DEF FeedNext

\* The invariant of the queries, from the initial states on.
LEMMA QueriesStore == FeedSpec => [](Types /\ QueryInv)
<1>1. FeedInit => QueryInv
  BY DEF FeedInit, QueryInv, NoCall
<1>2. QED
  BY <1>1, InitTypes, NextTypes, NextStores, PTL DEF FeedSpec

\* However often the keys of a query run out and its pages are asked for
\* again, and whatever keywords are switched meanwhile, it stores the
\* statistics of a video once, and links what it stores to the keywords that
\* were and are monitored.
THEOREM QueriesStoreAll == FeedSpec => []QueriesComplete
<1>1. Types /\ QueryInv => QueriesComplete
  BY DEF QueryInv, QueriesComplete, StatisticsOncePerQuery, KeywordsLinked
<1>2. QED
  BY <1>1, QueriesStore, PTL

-----------------------------------------------------------------------------
(* What the consumer is told                                               *)

\* The priority of a video depends on three facts.
PriorityIs ==
    \A v \in Clips :
        Annotated(v) = CASE v \in apiInfos /\ Donated(v) -> 4
                         [] v \in apiInfos /\ ~Donated(v) -> 2
                         [] v \notin apiInfos /\ InWindow(v) -> 3
                         [] v \notin apiInfos /\ ~InWindow(v) -> 1

LEMMA PrioritiesAre == PriorityIs
<1> SUFFICES ASSUME NEW v \in Clips
             PROVE  Annotated(v) =
                        CASE v \in apiInfos /\ Donated(v) -> 4
                          [] v \in apiInfos /\ ~Donated(v) -> 2
                          [] v \notin apiInfos /\ InWindow(v) -> 3
                          [] v \notin apiInfos /\ ~InWindow(v) -> 1
  BY DEF PriorityIs
<1>1. \A p \in 1..4 : PriorityCondition(v, p) <=> p = Annotated(v)
  BY OnePriority
<1>2. Annotated(v) \in 1..4
  BY OnePriority
<1>3. QED
  BY <1>1, <1>2 DEF PriorityCondition

\* What is served of a video changes only with what is known of it.
LEMMA ServedKept ==
    ASSUME NEW v \in Clips, v \in videos, v \in videos',
           v \in apiInfos <=> v \in apiInfos', v \in scraped <=> v \in scraped',
           v \in inDatapods <=> v \in inDatapods', shown'[v] = shown[v]
    PROVE  Served(v)' = Served(v)
<1>1. PriorityIs /\ PriorityIs'
  BY PrioritiesAre, PTL
<1>2. (Donated(v) <=> Donated(v)') /\ (InWindow(v) <=> InWindow(v)')
  BY DEF Donated, InWindow
<1>3. Annotated(v)' = Annotated(v)
  BY <1>1, <1>2 DEF PriorityIs
<1>4. Source(v)' = Source(v)
  BY DEF Source
<1>5. (v \in inDatapods)' = (v \in inDatapods)
  OBVIOUS
<1>6. QED
  BY <1>3, <1>4, <1>5 DEF Served

\* A step that leaves the consumer alone: what is written late enough stays
\* so, ...
LEMMA LateKept ==
    ASSUME Types, LateEnough, UNCHANGED consumerVars,
           \A d \in OtherWriters :
               writer'[d].kind # "none" =>
                   writer'[d] = writer[d] \/ writer'[d].began = clock,
           \A v \in videos :
               updatedAt'[v] = updatedAt[v] \/ updatedAt'[v] > Base,
           \A c \in Calls :
               call'[c].at \in {"look", "infos"} /\ call'[c].created =>
                   \/ updatedAt'[call'[c].video] > Base
                   \/ /\ call[c].at \in {"look", "infos"} /\ call[c].created
                      /\ call'[c].video = call[c].video
    PROVE  LateEnough'
<1>1. Base' = Base
  BY DEF Base, consumerVars
<1>2. \A d \in OtherWriters :
          writer'[d].kind # "none" => writer'[d].began > Base'
  BY <1>1 DEF LateEnough
<1>3. \A c \in Calls :
          call'[c].at \in {"look", "infos"} /\ call'[c].created
              => updatedAt'[call'[c].video] > Base'
  BY <1>1 DEF LateEnough, Types, CallTypes
<1>4. QED
  BY <1>1, <1>2, <1>3 DEF LateEnough, consumerVars

\* ... and what the consumer was or will be told, too, unless it was moved to
\* a later time, is about to be, or was lost.
LEMMA AnnouncedKept ==
    ASSUME Types, AllAnnounced, UNCHANGED consumerVars,
           interrupted \subseteq interrupted',
           overwritten \subseteq overwritten',
           \A v \in videos' :
               \/ v \in interrupted' \cup overwritten'
               \/ updatedAt'[v] > Base
               \/ \E c \in Calls : call'[c].at = "mark" /\ call'[c].video = v
               \/ /\ v \in videos /\ Served(v)' = Served(v)
                  /\ updatedAt'[v] = updatedAt[v]
                  /\ \A c \in Calls :
                         call[c].at = "mark" /\ call[c].video = v
                         => call'[c].at = "mark" /\ call'[c].video = v
    PROVE  AllAnnounced'
<1>1. Base' = Base /\ copy' = copy /\ unread' = unread /\ since' = since
  BY DEF Base, consumerVars
<1>2. ASSUME NEW v \in videos', v \notin interrupted' \cup overwritten'
      PROVE  Announced(v)'
  <2>1. CASE updatedAt'[v] > Base
    BY <1>1, <2>1 DEF Announced
  <2>2. CASE \E c \in Calls : call'[c].at = "mark" /\ call'[c].video = v
    BY <2>2 DEF Announced
  <2>3. CASE /\ v \in videos /\ Served(v)' = Served(v)
             /\ updatedAt'[v] = updatedAt[v]
             /\ \A c \in Calls :
                    call[c].at = "mark" /\ call[c].video = v
                    => call'[c].at = "mark" /\ call'[c].video = v
    <3>1. Announced(v)
      BY <1>2, <2>3 DEF AllAnnounced
    <3>2. QED
      BY <1>1, <2>3, <3>1 DEF Announced
  <2>4. QED
    BY <1>2, <2>1, <2>2, <2>3
<1>3. QED
  BY <1>2 DEF AllAnnounced

\* A new row is a change; an existing one stays as it is.
LEMMA DeliverTold ==
    ASSUME Types, Told, NEW c \in Calls, NEW v \in Clips, Deliver(c, v)
    PROVE  Told'
<1> USE DEF Told
<1>1. /\ UNCHANGED <<consumerVars, writer, apiInfos, scraped, shown,
                     inDatapods, interrupted, overwritten>>
      /\ videos' = videos \cup {v} /\ call[c].at = "pages"
  BY DEF Deliver
<1>2. /\ \A e \in Calls \ {c} : call'[e] = call[e]
      /\ call'[c].at = "look" /\ call'[c].video = v
      /\ call'[c].created <=> v \notin videos
  BY DEF Deliver, Types, CallTypes, CallType
<1>3. /\ \A u \in videos : updatedAt'[u] = updatedAt[u]
      /\ v \notin videos => updatedAt'[v] > Base
  BY DEF Deliver, Types, StateTypes, LateEnough
<1>4. LateEnough'
  BY <1>1, <1>2, <1>3, LateKept
<1>5. \A u \in videos : Served(u)' = Served(u)
  BY <1>1, ServedKept DEF Types, StateTypes
<1>6. AllAnnounced'
  <2>1. \A e \in Calls : call[e].at = "mark" => call'[e] = call[e]
    BY <1>1, <1>2
  <2>2. QED
    BY <1>1, <1>3, <1>5, <2>1, AnnouncedKept
<1>7. QED
  BY <1>4, <1>6

\* A query that creates the infos of an existing video has yet to mark it; the
\* row of a new one is late enough.
LEMMA CreateTold ==
    ASSUME Types, Told, NEW c \in Calls, CreateInfos(c)
    PROVE  Told'
<1> USE DEF Told
<1> DEFINE v == call[c].video
<1>1. /\ UNCHANGED <<consumerVars, writer, videos, updatedAt, scraped, shown,
                     inDatapods, interrupted, overwritten>>
      /\ apiInfos' = apiInfos \cup {v} /\ call[c].at = "infos"
  BY DEF CreateInfos
<1>2. /\ \A e \in Calls \ {c} : call'[e] = call[e]
      /\ call'[c].at = IF call[c].created THEN "rest" ELSE "mark"
      /\ call'[c].video = v
  BY DEF CreateInfos, Types, CallTypes, CallType
<1>3. LateEnough'
  BY <1>1, <1>2, LateKept
<1>4. call[c].created => updatedAt'[v] > Base
  BY <1>1 DEF LateEnough
<1>5. \A u \in videos \ {v} : Served(u)' = Served(u)
  BY <1>1, ServedKept DEF Types, StateTypes
<1>6. AllAnnounced'
  <2>1. \A e \in Calls : call[e].at = "mark" => call'[e] = call[e]
    BY <1>1, <1>2
  <2> HIDE DEF v
  <2>2. ASSUME NEW u \in videos'
        PROVE  \/ updatedAt'[u] > Base
               \/ \E e \in Calls : call'[e].at = "mark" /\ call'[e].video = u
               \/ /\ u \in videos /\ Served(u)' = Served(u)
                  /\ updatedAt'[u] = updatedAt[u]
                  /\ \A e \in Calls :
                         call[e].at = "mark" /\ call[e].video = u
                         => call'[e].at = "mark" /\ call'[e].video = u
    <3>1. CASE u = v
      BY <1>2, <1>4, <3>1
    <3>2. CASE u # v
      BY <1>1, <1>5, <2>1, <3>2
    <3>3. QED
      BY <3>1, <3>2
  <2>3. QED
    BY <1>1, <2>2, AnnouncedKept
<1>7. QED
  BY <1>3, <1>6

\* Marking a video is what was yet to come.
LEMMA MarkTold ==
    ASSUME Types, Told, NEW c \in Calls, MarkChanged(c)
    PROVE  Told'
<1> USE DEF Told
<1> DEFINE v == call[c].video
<1>1. /\ UNCHANGED <<consumerVars, writer, factVars, interrupted, overwritten>>
      /\ updatedAt' = [updatedAt EXCEPT ![v] = clock]
  BY DEF MarkChanged, Marked
<1>2. /\ \A e \in Calls \ {c} : call'[e] = call[e]
      /\ call'[c].at = "rest"
  BY DEF MarkChanged, Types, CallTypes, CallType
<1>3. /\ v \in Clips /\ updatedAt'[v] > Base
      /\ \A u \in videos \ {v} : updatedAt'[u] = updatedAt[u]
  BY <1>1 DEF MarkChanged, Types, StateTypes, CallTypes, LateEnough
<1>4. \A u \in videos : updatedAt'[u] = updatedAt[u] \/ updatedAt'[u] > Base
  BY <1>3
<1>5. LateEnough'
  BY <1>1, <1>2, <1>4, LateKept
<1>6. \A u \in videos : Served(u)' = Served(u)
  BY <1>1, ServedKept DEF Types, StateTypes, factVars
<1>7. AllAnnounced'
  <2>1. \A e \in Calls : call[e].at = "mark" /\ call[e].video # v
                             => call'[e] = call[e]
    BY <1>2
  <2>2. videos' = videos
    BY <1>1 DEF factVars
  <2> HIDE DEF v
  <2>3. ASSUME NEW u \in videos'
        PROVE  \/ updatedAt'[u] > Base
               \/ /\ u \in videos /\ Served(u)' = Served(u)
                  /\ updatedAt'[u] = updatedAt[u]
                  /\ \A e \in Calls :
                         call[e].at = "mark" /\ call[e].video = u
                         => call'[e].at = "mark" /\ call'[e].video = u
    BY <1>3, <1>6, <2>1, <2>2
  <2>4. QED
    BY <1>1, <2>3, AnnouncedKept
<1>8. QED
  BY <1>5, <1>7

\* The other steps of a query change nothing that is served; one that ends
\* before it has marked its video leaves it unmarked.
LEMMA StepTold ==
    ASSUME Types, Told, NEW c \in Calls,
           \/ BeginQuery(c) \/ LookForInfos(c) \/ StoreRest(c)
           \/ UseNextKey(c) \/ EndQuery(c)
    PROVE  Told'
<1> USE DEF Told
<1>1. /\ UNCHANGED <<consumerVars, writer, factVars, updatedAt, overwritten>>
      /\ interrupted \subseteq interrupted'
  BY DEF BeginQuery, LookForInfos, StoreRest, UseNextKey, EndQuery
<1>2. \A e \in Calls \ {c} : call'[e] = call[e]
  BY DEF BeginQuery, LookForInfos, StoreRest, UseNextKey, EndQuery, Types,
     CallTypes
<1>3. call'[c].at \in {"look", "infos"} =>
          /\ call[c].at \in {"look", "infos"}
          /\ call'[c].video = call[c].video
          /\ call'[c].created => call[c].created
  <2>1. CASE BeginQuery(c) \/ EndQuery(c)
    <3>1. NoCall \in CallType /\ NoCall.at = "idle"
      BY FeedAssumption DEF NoCall, CallType, Stages
    <3>2. [NoCall EXCEPT !.at = "pages", !.kept = monitored].at = "pages"
      BY <3>1 DEF CallType
    <3>3. call'[c].at \in {"pages", "idle"}
      BY <2>1, <3>1, <3>2 DEF BeginQuery, EndQuery, Types, CallTypes
    <3>4. QED
      BY <3>3
  <2>2. CASE LookForInfos(c)
    BY <2>2 DEF LookForInfos, Types, CallTypes, CallType
  <2>3. CASE StoreRest(c)
    <3>1. call'[c].at = "pages"
      BY <2>3 DEF StoreRest, Types, CallTypes, CallType
    <3>2. QED
      BY <3>1
  <2>4. CASE UseNextKey(c)
    BY <2>4 DEF UseNextKey, Restarted, Types, CallTypes, CallType
  <2>5. QED
    BY <2>1, <2>2, <2>3, <2>4
<1>4. call[c].at = "mark" => call[c].video \in interrupted'
  BY DEF BeginQuery, LookForInfos, StoreRest, UseNextKey, EndQuery
<1>5. LateEnough'
  BY <1>1, <1>2, <1>3, LateKept
<1>6. \A u \in videos : Served(u)' = Served(u)
  BY <1>1, ServedKept DEF Types, StateTypes, factVars
<1>7. AllAnnounced'
  <2>1. videos' = videos
    BY <1>1 DEF factVars
  <2>2. QED
    BY <1>1, <1>2, <1>4, <1>6, <2>1, AnnouncedKept
<1>8. QED
  BY <1>5, <1>7

-----------------------------------------------------------------------------
\* A registration, or a mark of Datapods, takes the time of its commit.
LEMMA RegisterTold ==
    ASSUME Types, Told, NEW v \in Clips, Register(v) \/ MarkDatapods(v)
    PROVE  Told'
<1> USE DEF Told
<1>1. /\ UNCHANGED <<consumerVars, writer, call, apiInfos, scraped, shown,
                     interrupted, overwritten>>
      /\ videos' = videos \cup {v}
      /\ updatedAt' = [updatedAt EXCEPT ![v] = clock]
      /\ \A u \in Clips \ {v} : u \in inDatapods' <=> u \in inDatapods
  BY DEF Register, MarkDatapods, Types, StateTypes
<1>2. /\ updatedAt'[v] > Base
      /\ \A u \in Clips \ {v} : updatedAt'[u] = updatedAt[u]
  BY <1>1 DEF Types, StateTypes, LateEnough
<1>3. \A u \in videos : updatedAt'[u] = updatedAt[u] \/ updatedAt'[u] > Base
  BY <1>2 DEF Types, StateTypes
<1>4. LateEnough'
  BY <1>1, <1>3, LateKept
<1>5. \A u \in videos \ {v} : Served(u)' = Served(u)
  BY <1>1, ServedKept DEF Types, StateTypes
<1>6. AllAnnounced'
  BY <1>1, <1>2, <1>5, AnnouncedKept DEF Types, StateTypes
<1>7. QED
  BY <1>4, <1>6

LEMMA StartTold ==
    ASSUME Types, Told, NEW d \in OtherWriters, NEW v \in Clips, NEW kind,
           NEW new, StartWrite(d, kind, v, new)
    PROVE  Told'
<1> USE DEF Told
<1>1. /\ UNCHANGED <<consumerVars, call, factVars, updatedAt, interrupted,
                     overwritten>>
      /\ \A e \in OtherWriters :
             writer'[e] = writer[e] \/ writer'[e].began = clock
  BY DEF StartWrite, Types, WriterTypes
<1>2. LateEnough'
  BY <1>1, LateKept
<1>3. \A u \in videos : Served(u)' = Served(u)
  BY <1>1, ServedKept DEF Types, StateTypes, factVars
<1>4. videos' = videos
  BY <1>1 DEF factVars
<1>5. AllAnnounced'
  BY <1>1, <1>3, <1>4, AnnouncedKept
<1>6. QED
  BY <1>2, <1>5

\* A commit gives a video the time it began at, which is late enough; if it
\* does not, it changes nothing, or sets a donation back.
LEMMA CommitTold ==
    ASSUME Types, Told, NEW d \in OtherWriters, CommitWrite(d)
    PROVE  Told'
<1> USE DEF Told
<1> DEFINE w == writer[d]
           v == w.video
<1>1. /\ UNCHANGED <<consumerVars, call, videos, apiInfos, inDatapods,
                     interrupted>>
      /\ w.kind # "none" /\ v \in Clips /\ v \in videos
      /\ shown' = [shown EXCEPT ![v] = Recorded(w)]
      /\ \A u \in Clips \ {v} : u \in scraped' <=> u \in scraped
  BY DEF CommitWrite, Types, WriterTypes, StateTypes
<1>2. /\ overwritten \subseteq overwritten'
      /\ w.kind = "donation" /\ shown[v] # w.read => v \in overwritten'
  BY DEF CommitWrite
<1>3. /\ \A e \in OtherWriters : writer'[e].kind # "none"
             => writer'[e] = writer[e]
  BY DEF CommitWrite, Types, WriterTypes, NoWrite
<1>4. w.began > Base
  BY <1>1 DEF LateEnough
<1>5. /\ Moves(w) => updatedAt'[v] = w.began
      /\ ~Moves(w) => updatedAt' = updatedAt
      /\ \A u \in Clips \ {v} : updatedAt'[u] = updatedAt[u]
  BY <1>1 DEF CommitWrite, Types, StateTypes
<1>6. ASSUME NEW u \in videos, u = v, ~Moves(w)
      PROVE  u \in overwritten' \/ Served(u)' = Served(u)
  <2>1. SUFFICES ASSUME shown[u] = w.read
                 PROVE  Served(u)' = Served(u)
    BY <1>2, <1>6 DEF Moves
  <2>2. w.kind = "donation" /\ w.new = w.read
    BY <1>6 DEF Moves
  <2>3. shown'[u] = shown[u] /\ scraped' = scraped
    BY <1>1, <1>6, <2>1, <2>2 DEF Recorded, CommitWrite, Types, StateTypes
  <2>4. u \in Clips
    BY DEF Types, StateTypes
  <2>5. QED
    BY <1>1, <2>3, <2>4, ServedKept
<1>7. \A u \in videos \ {v} : Served(u)' = Served(u)
  BY <1>1, ServedKept DEF Types, StateTypes
<1> HIDE DEF w, v
<1>8. \A u \in videos : updatedAt'[u] = updatedAt[u] \/ updatedAt'[u] > Base
  BY <1>4, <1>5 DEF Types, StateTypes
<1>9. LateEnough'
  BY <1>1, <1>3, <1>8, LateKept
<1>10. AllAnnounced'
  <2>1. ASSUME NEW u \in videos'
        PROVE  \/ u \in interrupted' \cup overwritten'
               \/ updatedAt'[u] > Base
               \/ /\ u \in videos /\ Served(u)' = Served(u)
                  /\ updatedAt'[u] = updatedAt[u]
    <3>1. CASE u = v
      BY <1>1, <1>4, <1>5, <1>6, <3>1
    <3>2. CASE u # v
      BY <1>1, <1>5, <1>7, <3>2 DEF Types, StateTypes
    <3>3. QED
      BY <3>1, <3>2
  <2>2. QED
    BY <1>1, <1>2, <2>1, AnnouncedKept
<1>11. QED
  BY <1>9, <1>10

-----------------------------------------------------------------------------
\* A poll that begins looks back far enough for every write under way: it
\* finds what was announced for it.
LEMMA StartPollTold ==
    ASSUME Types, Told, StartPoll
    PROVE  Told'
<1> USE FeedAssumption DEF Told
<1>1. /\ UNCHANGED <<factVars, updatedAt, call, writer, since, copy,
                     interrupted, overwritten>>
      /\ unread = {} /\ unread' = videos /\ videos # {} /\ clock' = clock + 1
  BY DEF StartPoll
<1>2. Base = since /\ Base' = clock - Overlap
  <2>1. clock \in Nat /\ Overlap \in Nat
    BY DEF Types, StateTypes
  <2>2. Base' = clock' - 1 - Overlap
    BY <1>1 DEF Base
  <2>3. QED
    BY <1>1, <2>1, <2>2 DEF Base
<1>3. \A d \in OtherWriters :
          writer[d].kind # "none" => writer[d].began > clock - Overlap
  BY DEF StartPoll, Types, StateTypes, WriterTypes, WriteType
<1>4. ASSUME NEW c \in Calls, call[c].at \in {"look", "infos"}, call[c].created
      PROVE  updatedAt[call[c].video] > clock - Overlap
  <2>1. updatedAt[call[c].video] \in Nat
    BY <1>4 DEF Types, StateTypes, CallTypes
  <2>2. QED
    BY <1>4, <2>1 DEF StartPoll, Types, StateTypes
<1>5. LateEnough'
  BY <1>1, <1>2, <1>3, <1>4 DEF LateEnough, Types, StateTypes
<1>6. \A u \in videos : Served(u)' = Served(u)
  BY <1>1, ServedKept DEF Types, StateTypes, factVars
<1>7. ASSUME NEW v \in videos, Announced(v)
      PROVE  Announced(v)'
  BY <1>1, <1>2, <1>6, <1>7 DEF Announced
<1>8. AllAnnounced'
  BY <1>1, <1>7 DEF AllAnnounced, factVars
<1>9. QED
  BY <1>5, <1>8

\* A page tells of what changed since, and the next poll goes on from the
\* beginning of this one.
LEMMA ReadPageTold ==
    ASSUME Types, Told, ReadPage
    PROVE  Told'
<1> USE FeedAssumption DEF Told
<1>1. PICK v \in unread :
          /\ copy' = IF Reported(v) THEN [copy EXCEPT ![v] = Served(v)] ELSE copy
          /\ unread' = unread \ {v}
          /\ since' = IF unread = {v} THEN clock - 1 - Overlap ELSE since
          /\ UNCHANGED <<factVars, updatedAt, keywordVars, call, begun, writer,
                         writes, clock, interrupted, overwritten>>
  BY DEF ReadPage
<1>2. Base = clock - 1 - Overlap /\ Base' = Base
  BY <1>1 DEF Base
<1>3. LateEnough'
  BY <1>1, <1>2 DEF LateEnough, Types, StateTypes
<1>4. v \in Clips /\ videos' = videos
  BY <1>1 DEF Types, StateTypes, factVars
<1>5. \A u \in videos : Served(u)' = Served(u)
  BY <1>1, ServedKept DEF Types, StateTypes, factVars
<1>6. ASSUME NEW u \in videos, Announced(u)
      PROVE  Announced(u)'
  <2>1. CASE u = v /\ Reported(v)
    <3>1. copy'[u] = Served(u)
      BY <1>1, <1>4, <2>1 DEF Types, StateTypes
    <3>2. QED
      BY <1>5, <3>1 DEF Announced
  <2>2. CASE u = v /\ ~Reported(v)
    BY <1>1, <1>2, <1>5, <1>6, <2>2 DEF Announced, Reported
  <2>3. CASE u # v
    <3>1. copy'[u] = copy[u]
      BY <1>1, <2>3 DEF Types, StateTypes
    <3>2. u \in unread => u \in unread' /\ since' = since
      BY <1>1, <2>3
    <3>3. QED
      BY <1>1, <1>2, <1>5, <1>6, <3>1, <3>2 DEF Announced
  <2>4. QED
    BY <2>1, <2>2, <2>3
<1>7. AllAnnounced'
  BY <1>1, <1>4, <1>6 DEF AllAnnounced
<1>8. QED
  BY <1>3, <1>7

\* Steps that touch neither what is served nor the consumer.
LEMMA OtherTold ==
    ASSUME Types, Told, UNCHANGED feedVars \/ (\E k \in Keywords : SwitchKeyword(k))
    PROVE  Told'
<1> USE DEF Told
<1>1. /\ UNCHANGED <<consumerVars, writer, factVars, updatedAt, interrupted,
                     overwritten>>
      /\ \A c \in Calls : /\ call'[c].at = call[c].at
                          /\ call'[c].video = call[c].video
                          /\ call'[c].created = call[c].created
  BY DEF feedVars, SwitchKeyword, Types, CallTypes, CallType
<1>2. LateEnough'
  BY <1>1, LateKept
<1>3. \A u \in videos : Served(u)' = Served(u)
  BY <1>1, ServedKept DEF Types, StateTypes, factVars
<1>4. videos' = videos
  BY <1>1 DEF factVars
<1>5. AllAnnounced'
  BY <1>1, <1>3, <1>4, AnnouncedKept
<1>6. QED
  BY <1>2, <1>5

LEMMA NextTold == Types /\ Told /\ [FeedNext]_feedVars => Told'
<1> SUFFICES ASSUME Types, Told, [FeedNext]_feedVars
             PROVE  Told'
  OBVIOUS
<1>1. ASSUME NEW c \in Calls, Query(c)
      PROVE  Told'
  BY <1>1, DeliverTold, CreateTold, MarkTold, StepTold DEF Query
<1>2. ASSUME NEW v \in Clips, NEW d \in OtherWriters,
             RecordDonation(d, v) \/ StartPurge(d, v) \/ StartStore(d, v)
      PROVE  Told'
  BY <1>2, WriterStarts, StartTold DEF Types
<1>3. QED
  BY <1>1, <1>2, RegisterTold, CommitTold, StartPollTold, ReadPageTold,
     OtherTold DEF FeedNext

LEMMA InitTold == FeedInit => Told
BY DEF FeedInit, Told, LateEnough, AllAnnounced, Base, NoCall, NoWrite

\* A change the consumer was not told of comes with its next poll, or one is
\* still to write it, whichever writers commit in whichever order while it
\* polls: unless a query was cut short before it marked the video, or two
\* donations overwrote each other.
THEOREM NoChangeMissed == FeedSpec => []NothingMissed
<1>1. Types /\ Told => NothingMissed
  BY DEF Told, AllAnnounced, Announced, Base, NothingMissed
<1>2. FeedSpec => [](Types /\ Told)
  BY InitTypes, InitTold, NextTypes, NextTold, PTL DEF FeedSpec
<1>3. QED
  BY <1>1, <1>2, PTL

-----------------------------------------------------------------------------
(* The command for monitored items                                         *)

\* A set of numbers has a least one.
LEMMA LeastNumber ==
    ASSUME NEW S \in SUBSET Nat, S # {}
    PROVE  \E n \in S : \A m \in S : n <= m
<1>1. IsWellFoundedOn(OpToRel(<, Nat), Nat)
  BY NatLessThanWellFounded
<1>2. PICK n \in S : \A m \in S : <<m, n>> \notin OpToRel(<, Nat)
  BY <1>1, WFMin
<1>3. \A m \in S : ~(m < n)
  BY <1>2 DEF OpToRel
<1>4. QED
  BY <1>3

\* A row is as its line says.
Applied(its, line) ==
    its[line.name].on = TRUE /\ its[line.name].priority = line.priority

\* A statement of the plan of f: it switches a listed row on, or others off.
Listing(s, line) ==
    /\ s.kind \in {"create", "enable", "update"}
    /\ s.names = {line.name} /\ s.priority = line.priority
Cleaning(s, f) == s.kind = "disable" /\ s.names \cap Listed(f) = {}

\* What is to be done of the plan brings the rows in line with the file: a
\* statement that sets a priority only is about a row that is on.
InPlan(todo, its, f) ==
    \A s \in todo :
        \/ Cleaning(s, f)
        \/ \E n \in Entries(f) :
               /\ Listing(s, f[n])
               /\ s.kind = "update" => its[f[n].name].on = TRUE
Covers(todo, its, f) ==
    /\ \A n \in Entries(f) :
           Applied(its, f[n]) \/ \E s \in todo : Listing(s, f[n])
    /\ \A x \in Names \ Listed(f) :
           its[x].on = FALSE \/ \E s \in todo : Cleaning(s, f) /\ x \in s.names

ItemsInv ==
    /\ items \in [Names -> Item]
    /\ state \in {"idle", "writing", "done", "broken off"}
    /\ state \in {"writing", "done"} => file \in Files
    /\ state = "writing" => InPlan(steps, items, file) /\ Covers(steps, items, file)
    /\ state = "done" => Covers({}, items, file)

\* Each listed name has one line that counts.
LEMMA EntryOf ==
    ASSUME NEW f \in Files, NEW x \in Listed(f)
    PROVE  \E n \in Entries(f) : f[n].name = x
<1> DEFINE S == {n \in DOMAIN f : f[n].name = x}
<1>1. DOMAIN f = 1..Len(f) /\ Len(f) \in Nat
  BY FilesAssumption
<1>2. S \in SUBSET Nat /\ S # {}
  BY <1>1 DEF Listed
<1>3. PICK n \in S : \A m \in S : n <= m
  BY <1>2, LeastNumber
<1>4. \A m \in 1..n - 1 : m \in DOMAIN f /\ m \notin S
  BY <1>1, <1>3
<1>5. QED
  BY <1>3, <1>4 DEF Entries

LEMMA OneEntry ==
    ASSUME NEW f \in Files, NEW n \in Entries(f), NEW m \in Entries(f),
           f[n].name = f[m].name
    PROVE  n = m
<1>1. DOMAIN f = 1..Len(f) /\ Len(f) \in Nat
  BY FilesAssumption
<1>2. n \in 1..Len(f) /\ m \in 1..Len(f)
  BY <1>1 DEF Entries
<1>3. ~(n < m)
  <2>1. SUFFICES ASSUME n < m PROVE FALSE
    OBVIOUS
  <2>2. n \in 1..m - 1
    BY <1>2, <2>1
  <2>3. QED
    BY <2>2 DEF Entries
<1>4. ~(m < n)
  <2>1. SUFFICES ASSUME m < n PROVE FALSE
    OBVIOUS
  <2>2. m \in 1..n - 1
    BY <1>2, <2>1
  <2>3. QED
    BY <2>2 DEF Entries
<1>5. QED
  BY <1>2, <1>3, <1>4

LEMMA LineType ==
    ASSUME NEW f \in Files, NEW n \in Entries(f)
    PROVE  n \in DOMAIN f /\ f[n] \in [name : Names, priority : Nat]
               /\ f[n].name \in Names \cap Listed(f) /\ f[n].priority \in Nat
<1>1. f \in Seq([name : Names, priority : Nat]) /\ n \in DOMAIN f
  BY FilesAssumption DEF Entries
<1>2. f[n] \in [name : Names, priority : Nat]
  <2> DEFINE R == [name : Names, priority : Nat]
  <2>1. f \in Seq(R) /\ n \in DOMAIN f
    BY <1>1
  <2> HIDE DEF R
  <2>2. f[n] \in R
    BY <2>1
  <2>3. QED
    BY <2>2 DEF R
<1>3. QED
  BY <1>1, <1>2 DEF Listed

\* What a statement leaves of a row.
LEMMA ChangedRow ==
    ASSUME items \in [Names -> Item], NEW x \in Names, NEW s,
           s.kind = "disable" \/ (s.kind \in {"create", "enable", "update"} /\ s.priority \in Nat)
    PROVE  /\ Changed(s, x) \in Item
           /\ s.kind \in {"create", "enable"} => Changed(s, x).on = TRUE
           /\ s.kind = "update" => Changed(s, x).on = items[x].on
           /\ s.kind = "disable" => Changed(s, x).on = FALSE
           /\ s.kind # "disable" => Changed(s, x).priority = s.priority
<1> DEFINE r == items[x]
<1>1. r \in Item
  OBVIOUS
<1>2. TRUE \in BOOLEAN /\ FALSE \in BOOLEAN
  OBVIOUS
<1> HIDE DEF r
<1>3. CASE s.kind = "create"
  <2> DEFINE c == [known |-> TRUE, on |-> TRUE, priority |-> s.priority]
  <2>1. Changed(s, x) = c
    BY <1>3 DEF Changed
  <2>2. c \in Item
    BY <1>2, <1>3, Zenon DEF Item
  <2>3. c.on = TRUE /\ c.priority = s.priority
    BY Zenon
  <2>4. QED
    BY <1>3, <2>1, <2>2, <2>3
<1>4. CASE s.kind = "enable"
  <2> DEFINE q == [r EXCEPT !.on = TRUE]
             c == [r EXCEPT !.on = TRUE, !.priority = s.priority]
  <2>1. Changed(s, x) = c
    BY <1>4 DEF Changed, r
  <2>2. q \in Item
    BY <1>1, <1>2 DEF Item
  <2>3. c = [q EXCEPT !.priority = s.priority]
    BY Zenon
  <2>4. c.on = TRUE /\ c.priority = s.priority
    BY <1>1 DEF Item
  <2> HIDE DEF q
  <2>5. [q EXCEPT !.priority = s.priority] \in Item
    BY <1>4, <2>2 DEF Item
  <2> HIDE DEF c
  <2>6. QED
    BY <1>4, <2>1, <2>3, <2>4, <2>5
<1>5. CASE s.kind = "update"
  <2> DEFINE c == [r EXCEPT !.priority = s.priority]
  <2>1. Changed(s, x) = c
    BY <1>5 DEF Changed, r
  <2>2. c \in Item /\ c.on = r.on /\ c.priority = s.priority
    BY <1>1, <1>5 DEF Item
  <2> HIDE DEF c
  <2>3. QED
    BY <1>5, <2>1, <2>2 DEF r
<1>6. CASE s.kind = "disable"
  <2> DEFINE c == [r EXCEPT !.on = FALSE]
  <2>1. Changed(s, x) = c
    BY <1>6 DEF Changed, r
  <2>2. c \in Item /\ c.on = FALSE
    BY <1>1, <1>2 DEF Item
  <2> HIDE DEF c
  <2>3. QED
    BY <1>6, <2>1, <2>2
<1>7. QED
  BY <1>3, <1>4, <1>5, <1>6

\* The plan covers what differs, whatever the rows are.
LEMMA PlanCovers ==
    ASSUME items \in [Names -> Item], NEW f \in Files
    PROVE  InPlan(Plan(f), items, f) /\ Covers(Plan(f), items, f)
<1> DEFINE Fix(n) == Statement(f[n], n)
           Clean == [kind |-> "disable", line |-> 0, names |-> Surplus(f), priority |-> 0]
<1>1. \A s \in Plan(f) :
          \/ s = Clean
          \/ \E n \in Entries(f) : s = Fix(n)
  BY DEF Plan
<1>2. \A n \in Entries(f) : UpToDate(f[n]) \/ Fix(n) \in Plan(f)
  BY DEF Plan
<1>3. Surplus(f) = {} \/ Clean \in Plan(f)
  BY DEF Plan
<1>4. Cleaning(Clean, f)
  BY DEF Cleaning, Surplus
<1>5. ASSUME NEW n \in Entries(f)
      PROVE  /\ Listing(Fix(n), f[n])
             /\ Fix(n).kind = "update" => items[f[n].name].on = TRUE
  <2>1. f[n].name \in Names
    BY LineType
  <2>2. items[f[n].name].known \in BOOLEAN /\ items[f[n].name].on \in BOOLEAN
    BY <2>1 DEF Item
  <2>3. /\ KindFor(f[n]) \in {"create", "enable", "update"}
        /\ KindFor(f[n]) = "update" => items[f[n].name].on
    BY <2>2 DEF KindFor
  <2>4. Fix(n).kind = KindFor(f[n]) /\ Fix(n).names = {f[n].name}
            /\ Fix(n).priority = f[n].priority
    BY DEF Statement
  <2>5. KindFor(f[n]) = "update" => items[f[n].name].on = TRUE
    BY <2>2, <2>3, Zenon
  <2>6. QED
    BY <2>3, <2>4, <2>5 DEF Listing
<1>6. ASSUME NEW n \in Entries(f), UpToDate(f[n]) PROVE Applied(items, f[n])
  <2> DEFINE r == [known |-> TRUE, on |-> TRUE, priority |-> f[n].priority]
  <2>1. r.on = TRUE /\ r.priority = f[n].priority
    BY Zenon
  <2>2. items[f[n].name] = r
    BY <1>6 DEF UpToDate
  <2> HIDE DEF r
  <2>3. QED
    BY <2>1, <2>2 DEF Applied
<1>7. ASSUME NEW x \in Names \ Listed(f), x \notin Surplus(f)
      PROVE  items[x].on = FALSE
  <2>1. items[x].on \in BOOLEAN /\ ~items[x].on
    BY <1>7 DEF Surplus, Item
  <2>2. QED
    BY <2>1, Zenon
<1>8. Clean.names = Surplus(f)
  OBVIOUS
<1> HIDE DEF Fix, Clean
<1>9. QED
  BY <1>1, <1>2, <1>3, <1>4, <1>5, <1>6, <1>7, <1>8 DEF InPlan, Covers

\* A statement that is executed brings its rows in line, and no other out.
LEMMA ExecuteCovers ==
    ASSUME items \in [Names -> Item], file \in Files,
           InPlan(steps, items, file), Covers(steps, items, file),
           NEW s \in steps,
           items' = [x \in Names |-> IF x \in s.names THEN Changed(s, x) ELSE items[x]],
           steps' = steps \ {s}
    PROVE  /\ items' \in [Names -> Item]
           /\ InPlan(steps', items', file) /\ Covers(steps', items', file)
<1>1. CASE Cleaning(s, file)
  <2>1. ASSUME NEW x \in Names
        PROVE  /\ items'[x] \in Item
               /\ x \in s.names => items'[x].on = FALSE
               /\ x \notin s.names => items'[x] = items[x]
    BY <1>1, ChangedRow DEF Cleaning
  <2>2. \A n \in Entries(file) : items'[file[n].name] = items[file[n].name]
    BY <1>1, <2>1, LineType DEF Cleaning
  <2>3. InPlan(steps', items', file)
    BY <2>2 DEF InPlan
  <2>4. ASSUME NEW n \in Entries(file)
        PROVE  Applied(items', file[n]) \/ \E t \in steps' : Listing(t, file[n])
    BY <1>1, <2>2 DEF Covers, Applied, Listing, Cleaning
  <2>5. ASSUME NEW x \in Names \ Listed(file)
        PROVE  items'[x].on = FALSE \/ \E t \in steps' : Cleaning(t, file) /\ x \in t.names
    BY <2>1 DEF Covers
  <2>6. QED
    BY <2>1, <2>3, <2>4, <2>5 DEF Covers
<1>2. ASSUME NEW n \in Entries(file), Listing(s, file[n]),
             s.kind = "update" => items[file[n].name].on = TRUE
      PROVE  /\ items' \in [Names -> Item]
             /\ InPlan(steps', items', file) /\ Covers(steps', items', file)
  <2>1. /\ file[n].name \in Names \cap Listed(file) /\ s.priority \in Nat
        /\ s.names = {file[n].name}
        /\ s.kind \in {"create", "enable", "update"} /\ s.priority = file[n].priority
    BY <1>2, LineType DEF Listing
  <2>2. ASSUME NEW x \in Names
        PROVE  /\ items'[x] \in Item
               /\ x # file[n].name => items'[x] = items[x]
    BY <2>1, ChangedRow
  <2>3. Applied(items', file[n])
    BY <1>2, <2>1, ChangedRow DEF Applied
  <2>4. InPlan(steps', items', file)
    <3>1. ASSUME NEW m \in Entries(file), items[file[m].name].on = TRUE
          PROVE  items'[file[m].name].on = TRUE
      BY <2>2, <2>3, <3>1, LineType DEF Applied
    <3>2. QED
      BY <3>1 DEF InPlan
  <2>5. ASSUME NEW m \in Entries(file)
        PROVE  Applied(items', file[m]) \/ \E t \in steps' : Listing(t, file[m])
    <3>1. CASE file[m].name = file[n].name
      BY <2>3, <3>1, OneEntry
    <3>2. CASE file[m].name # file[n].name
      <4>1. items'[file[m].name] = items[file[m].name]
        BY <2>2, <3>2, LineType
      <4>2. ~Listing(s, file[m])
        BY <2>1, <3>2 DEF Listing
      <4>3. QED
        BY <4>1, <4>2 DEF Covers, Applied
    <3>3. QED
      BY <3>1, <3>2
  <2>6. ASSUME NEW x \in Names \ Listed(file)
        PROVE  items'[x].on = FALSE \/ \E t \in steps' : Cleaning(t, file) /\ x \in t.names
    <3>1. items'[x] = items[x]
      BY <2>1, <2>2
    <3>2. ~Cleaning(s, file)
      BY <2>1 DEF Cleaning
    <3>3. QED
      BY <3>1, <3>2 DEF Covers
  <2>7. QED
    BY <2>2, <2>4, <2>5, <2>6 DEF Covers
<1>3. QED
  BY <1>1, <1>2 DEF InPlan

\* A user who is registered is as monitored as before: not at all.
LEMMA RegisterKeeps ==
    ASSUME ItemsInv, NEW x \in Names, RegisterUser(x)
    PROVE  ItemsInv'
<1> DEFINE r == items[x]
<1>1. /\ items' = [items EXCEPT ![x].known = TRUE]
      /\ UNCHANGED <<file, steps, state>> /\ items \in [Names -> Item]
  BY DEF RegisterUser, ItemsInv
<1>2. items'[x] = [r EXCEPT !.known = TRUE]
  BY <1>1
<1>3. r \in Item /\ TRUE \in BOOLEAN
  BY <1>1
<1> HIDE DEF r
<1>4. [r EXCEPT !.known = TRUE] \in Item
  BY <1>3 DEF Item
<1>5. [r EXCEPT !.known = TRUE].on = r.on /\ [r EXCEPT !.known = TRUE].priority = r.priority
  BY <1>3 DEF Item
<1>6. ASSUME NEW y \in Names
      PROVE  /\ items'[y] \in Item /\ items'[y].on = items[y].on
             /\ items'[y].priority = items[y].priority
  BY <1>1, <1>2, <1>4, <1>5 DEF r
<1>7. items' \in [Names -> Item]
  BY <1>1, <1>6
<1>8. ASSUME file \in Files, NEW n \in Entries(file)
      PROVE  /\ items'[file[n].name].on = items[file[n].name].on
             /\ items'[file[n].name].priority = items[file[n].name].priority
  BY <1>6, <1>8, LineType
<1>9. ASSUME file \in Files, InPlan(steps, items, file)
      PROVE  InPlan(steps, items', file)
  BY <1>8, <1>9 DEF InPlan
<1>10. ASSUME file \in Files, NEW todo, Covers(todo, items, file)
       PROVE  Covers(todo, items', file)
  BY <1>6, <1>8, <1>10 DEF Covers, Applied
<1>11. QED
  BY <1>1, <1>7, <1>9, <1>10 DEF ItemsInv

LEMMA InitItems == ItemsInit => ItemsInv
<1> SUFFICES ASSUME ItemsInit PROVE ItemsInv
  OBVIOUS
<1>1. FALSE \in BOOLEAN
  OBVIOUS
<1>2. NoItem \in Item
  BY <1>1, Zenon DEF NoItem, Item
<1>3. QED
  BY <1>2 DEF ItemsInit, ItemsInv

LEMMA NextItems == ItemsInv /\ [ItemsNext]_itemVars => ItemsInv'
<1> SUFFICES ASSUME ItemsInv, [ItemsNext]_itemVars PROVE ItemsInv'
  OBVIOUS
<1>1. ASSUME NEW f \in Files, StartSync(f) PROVE ItemsInv'
  <2>1. /\ file' = f /\ steps' = Plan(f) /\ state' = "writing"
        /\ items' = items /\ items \in [Names -> Item]
    BY <1>1 DEF StartSync, ItemsInv
  <2>2. InPlan(Plan(f), items, f) /\ Covers(Plan(f), items, f)
    BY <2>1, PlanCovers
  <2>3. QED
    BY <2>1, <2>2 DEF ItemsInv
<1>2. CASE Execute
  <2>1. /\ state = "writing" /\ file' = file /\ file \in Files
        /\ items \in [Names -> Item]
        /\ InPlan(steps, items, file) /\ Covers(steps, items, file)
    BY <1>2 DEF Execute, ItemsInv
  <2>2. CASE state' = "broken off" /\ items' = items
    BY <2>1, <2>2 DEF ItemsInv
  <2>3. ASSUME NEW s \in steps, state' = state, steps' = steps \ {s},
               items' = [x \in Names |-> IF x \in s.names THEN Changed(s, x)
                                         ELSE items[x]]
        PROVE  ItemsInv'
    <3>1. /\ items' \in [Names -> Item]
          /\ InPlan(steps', items', file) /\ Covers(steps', items', file)
      BY <2>1, <2>3, ExecuteCovers
    <3>2. QED
      BY <2>1, <2>3, <3>1 DEF ItemsInv
  <2>4. QED
    BY <1>2, <2>2, <2>3 DEF Execute
<1>3. CASE FinishSync
  BY <1>3 DEF FinishSync, ItemsInv
<1>4. CASE StopSync
  BY <1>4 DEF StopSync, ItemsInv
<1>5. ASSUME NEW x \in Names, RegisterUser(x) PROVE ItemsInv'
  BY <1>5, RegisterKeeps
<1>6. CASE UNCHANGED itemVars
  BY <1>6 DEF itemVars, ItemsInv
<1>7. QED
  BY <1>1, <1>2, <1>3, <1>4, <1>5, <1>6 DEF ItemsNext

\* A run that gets to its end leaves exactly the names in its file monitored,
\* each with the priority of its first line: for any files and names, whatever
\* runs that broke off have left, and whoever is registered meanwhile.
THEOREM FilesTakeEffect == ItemsSpec => []AppliedMatches
<1>1. ASSUME ItemsInv PROVE AppliedMatches
  <2>1. ASSUME state = "done"
        PROVE  /\ {x \in Names : items[x].on} = Listed(file)
               /\ \A n \in DOMAIN file :
                      (\A m \in 1..n - 1 : file[m].name # file[n].name)
                          => items[file[n].name].priority = file[n].priority
    <3>1. file \in Files /\ Covers({}, items, file)
      BY <1>1, <2>1 DEF ItemsInv
    <3>2. \A n \in Entries(file) :
              items[file[n].name].on /\ items[file[n].name].priority = file[n].priority
      BY <3>1 DEF Covers, Applied
    <3>3. \A x \in Names \ Listed(file) : ~items[x].on
      BY <3>1 DEF Covers
    <3>4. \A x \in Listed(file) : x \in Names /\ items[x].on
      BY <3>1, <3>2, EntryOf, LineType
    <3>5. {x \in Names : items[x].on} = Listed(file)
      BY <3>3, <3>4
    <3>6. QED
      BY <3>2, <3>5 DEF Entries
  <2>2. QED
    BY <1>1, <2>1 DEF ItemsInv, AppliedMatches
<1>2. QED
  BY <1>1, InitItems, NextItems, PTL DEF ItemsSpec
=============================================================================
