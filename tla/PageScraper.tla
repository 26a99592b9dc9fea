------------------------------ MODULE PageScraper -------------------------------
(****************************************************************************)
(* The client of TikTok's web pages: a list of items is asked for one by    *)
(* one, paced, in a session whose cookies come from the main page; a        *)
(* request that is refused is tried once more in a new session.  Time is    *)
(* kept relative to the next request that is due.                           *)
(****************************************************************************)
EXTENDS Integers, Sequences

CONSTANTS
    ListLength,   \* how many items the list has
    RateDelay,    \* time between the starts of two page requests, on average
    RateJitter,   \* how much the time varies
    Pauses,       \* how long a request, or storing a result, may take
    CaptionLists  \* what a video may list as captions

ASSUME PageScraperAssumption ==
    ListLength \in Nat /\ RateDelay \in Nat /\ RateJitter \in 0..RateDelay /\ Pauses \subseteq Nat

VARIABLES
    asking,       \* what the scraper is about to do
    tries,        \* attempts at the current item
    cookies,      \* whether the session has cookies
    refusals,     \* page requests refused in a row in this session
    due,          \* time until the next page request is due
    since,        \* time since the last attempt began, up to Longest
    gap,          \* time between the last two attempts, up to Longest
    page,         \* the page that was loaded last, none or one
    answers       \* what was yielded: one answer per item

pageVars == <<asking, tries, cookies, refusals, due, since, gap, page, answers>>

Longest == RateDelay + RateJitter
Intervals == (RateDelay - RateJitter)..Longest

-----------------------------------------------------------------------------
(* Pages and captions.                                                      *)

\* A page: whether it has the data script and that is JSON, how far the path
\* to the item leads (4 is all the way) and the status found where it ends.
Pages == {[script |-> s, depth |-> 0, status |-> 0] : s \in {"none", "invalid"}}
            \cup [script : {"json"}, depth : 0..4, status : {0, 10204}]

Outcome(p) ==
    CASE p.script = "none" -> "missing_data"
      [] p.script = "invalid" -> "bad_data"
      [] p.depth = 4 -> "data"
      [] p.depth < 4 /\ p.status # 0 -> "unavailable"
      [] OTHER -> "unexpected"

\* The first caption in the video's own language that is WebVTT and has a link.
Original(list) ==
    LET fit == {i \in 1..Len(list) : list[i] = [original |-> TRUE, webvtt |-> TRUE, url |-> TRUE]}
    IN {list[i] : i \in {n \in fit : \A m \in fit : n <= m}}

-----------------------------------------------------------------------------
(* The scraper.                                                             *)

AtMost(limit, n) == IF n < limit THEN n ELSE limit

\* Whatever takes time counts towards the interval.
Spend(d) ==
    /\ due' = due - AtMost(due, d)
    /\ since' = AtMost(Longest, since + d)
    /\ UNCHANGED gap

\* The next request is counted from before the wait.
PaceMistaken(interval) ==
    /\ gap' = AtMost(Longest, since + due)
    /\ since' = 0
    /\ due' = interval - AtMost(interval, due)

\* Waits until a request is due, and chooses when the next one will be.
Pace(interval) ==
    /\ gap' = AtMost(Longest, since + due)
    /\ since' = 0
    /\ due' = interval

Yield(outcome) ==
    /\ answers' = Append(answers, [outcome |-> outcome, tries |-> tries, caption |-> {}])
    /\ asking' = "answered"

NextItem ==
    /\ asking = "next" /\ Len(answers) < ListLength
    /\ \E i \in Intervals : Pace(i)
    /\ asking' = "open" /\ tries' = 1 /\ page' = {}
    /\ UNCHANGED <<cookies, refusals, answers>>

\* Refused for the first time: new cookies and one more try, paced too.  The
\* second time the answer is a block, and the session stays as it is.
Refused(r) ==
    IF tries = 1
    THEN /\ cookies' = FALSE /\ refusals' = 0
         /\ \E i \in Intervals : Pace(i)
         /\ asking' = "open" /\ tries' = 2 /\ UNCHANGED answers
    ELSE /\ Yield("blocked") /\ refusals' = r
         /\ UNCHANGED <<cookies, tries, due, since, gap>>

\* A session without cookies asks for the main page first, at once.
OpenSession ==
    /\ asking = "open" /\ ~cookies
    /\ \/ \E d \in Pauses : Spend(d) /\ cookies' = TRUE
          /\ asking' = "page" /\ UNCHANGED <<refusals, tries, answers>>
       \/ Refused(refusals)
       \/ Yield("failed") /\ UNCHANGED <<cookies, refusals, tries, due, since, gap>>
    /\ UNCHANGED page

KeepSession ==
    /\ asking = "open" /\ cookies
    /\ asking' = "page"
    /\ UNCHANGED <<tries, cookies, refusals, due, since, gap, page, answers>>

\* The page itself: loaded, refused, or no answer and other errors.
LoadPage ==
    /\ asking = "page"
    /\ \/ \E p \in Pages, d \in Pauses :
              /\ page' = {p} /\ Spend(d) /\ Yield(Outcome(p))
              /\ refusals' = 0 /\ UNCHANGED <<cookies, tries>>
       \/ Refused(refusals + 1) /\ UNCHANGED page
       \/ Yield("failed") /\ UNCHANGED <<cookies, refusals, tries, due, since, gap, page>>

\* The caption of a video goes to another host, unpaced; a refusal there is a
\* failed caption and nothing else.
FetchCaption ==
    /\ asking = "answered" /\ answers[Len(answers)].outcome = "data"
    /\ answers[Len(answers)].caption = {}
    /\ \E list \in CaptionLists, d \in Pauses :
          \E status \in IF Original(list) = {} THEN {"none_available"} ELSE {"fetched", "failed"} :
             /\ answers' = [answers EXCEPT ![Len(answers)].caption = {status}]
             /\ IF Original(list) = {} THEN UNCHANGED <<due, since, gap>> ELSE Spend(d)
    /\ UNCHANGED <<asking, tries, cookies, refusals, page>>

\* The caller stores the result and asks for the next one.
GoOn ==
    /\ asking = "answered"
    /\ \E d \in Pauses : Spend(d)
    /\ asking' = "next"
    /\ UNCHANGED <<tries, cookies, refusals, page, answers>>

-----------------------------------------------------------------------------
PagesInit ==
    /\ asking = "next" /\ tries = 0 /\ cookies = FALSE /\ refusals = 0
    /\ due = 0 /\ since = Longest /\ gap = Longest /\ page = {} /\ answers = <<>>

PagesNext == NextItem \/ OpenSession \/ KeepSession \/ LoadPage \/ FetchCaption \/ GoOn

PagesSpec == PagesInit /\ [][PagesNext]_pageVars

-----------------------------------------------------------------------------
\* What the variables may hold.
PagesTypeOK ==
    /\ asking \in {"next", "open", "page", "answered"} /\ tries \in 0..2
    /\ cookies \in BOOLEAN /\ refusals \in Nat
    /\ due \in 0..Longest /\ since \in 0..Longest /\ gap \in 0..Longest
    /\ Len(answers) <= ListLength

\* Attempts, the second ones included, begin at least the shortest interval
\* apart, whatever happened between them (_pace); a second attempt never uses
\* the refused session, which serves one more item at the most before it is
\* dropped; and an item is called blocked only when both attempts were refused
\* (_scrape_with_fresh_session_on_block).
RequestsPaced ==
    /\ gap >= RateDelay - RateJitter
    /\ refusals <= 1 /\ (tries = 2 /\ asking = "page" => refusals = 0)
    /\ \A i \in 1..Len(answers) : answers[i].outcome = "blocked" => answers[i].tries = 2
=============================================================================
