-------------------------------- MODULE MCVideos --------------------------------
(****************************************************************************)
(* The tables around the videos, for TLC: the order of the scrape queue,    *)
(* the counts of donations, what is served of a video, and the commands     *)
(* that apply a file of items or links.  They share no variable, so one run *)
(* checks them side by side: a behaviour is one of them, the scene, and     *)
(* leaves the others alone.                                                 *)
(****************************************************************************)
EXTENDS ClaimOrder, DonationCounts, VideoFeed, MonitoredItems, LinkImport, TLC

VARIABLE scene

sceneVars == <<scene, claimVars, vars, feedVars, itemVars, importVars>>

\* A row of the scrape queue.
Row(s, n, d, k) == [status |-> s, count |-> n, date |-> d, checks |-> k,
                    tried |-> 1]

\* What a scene does not touch starts in one state.  Of three rows two may be
\* alike, the first ones: their order is that of the keys.
SceneInit ==
    /\ scene \in {"claims", "counts", "feed", "items", "links"}
    /\ ClaimInit /\ Init /\ FeedInit /\ ItemsInit /\ ImportInit
    /\ scene = "claims" => \A i \in {1, 2} : queue[i] # queue[3]
    /\ scene # "claims" => queue \in [Ids -> {Row("pending", 1, 3, 0)}]
    /\ scene # "counts" => shows = [d \in Donors |-> Videos]
    /\ scene # "feed" => monitored = Keywords

\* The command runs twice, or tasks are tried again: not both.
EitherTrouble == runs < 2 \/ \A d \in Donors : tries[d] = 0

SceneNext ==
    /\ UNCHANGED scene
    /\ \/ /\ scene = "claims" /\ ClaimNext
          /\ UNCHANGED <<vars, feedVars, itemVars, importVars>>
       \/ /\ scene = "counts" /\ Next /\ EitherTrouble'
          /\ UNCHANGED <<claimVars, feedVars, itemVars, importVars>>
       \/ /\ scene = "feed" /\ FeedNext
          /\ UNCHANGED <<claimVars, vars, itemVars, importVars>>
       \/ /\ scene = "items" /\ ItemsNext
          /\ UNCHANGED <<claimVars, vars, feedVars, importVars>>
       \/ /\ scene = "links" /\ ImportNext
          /\ UNCHANGED <<claimVars, vars, feedVars, itemVars>>

SceneSpec == SceneInit /\ [][SceneNext]_sceneVars

\* The variables of the scenes hold values of their types.
EveryTypeOK == ClaimTypeOK /\ TypeOK /\ FeedTypeOK /\ ImportTypeOK

\* The lists of links stand for what their cells lead to.
ASSUME SampleListsAssumption == Understood

-----------------------------------------------------------------------------
\* Rows on either side of the thresholds: a count of 2 is many donors, 3
\* checks are the last.
Samples == {
    Row("pending", 2, 2, 0),     Row("failed", 3, 1, 0),
    Row("pending", 1, 3, 0),     Row("pending", 2, NoDate, 0),
    Row("unavailable", 2, 3, 2), Row("unavailable", 2, 3, 3)}

\* Every video mentions every keyword.  An early interaction within the
\* window, and a later one after it.
AllMentions == Clips \X Keywords
EarlyAndLate == {[last |-> 1, window |-> TRUE], [last |-> 2, window |-> FALSE]}

\* Files that differ in names and priorities; one lists a name twice.
Line(x, p) == [name |-> x, priority |-> p]
Accounts == {"a", "b", "c"}
SampleFiles == {
    <<Line("a", 1), Line("b", 2), Line("a", 2)>>,
    <<Line("b", 1), Line("c", 1)>>,
    <<Line("a", 1), Line("c", 2)>>}

\* A long list with a chunk that leads nowhere, and a short one.
Part(word, number) == [word |-> word, number |-> number]
Link(word, number) ==
    [number |-> 0, path |-> <<Part("user", 0), Part(word, 0), Part("", number)>>]
Bare(number) == [number |-> number, path |-> <<Part("", number)>>]
ShortLink == [number |-> 0, path |-> <<Part("code", 0)>>]
SampleLists == {
    [chunks |-> <<{Link("photo", 1), ShortLink}, {ShortLink}, {Link("video", 2)}>>,
     means |-> {1, 2}],
    [chunks |-> <<{Bare(1)}>>, means |-> {1}]}

Interchangeable ==
    Permutations(Claims) \cup Permutations(Calls)
        \cup Permutations(OtherWriters)
=============================================================================
