-------------------------- MODULE ParticipationProofs --------------------------
(****************************************************************************)
(* Proofs about Participation, for any number of tabs, data requests, calls *)
(* and things that go wrong: the types, one active data request, the        *)
(* donation before the questionnaire, and the takeout that may be           *)
(* submitted.  And about what becomes of what was submitted, DonatedData,   *)
(* for any exports: nothing of it is lost, and the promises are kept.       *)
(****************************************************************************)
EXTENDS Participation, DonatedData, FiniteSetTheorems, TLAPS

USE ParticipationAssumption

-----------------------------------------------------------------------------
(****************************************************************************)
(* The donation comes before the questionnaire                              *)
(****************************************************************************)

LEMMA StepStep ==
    ASSUME QuestionnaireAfterDonation, [ParticipationNext]_participationVars
    PROVE  QuestionnaireAfterDonation'
<1> USE DEF QuestionnaireAfterDonation
\* Whoever leaves the step and the donations alone.
<1>0. ASSUME UNCHANGED <<step, stored>> PROVE QuestionnaireAfterDonation'
  BY <1>0
<1>1. ASSUME NEW t \in Tabs, Forward(t) PROVE QuestionnaireAfterDonation'
  <2>1. CASE Consent(t)
    BY <2>1 DEF Consent, pipelineVars
  <2>2. CASE ConsentToUpload(t)
    BY <2>2 DEF ConsentToUpload
  <2>3. CASE Respond(t)
    BY <2>3 DEF Respond, pipelineVars
  <2>4. CASE Switch(t)
    <3>1. step' = 2
      BY <2>4 DEF Switch
    <3>2. QED
      BY <3>1
  <2>5. CASE Connect(t) \/ Callback(t) \/ Poll(t) \/ OpenDonation(t) \/ Fetch(t)
    BY <2>5, <1>0 DEF Connect, Callback, Poll, OpenDonation, Fetch, serverVars,
                      pipelineVars
  <2>6. CASE Submit(t) \/ Retry(t) \/ GoBack(t)
    BY <2>6, <1>0 DEF Submit, Retry, GoBack, serverVars, pipelineVars
  <2>7. QED
    BY <1>1, <2>1, <2>2, <2>3, <2>4, <2>5, <2>6 DEF Forward
<1>2. ASSUME NEW c \in calls, Serve(c) PROVE QuestionnaireAfterDonation'
  <2>1. CASE PollSaved(c)
    BY <2>1 DEF PollSaved, Advanced, pipelineVars
  <2>2. CASE SubmitCommits(c)
    BY <2>2 DEF SubmitCommits
  <2>3. CASE Issue(c) \/ IssueFails(c) \/ IssueLost(c) \/ PollAnswered(c)
                \/ PollFails(c)
    BY <2>3, <1>0 DEF Issue, IssueFails, IssueLost, PollAnswered, PollFails,
                      serverVars, pipelineVars
  <2>4. CASE StreamRefused(c) \/ Streamed(c) \/ StreamBreaks(c)
    BY <2>4, <1>0 DEF StreamRefused, Streamed, StreamBreaks, serverVars,
                      pipelineVars
  <2>5. QED
    BY <1>2, <2>1, <2>2, <2>3, <2>4 DEF Serve
<1>3. ASSUME \/ \E t \in Tabs : Reload(t)
             \/ \E r \in RequestIds : Collected(r) \/ Ended(r)
             \/ \E d \in tasks : Process(d)
             \/ CacheExpires \/ Leave \/ UNCHANGED participationVars
      PROVE  QuestionnaireAfterDonation'
  BY <1>3, <1>0 DEF Reload, Collected, Ended, Process, CacheExpires, Leave,
                    serverVars, pipelineVars, participationVars
<1>4. QED
  BY <1>1, <1>2, <1>3 DEF ParticipationNext

\* Nobody gets to the questionnaire without a donation that is stored.
THEOREM DonationFirst == ParticipationSpec => []QuestionnaireAfterDonation
<1>1. ParticipationInit => QuestionnaireAfterDonation
  BY DEF ParticipationInit, QuestionnaireAfterDonation
<1>2. QED
  BY <1>1, StepStep, PTL DEF ParticipationSpec

-----------------------------------------------------------------------------
(****************************************************************************)
(* The types                                                                *)
(****************************************************************************)

CallType == [kind : {"callback", "poll", "stream", "submit"}, tab : Tabs,
             id : Nat, read : Statuses, seen : 0..4, answer : Statuses]
TabType == [page : Pages, busy : BOOLEAN, file : Files]

ServerTypes ==
    /\ step \in 0..4 /\ session \in BOOLEAN /\ cache \in Files
    /\ requests \in [RequestIds -> Statuses]
    /\ remote \in [RequestIds -> Statuses]
TabsType == tabs \in [Tabs -> TabType]

\* A call that asks TikTok was begun for a request that was active, one that
\* submits at the step of the donation.
CallsType ==
    \A c \in calls :
        /\ c \in CallType
        /\ c.kind \in {"poll", "stream"} =>
               c.id \in RequestIds /\ requests[c.id] # "none" /\ c.read \in Active
        /\ c.kind = "submit" => c.seen = 2
RequestsIssued == \A r \in RequestIds : requests[r] # "none" => remote[r] # "none"
Submitted ==
    \A d \in tasks \cup handled \cup blank :
        d \in stored \/ \E c \in calls : c.kind = "submit" /\ c.id = d

TypeInv ==
    ServerTypes /\ TabsType /\ CallsType /\ RequestsIssued /\ Submitted

LEMMA StepPageType ==
    ASSUME step \in 0..4
    PROVE  /\ StepPages[step + 1] \in Pages
           /\ StepPages[step + 1] # "upload"
           /\ StepPages[step + 1] = "donation" => step = 2
<1>1. step \in {0, 1, 2, 3, 4}
  OBVIOUS
<1>2. \A n \in 1..5 : StepPages[n] \in Pages
  BY DEF Pages
<1>3. QED
  BY <1>1, <1>2 DEF StepPages

LEMMA DonationPageType ==
    ASSUME ServerTypes
    PROVE  /\ DonationPage \in Pages /\ StartPage \in Pages
           /\ DonationPage = "donation" => step = 2
<1>1. "infos" \in Pages
  <2>1. StepPages[2] = "infos"
    BY DEF StepPages
  <2>2. QED
    BY <2>1 DEF Pages
<1>2. "loop" \in Pages
  BY DEF Pages
<1>3. DonationPage \in {"infos", "loop", StepPages[step + 1]}
  BY DEF DonationPage, ServerTypes
<1>4. StartPage \in {DonationPage, StepPages[step + 1]}
  BY DEF StartPage
<1>5. QED
  BY <1>1, <1>2, <1>3, <1>4, StepPageType DEF ServerTypes

LEMMA PagesKnown ==
    {"start", "infos", "donation", "questionnaire", "debriefing", "tiktok",
     "await", "available", "upload", "loop"} \cup ErrorPages \subseteq Pages
<1>1. {StepPages[n] : n \in 1..5} =
          {"start", "infos", "donation", "questionnaire", "debriefing"}
  <2>1. /\ StepPages[1] = "start" /\ StepPages[2] = "infos"
        /\ StepPages[3] = "donation" /\ StepPages[4] = "questionnaire"
        /\ StepPages[5] = "debriefing"
    BY DEF StepPages
  <2>2. 1..5 = {1, 2, 3, 4, 5}
    OBVIOUS
  <2>3. QED
    BY <2>1, <2>2
<1>2. QED
  BY <1>1 DEF Pages

LEMMA ShowType ==
    ASSUME TabsType, NEW t \in Tabs, NEW page \in Pages, Show(t, page)
    PROVE  TabsType'
  BY DEF TabsType, TabType, Show, Files

LEMMA AnswerType ==
    ASSUME TabsType, NEW c \in CallType, NEW page \in Pages, Answer(c, page)
    PROVE  TabsType'
<1>1. c.tab \in Tabs
  BY DEF CallType
<1>2. CASE tabs[c.tab].busy
  BY <1>1, <1>2, ShowType DEF Answer
<1>3. CASE ~tabs[c.tab].busy
  BY <1>3 DEF Answer, TabsType
<1>4. QED
  BY <1>2, <1>3

\* A call as it begins.
LEMMA CallIsCall ==
    ASSUME ServerTypes, NEW t \in Tabs, NEW r \in RequestIds \cup {0},
           NEW kind \in {"callback", "poll", "stream", "submit"}
    PROVE  /\ Call(kind, t, r) \in CallType
           /\ Call(kind, t, r).kind = kind /\ Call(kind, t, r).tab = t
           /\ Call(kind, t, r).id = r /\ Call(kind, t, r).seen = step
           /\ r # 0 => Call(kind, t, r).read = requests[r]
<1>1. r \in Nat
  BY DEF RequestIds
<1>2. (IF r = 0 THEN "none" ELSE requests[r]) \in Statuses
  <2>1. "none" \in Statuses
    BY DEF Statuses
  <2>2. r # 0 => requests[r] \in Statuses
    BY DEF ServerTypes
  <2>3. QED
    BY <2>1, <2>2
<1>3. "none" \in Statuses
  BY DEF Statuses
<1>4. step \in 0..4
  BY DEF ServerTypes
<1>5. QED
  BY <1>1, <1>2, <1>3, <1>4 DEF Call, CallType

LEMMA StartCallType ==
    ASSUME TabsType, NEW c, c.tab \in Tabs, StartCall(c)
    PROVE  TabsType'
  BY DEF TabsType, TabType, StartCall

LEMMA TypeInit == ParticipationInit => TypeInv
<1> SUFFICES ASSUME ParticipationInit PROVE TypeInv
  OBVIOUS
<1>1. ServerTypes
  <2>1. step \in 0..4 /\ session \in BOOLEAN /\ cache \in Files
    <3>1. step = 0 /\ session = FALSE /\ cache = "nothing"
      BY DEF ParticipationInit
    <3>2. step \in 0..4
      BY <3>1
    <3>3. session \in BOOLEAN
      BY <3>1
    <3>4. QED
      BY <3>1, <3>2, <3>3 DEF Files
  <2>2. "none" \in Statuses
    BY DEF Statuses
  <2>3. /\ requests \in [RequestIds -> Statuses]
        /\ remote \in [RequestIds -> Statuses]
    BY <2>2 DEF ParticipationInit
  <2>4. QED
    BY <2>1, <2>3 DEF ServerTypes
<1>2. TabsType
  BY PagesKnown DEF ParticipationInit, TabsType, TabType, Files
<1>3. CallsType /\ RequestsIssued /\ Submitted
  BY DEF ParticipationInit, CallsType, RequestsIssued, Submitted
<1>4. QED
  BY <1>1, <1>2, <1>3 DEF TypeInv

\* The step, the session, the requests here and at TikTok, the cache.
LEMMA ServerStep ==
    ASSUME TypeInv, [ParticipationNext]_participationVars
    PROVE  ServerTypes' /\ RequestsIssued'
<1>a. ServerTypes /\ TabsType /\ CallsType /\ RequestsIssued
  BY DEF TypeInv
<1>0. ASSUME UNCHANGED <<step, requests, remote, session, cache>>
      PROVE  ServerTypes' /\ RequestsIssued'
  BY <1>a, <1>0 DEF ServerTypes, RequestsIssued
<1>1. ASSUME NEW t \in Tabs, Forward(t) PROVE ServerTypes' /\ RequestsIssued'
  <2>1. CASE Consent(t) \/ ConsentToUpload(t) \/ Respond(t) \/ Switch(t)
    <3>1. step' \in {step, 1, 2, 4}
      <4>1. Consent(t) => step' \in {step, 1}
        BY DEF Consent
      <4>2. ConsentToUpload(t) \/ Switch(t) => step' = 2
        BY DEF ConsentToUpload, Switch
      <4>3. Respond(t) => step' \in {step, 4}
        BY DEF Respond
      <4>4. QED
        BY <2>1, <4>1, <4>2, <4>3
    <3>2. UNCHANGED <<requests, remote, session, cache>>
      BY <2>1 DEF Consent, ConsentToUpload, Respond, Switch
    <3>3. step' \in 0..4
      BY <1>a, <3>1 DEF ServerTypes
    <3>4. QED
      BY <1>a, <3>2, <3>3 DEF ServerTypes, RequestsIssued
  <2>2. CASE Callback(t)
    <3>1. session' \in BOOLEAN /\ UNCHANGED <<step, requests, remote, cache>>
      BY <1>a, <2>2 DEF Callback, ServerTypes
    <3>2. QED
      BY <1>a, <3>1 DEF ServerTypes, RequestsIssued
  <2>3. CASE Fetch(t)
    <3>1. cache' \in Files /\ UNCHANGED <<step, requests, remote, session>>
      BY <1>a, <2>3 DEF Fetch, ServerTypes, Files, serverVars
    <3>2. QED
      BY <1>a, <3>1 DEF ServerTypes, RequestsIssued
  <2>4. CASE Connect(t) \/ Poll(t) \/ OpenDonation(t) \/ Submit(t) \/ Retry(t)
                \/ GoBack(t)
    BY <2>4, <1>0 DEF Connect, Poll, OpenDonation, Submit, Retry, GoBack,
                      serverVars
  <2>5. QED
    BY <1>1, <2>1, <2>2, <2>3, <2>4 DEF Forward
<1>2. ASSUME NEW c \in calls, Serve(c) PROVE ServerTypes' /\ RequestsIssued'
  <2>a. /\ c \in CallType
        /\ c.kind \in {"poll", "stream"} =>
               c.id \in RequestIds /\ requests[c.id] # "none"
        /\ c.kind = "submit" => c.seen = 2
    BY <1>a DEF CallsType
  \* A status is saved: of a request that was issued.
  <2>b. ASSUME NEW s \in Statuses \ {"none"}, Save(c, s), c.kind \in {"poll", "stream"},
               UNCHANGED remote
        PROVE  requests' \in [RequestIds -> Statuses] /\ RequestsIssued'
    <3>1. requests' = [requests EXCEPT ![c.id] = s]
      BY <2>b DEF Save
    <3>2. QED
      BY <1>a, <2>a, <2>b, <3>1 DEF ServerTypes, RequestsIssued
  <2>1. CASE Issue(c)
    <3>1. PICK r \in RequestIds :
              /\ remote' = [remote EXCEPT ![r] = "pending"]
              /\ requests' = [requests EXCEPT ![r] = "not polled"]
      BY <2>1 DEF Issue
    <3>2. session' \in BOOLEAN /\ UNCHANGED <<step, cache>>
      BY <2>1 DEF Issue
    <3>3. QED
      BY <1>a, <3>1, <3>2 DEF ServerTypes, RequestsIssued, Statuses
  <2>2. CASE IssueFails(c)
    <3>1. session' \in BOOLEAN /\ UNCHANGED <<step, requests, remote, cache>>
      BY <2>2 DEF IssueFails
    <3>2. QED
      BY <1>a, <3>1 DEF ServerTypes, RequestsIssued
  <2>3. CASE IssueLost(c)
    <3>1. PICK r \in RequestIds : remote' = [remote EXCEPT ![r] = "pending"]
      BY <2>3 DEF IssueLost
    <3>2. UNCHANGED <<step, requests, session, cache>>
      BY <2>3 DEF IssueLost, serverVars
    <3>3. QED
      BY <1>a, <3>1, <3>2 DEF ServerTypes, RequestsIssued, Statuses
  <2>4. CASE PollSaved(c)
    <3>1. /\ c.kind = "poll" /\ Save(c, c.answer) /\ c.answer \in Statuses \ {"none"}
          /\ UNCHANGED <<remote, session, cache>>
      BY <2>a, <2>4 DEF PollSaved, CallType
    <3>2. step' \in 0..4
      BY <1>a, <2>4 DEF PollSaved, Advanced, ServerTypes
    <3>3. QED
      BY <1>a, <2>b, <3>1, <3>2 DEF ServerTypes
  <2>5. CASE Streamed(c)
    <3>1. /\ c.kind = "stream" /\ Save(c, "downloaded")
          /\ UNCHANGED <<step, remote, session>> /\ cache' \in {cache, "takeout"}
      BY <2>5 DEF Streamed
    <3>2. "downloaded" \in Statuses \ {"none"} /\ "takeout" \in Files
      BY DEF Statuses, Files
    <3>3. QED
      BY <1>a, <2>b, <3>1, <3>2 DEF ServerTypes
  <2>6. CASE StreamBreaks(c)
    <3>1. /\ c.kind = "stream" /\ Save(c, "failed")
          /\ UNCHANGED <<step, remote, session, cache>>
      BY <2>6 DEF StreamBreaks
    <3>2. "failed" \in Statuses \ {"none"}
      BY DEF Statuses
    <3>3. QED
      BY <1>a, <2>b, <3>1, <3>2 DEF ServerTypes
  <2>7. CASE SubmitCommits(c)
    <3>1. step' \in 0..4
      BY <2>a, <2>7 DEF SubmitCommits
    <3>2. UNCHANGED <<requests, remote, session, cache>>
      BY <2>7 DEF SubmitCommits
    <3>3. QED
      BY <1>a, <3>1, <3>2 DEF ServerTypes, RequestsIssued
  <2>8. CASE PollAnswered(c) \/ PollFails(c) \/ StreamRefused(c)
    BY <2>8, <1>0 DEF PollAnswered, PollFails, StreamRefused, serverVars
  <2>9. QED
    BY <1>2, <2>1, <2>2, <2>3, <2>4, <2>5, <2>6, <2>7, <2>8 DEF Serve
<1>3. ASSUME NEW r \in RequestIds, Collected(r) \/ Ended(r)
      PROVE  ServerTypes' /\ RequestsIssued'
  <2>1. PICK s \in Statuses \ {"none"} : remote' = [remote EXCEPT ![r] = s]
    BY <1>3 DEF Collected, Ended, Statuses
  <2>2. UNCHANGED <<step, requests, session, cache>>
    BY <1>3 DEF Collected, Ended, serverVars
  <2>3. QED
    BY <1>a, <2>1, <2>2 DEF ServerTypes, RequestsIssued
<1>4. CASE CacheExpires
  <2>1. cache' \in Files /\ UNCHANGED <<step, requests, remote, session>>
    BY <1>4 DEF CacheExpires, Files, serverVars
  <2>2. QED
    BY <1>a, <2>1 DEF ServerTypes, RequestsIssued
<1>5. CASE (\E t \in Tabs : Reload(t)) \/ (\E d \in tasks : Process(d))
               \/ Leave \/ UNCHANGED participationVars
  BY <1>5, <1>0 DEF Reload, Process, Leave, serverVars, participationVars
<1>6. QED
  BY <1>1, <1>2, <1>3, <1>4, <1>5 DEF ParticipationNext

\* What the tabs show.
LEMMA TabsStep ==
    ASSUME TypeInv, [ParticipationNext]_participationVars
    PROVE  TabsType'
<1>a. ServerTypes /\ TabsType /\ CallsType
  BY DEF TypeInv
<1>b. StepPages[step + 1] \in Pages /\ DonationPage \in Pages /\ StartPage \in Pages
  BY <1>a, StepPageType, DonationPageType DEF ServerTypes
<1>0. ASSUME UNCHANGED tabs PROVE TabsType'
  BY <1>a, <1>0 DEF TabsType
<1>1. ASSUME NEW t \in Tabs, Forward(t) PROVE TabsType'
  <2>1. CASE Consent(t) \/ Respond(t)
    <3>1. PICK page \in Pages : Show(t, page)
      BY <1>b, <2>1, PagesKnown DEF Consent, Respond
    <3>2. QED
      BY <1>a, <3>1, ShowType
  <2>2. CASE ConsentToUpload(t) \/ Connect(t) \/ OpenDonation(t) \/ Retry(t)
                \/ Switch(t) \/ GoBack(t)
    <3>1. PICK page \in Pages : Show(t, page)
      BY <1>b, <2>2, PagesKnown
         DEF ConsentToUpload, Connect, OpenDonation, Retry, Switch, GoBack
    <3>2. QED
      BY <1>a, <3>1, ShowType
  <2>3. CASE Callback(t)
    <3>1. CASE \E page \in Pages : Show(t, page)
      BY <1>a, <3>1, ShowType
    <3>2. CASE StartCall(Call("callback", t, 0))
      <4>1. Call("callback", t, 0).tab = t
        BY <1>a, CallIsCall
      <4>2. QED
        BY <1>a, <3>2, <4>1, StartCallType
    <3>3. QED
      BY <2>3, <3>1, <3>2, PagesKnown DEF Callback, ErrorPages
  <2>4. CASE Poll(t)
    <3>1. CASE Show(t, "infos")
      BY <1>a, <3>1, ShowType, PagesKnown
    <3>2. ASSUME NEW r \in RequestIds, StartCall(Call("poll", t, r)) PROVE TabsType'
      <4>1. Call("poll", t, r).tab = t
        BY <1>a, CallIsCall
      <4>2. QED
        BY <1>a, <3>2, <4>1, StartCallType
    <3>3. QED
      BY <2>4, <3>1, <3>2 DEF Poll
  <2>5. CASE Fetch(t)
    <3>1. ASSUME NEW f \in Files, tabs' = [tabs EXCEPT ![t].file = f]
          PROVE  TabsType'
      BY <1>a, <3>1 DEF TabsType, TabType
    <3>2. ASSUME NEW r \in RequestIds, StartCall(Call("stream", t, r)) PROVE TabsType'
      <4>1. Call("stream", t, r).tab = t
        BY <1>a, CallIsCall
      <4>2. QED
        BY <1>a, <3>2, <4>1, StartCallType
    <3>3. cache \in Files /\ "web page" \in Files
      BY <1>a DEF ServerTypes, Files
    <3>4. QED
      BY <2>5, <3>1, <3>2, <3>3 DEF Fetch
  <2>6. CASE Submit(t)
    <3>1. ASSUME NEW page \in Pages, Show(t, page) PROVE TabsType'
      BY <1>a, <3>1, ShowType
    <3>2. ASSUME NEW d, StartCall([Call("submit", t, 0) EXCEPT !.id = d])
          PROVE  TabsType'
      <4>1. [Call("submit", t, 0) EXCEPT !.id = d].tab = t
        BY <1>a, CallIsCall DEF CallType
      <4>2. QED
        BY <1>a, <3>2, <4>1, StartCallType
    <3>3. QED
      BY <1>b, <2>6, <3>1, <3>2, PagesKnown DEF Submit
  <2>7. QED
    BY <1>1, <2>1, <2>2, <2>3, <2>4, <2>5, <2>6 DEF Forward
<1>2. ASSUME NEW c \in calls, Serve(c) PROVE TabsType'
  <2>a. c \in CallType /\ c.tab \in Tabs
    BY <1>a DEF CallsType, CallType
  <2>b. ASSUME NEW page \in Pages, Answer(c, page) PROVE TabsType'
    BY <1>a, <2>a, <2>b, AnswerType
  <2>1. CASE Issue(c) \/ IssueFails(c) \/ IssueLost(c)
    BY <2>1, <2>b, PagesKnown DEF Issue, IssueFails, IssueLost, ErrorPages
  <2>2. CASE PollFails(c) \/ StreamRefused(c) \/ SubmitCommits(c)
    BY <2>2, <2>b, PagesKnown DEF PollFails, StreamRefused, SubmitCommits, ErrorPages
  <2>3. CASE PollSaved(c)
    <3>1. (CASE c.answer = "pending" -> "await"
             [] c.answer = "ready" -> "available"
             [] OTHER -> "request-expired") \in Pages
      BY PagesKnown DEF ErrorPages
    <3>2. QED
      BY <2>3, <2>b, <3>1 DEF PollSaved
  <2>4. CASE Streamed(c) \/ StreamBreaks(c)
    <3>1. PICK f \in Files :
              \/ tabs' = [tabs EXCEPT ![c.tab].file = f, ![c.tab].busy = FALSE]
              \/ UNCHANGED tabs
      BY <2>4 DEF Streamed, StreamBreaks, Files
    <3>2. QED
      BY <1>a, <2>a, <3>1 DEF TabsType, TabType
  <2>5. CASE PollAnswered(c)
    BY <2>5, <1>0 DEF PollAnswered
  <2>6. QED
    BY <1>2, <2>1, <2>2, <2>3, <2>4, <2>5 DEF Serve
<1>3. ASSUME NEW t \in Tabs, Reload(t) PROVE TabsType'
  BY <1>a, <1>b, <1>3, ShowType DEF Reload
<1>4. CASE \/ \E r \in RequestIds : Collected(r) \/ Ended(r)
           \/ \E d \in tasks : Process(d)
           \/ CacheExpires \/ Leave \/ UNCHANGED participationVars
  BY <1>4, <1>0 DEF Collected, Ended, Process, CacheExpires, Leave,
                    participationVars
<1>5. QED
  BY <1>1, <1>2, <1>3, <1>4 DEF ParticipationNext

\* Requests that were issued stay so.
LEMMA IssuedStay ==
    ASSUME TypeInv, [ParticipationNext]_participationVars, ServerTypes',
           NEW r \in RequestIds, requests[r] # "none"
    PROVE  requests'[r] # "none"
<1>a. ServerTypes /\ CallsType
  BY DEF TypeInv
<1>1. CASE UNCHANGED requests
  BY <1>1
<1>2. ASSUME NEW c \in calls, Issue(c) PROVE requests'[r] # "none"
  BY <1>a, <1>2 DEF Issue, ServerTypes
<1>3. ASSUME NEW c \in calls, NEW s \in Statuses \ {"none"}, Save(c, s)
      PROVE  requests'[r] # "none"
  BY <1>a, <1>3 DEF Save, ServerTypes
<1>4. ASSUME NEW c \in calls, PollSaved(c) PROVE requests'[r] # "none"
  <2>1. Save(c, c.answer) /\ c.answer \in Statuses \ {"none"}
    BY <1>a, <1>4 DEF PollSaved, CallsType, CallType
  <2>2. QED
    BY <1>3, <2>1
<1>5. ASSUME NEW c \in calls, Streamed(c) \/ StreamBreaks(c)
      PROVE  requests'[r] # "none"
  BY <1>3, <1>5 DEF Streamed, StreamBreaks, Statuses
<1>6. ASSUME NEW t \in Tabs, Forward(t) \/ Reload(t) PROVE UNCHANGED requests
  <2>1. CASE Consent(t) \/ ConsentToUpload(t) \/ Connect(t) \/ Callback(t) \/ Poll(t)
    BY <2>1 DEF Consent, ConsentToUpload, Connect, Callback, Poll, serverVars
  <2>2. CASE OpenDonation(t) \/ Fetch(t) \/ Submit(t) \/ Respond(t)
    BY <2>2 DEF OpenDonation, Fetch, Submit, Respond, serverVars
  <2>3. CASE Retry(t) \/ Switch(t) \/ GoBack(t) \/ Reload(t)
    BY <2>3 DEF Retry, Switch, GoBack, Reload, serverVars
  <2>4. QED
    BY <1>6, <2>1, <2>2, <2>3 DEF Forward
<1>7. ASSUME NEW c \in calls, Serve(c) PROVE requests'[r] # "none"
  <2>1. CASE \/ IssueFails(c) \/ IssueLost(c) \/ PollAnswered(c) \/ PollFails(c)
             \/ StreamRefused(c) \/ SubmitCommits(c)
    <3>1. UNCHANGED requests
      BY <2>1 DEF IssueFails, IssueLost, PollAnswered, PollFails, StreamRefused,
                  SubmitCommits, serverVars
    <3>2. QED
      BY <3>1
  <2>2. QED
    BY <1>2, <1>4, <1>5, <1>7, <2>1 DEF Serve
<1>8. CASE \/ \E q \in RequestIds : Collected(q) \/ Ended(q)
           \/ \E d \in tasks : Process(d)
           \/ CacheExpires \/ Leave \/ UNCHANGED participationVars
  BY <1>8 DEF Collected, Ended, Process, CacheExpires, Leave, serverVars,
              participationVars
<1>9. QED
  BY <1>1, <1>6, <1>7, <1>8 DEF ParticipationNext

\* What a call carries when it begins.
Fresh(c) ==
    /\ c \in CallType
    /\ c.kind \in {"poll", "stream"} =>
           c.id \in RequestIds /\ requests[c.id] # "none" /\ c.read \in Active
    /\ c.kind = "submit" => c.seen = 2

\* Which calls a step leaves.
LEMMA CallsAfter ==
    ASSUME TypeInv, [ParticipationNext]_participationVars
    PROVE  \/ calls' \subseteq calls
           \/ \E c : Fresh(c) /\ calls' = calls \cup {c}
           \/ \E c \in calls, s \in Statuses :
                  /\ c.kind = "poll"
                  /\ calls' = (calls \ {c}) \cup {[c EXCEPT !.answer = s]}
<1> DEFINE Goal ==
           \/ calls' \subseteq calls
           \/ \E c : Fresh(c) /\ calls' = calls \cup {c}
           \/ \E c \in calls, s \in Statuses :
                  /\ c.kind = "poll"
                  /\ calls' = (calls \ {c}) \cup {[c EXCEPT !.answer = s]}
<1>a. ServerTypes /\ CallsType
  BY DEF TypeInv
<1>0. ASSUME UNCHANGED calls PROVE Goal
  BY <1>0
<1>1. ASSUME NEW t \in Tabs, Forward(t) \/ Reload(t) PROVE Goal
  <2>1. CASE Callback(t)
    <3>1. Fresh(Call("callback", t, 0))
      BY <1>a, CallIsCall DEF Fresh
    <3>2. QED
      BY <2>1, <3>1 DEF Callback, StartCall
  <2>2. ASSUME NEW kind \in {"poll", "stream"}, NEW r \in RequestIds,
               Newest(r, Active), StartCall(Call(kind, t, r))
        PROVE  Goal
    <3>1. requests[r] \in Active
      BY <2>2 DEF Newest, In
    <3>2. requests[r] # "none"
      BY <3>1 DEF Active
    <3>3. r # 0
      BY DEF RequestIds
    <3>4. Fresh(Call(kind, t, r))
      BY <1>a, <3>1, <3>2, <3>3, CallIsCall DEF Fresh
    <3>5. QED
      BY <2>2, <3>4 DEF StartCall
  <2>3. CASE Poll(t) \/ Fetch(t)
    BY <2>2, <2>3 DEF Poll, Fetch
  <2>4. CASE Submit(t)
    <3>1. ASSUME NEW d \in DonationIds,
                 StartCall([Call("submit", t, 0) EXCEPT !.id = d]), step = 2
          PROVE  Goal
      <4>1. Fresh([Call("submit", t, 0) EXCEPT !.id = d])
        BY <1>a, <3>1, CallIsCall DEF Fresh, CallType, DonationIds
      <4>2. QED
        BY <3>1, <4>1 DEF StartCall
    <3>2. (IF tabs[t].page = "donation" THEN DonationPage
           ELSE IF step = 2 THEN "upload" ELSE StepPages[step + 1])
              = tabs[t].page => step = 2
      <4>1. DonationPage = "donation" => step = 2
        BY <1>a, DonationPageType
      <4>2. StepPages[step + 1] # "upload"
        BY <1>a, StepPageType DEF ServerTypes
      <4>3. tabs[t].page \in {"upload", "donation"}
        BY <2>4 DEF Submit
      <4>4. QED
        BY <4>1, <4>2, <4>3
    <3>3. QED
      BY <2>4, <3>1, <3>2 DEF Submit
  <2>5. CASE Consent(t) \/ ConsentToUpload(t) \/ Connect(t) \/ OpenDonation(t)
    BY <2>5, <1>0 DEF Consent, ConsentToUpload, Connect, OpenDonation
  <2>6. CASE Respond(t) \/ Retry(t) \/ Switch(t) \/ GoBack(t) \/ Reload(t)
    BY <2>6, <1>0 DEF Respond, Retry, Switch, GoBack, Reload
  <2>7. QED
    BY <1>1, <2>1, <2>3, <2>4, <2>5, <2>6 DEF Forward
<1>2. ASSUME NEW c \in calls, Serve(c) PROVE Goal
  <2>1. CASE PollAnswered(c)
    <3>1. remote[c.id] \in Statuses
      BY <1>a, <2>1 DEF PollAnswered, CallsType, ServerTypes
    <3>2. QED
      BY <2>1, <3>1 DEF PollAnswered
  <2>2. CASE ~PollAnswered(c)
    BY <1>2, <2>2 DEF Serve, Return, Issue, IssueFails, IssueLost, PollSaved,
                      PollFails, StreamRefused, Streamed, StreamBreaks, SubmitCommits
  <2>3. QED
    BY <2>1, <2>2
<1>3. CASE \/ \E r \in RequestIds : Collected(r) \/ Ended(r)
           \/ \E d \in tasks : Process(d)
           \/ CacheExpires \/ Leave \/ UNCHANGED participationVars
  BY <1>3, <1>0 DEF Collected, Ended, Process, CacheExpires, Leave,
                    participationVars
<1>4. QED
  BY <1>1, <1>2, <1>3 DEF ParticipationNext

LEMMA CallsStep ==
    ASSUME TypeInv, [ParticipationNext]_participationVars
    PROVE  CallsType'
<1>a. ServerTypes /\ CallsType /\ ServerTypes'
  BY ServerStep DEF TypeInv
<1>1. \A c : Fresh(c) => Fresh(c)'
  BY <1>a, IssuedStay DEF Fresh
<1>2. \A c \in calls : Fresh(c)
  BY <1>a DEF CallsType, Fresh
<1>3. ASSUME NEW c \in calls, NEW s \in Statuses, c.kind = "poll"
      PROVE  Fresh([c EXCEPT !.answer = s])
  BY <1>2, <1>3 DEF Fresh, CallType
<1>4. \A c \in calls' : Fresh(c)'
  BY <1>1, <1>2, <1>3, CallsAfter
<1>5. QED
  BY <1>4 DEF CallsType, Fresh

\* A donation somebody knows of is stored, or on its way.
LEMMA SubmittedStep ==
    ASSUME TypeInv, [ParticipationNext]_participationVars
    PROVE  Submitted'
<1>a. ServerTypes /\ CallsType /\ Submitted
  BY DEF TypeInv
<1> DEFINE Known == tasks \cup handled \cup blank
<1>0. ASSUME Known' \subseteq Known, stored \subseteq stored', calls \subseteq calls'
      PROVE  Submitted'
  BY <1>a, <1>0 DEF Submitted
<1>1. ASSUME NEW t \in Tabs, Forward(t) \/ Reload(t) PROVE Submitted'
  <2>1. CASE Submit(t)
    <3>1. ASSUME NEW d \in DonationIds,
                 StartCall([Call("submit", t, 0) EXCEPT !.id = d]),
                 tasks' = tasks \cup {d}, UNCHANGED <<stored, handled, blank>>
          PROVE  Submitted'
      <4>1. /\ [Call("submit", t, 0) EXCEPT !.id = d].kind = "submit"
            /\ [Call("submit", t, 0) EXCEPT !.id = d].id = d
        BY <1>a, CallIsCall DEF CallType
      <4>2. [Call("submit", t, 0) EXCEPT !.id = d] \in calls' /\ calls \subseteq calls'
        BY <3>1 DEF StartCall
      <4>3. QED
        BY <1>a, <3>1, <4>1, <4>2 DEF Submitted
    <3>2. CASE UNCHANGED <<calls, tasks, stored, handled, blank>>
      BY <1>0, <3>2
    <3>3. QED
      BY <2>1, <3>1, <3>2 DEF Submit
  <2>2. CASE ~Submit(t)
    <3>1. UNCHANGED pipelineVars
      <4>1. CASE Consent(t) \/ ConsentToUpload(t) \/ Connect(t) \/ Callback(t) \/ Poll(t)
        BY <4>1 DEF Consent, ConsentToUpload, Connect, Callback, Poll
      <4>2. CASE OpenDonation(t) \/ Fetch(t) \/ Respond(t)
        BY <4>2 DEF OpenDonation, Fetch, Respond
      <4>3. CASE Retry(t) \/ Switch(t) \/ GoBack(t) \/ Reload(t)
        BY <4>3 DEF Retry, Switch, GoBack, Reload
      <4>4. QED
        BY <1>1, <2>2, <4>1, <4>2, <4>3 DEF Forward
    <3>2. calls \subseteq calls'
      <4>1. CASE Consent(t) \/ ConsentToUpload(t) \/ Connect(t) \/ Callback(t) \/ Poll(t)
        BY <4>1 DEF Consent, ConsentToUpload, Connect, Callback, Poll, StartCall
      <4>2. CASE OpenDonation(t) \/ Fetch(t) \/ Respond(t)
        BY <4>2 DEF OpenDonation, Fetch, Respond, StartCall
      <4>3. CASE Retry(t) \/ Switch(t) \/ GoBack(t) \/ Reload(t)
        BY <4>3 DEF Retry, Switch, GoBack, Reload
      <4>4. QED
        BY <1>1, <2>2, <4>1, <4>2, <4>3 DEF Forward
    <3>3. QED
      BY <1>0, <3>1, <3>2 DEF pipelineVars
  <2>3. QED
    BY <2>1, <2>2
<1>2. ASSUME NEW c \in calls, Serve(c) PROVE Submitted'
  <2>1. CASE SubmitCommits(c)
    <3>1. /\ stored' = stored \cup {c.id} /\ calls' = calls \ {c}
          /\ UNCHANGED <<tasks, handled, blank>>
      BY <2>1 DEF SubmitCommits, Return
    <3>2. QED
      BY <1>a, <3>1 DEF Submitted
  <2>2. CASE ~SubmitCommits(c)
    <3>1. c.kind # "submit" /\ UNCHANGED pipelineVars
      <4>1. CASE Issue(c) \/ IssueFails(c) \/ IssueLost(c)
        BY <4>1 DEF Issue, IssueFails, IssueLost
      <4>2. CASE PollAnswered(c) \/ PollSaved(c) \/ PollFails(c)
        BY <4>2 DEF PollAnswered, PollSaved, PollFails
      <4>3. CASE StreamRefused(c) \/ Streamed(c) \/ StreamBreaks(c)
        BY <4>3 DEF StreamRefused, Streamed, StreamBreaks
      <4>4. QED
        BY <1>2, <2>2, <4>1, <4>2, <4>3 DEF Serve
    <3>2. calls \ {c} \subseteq calls'
      BY <1>2, <2>2 DEF Serve, Return, Issue, IssueFails, IssueLost, PollAnswered,
                        PollSaved, PollFails, StreamRefused, Streamed, StreamBreaks
    <3>3. QED
      BY <1>a, <3>1, <3>2 DEF Submitted, pipelineVars
  <2>3. QED
    BY <2>1, <2>2
<1>3. ASSUME NEW d \in tasks, Process(d) PROVE Submitted'
  <2>1. Known' \subseteq Known /\ UNCHANGED <<stored, calls>>
    BY <1>3 DEF Process
  <2>2. QED
    BY <1>0, <2>1
<1>4. CASE \/ \E r \in RequestIds : Collected(r) \/ Ended(r)
           \/ CacheExpires \/ Leave \/ UNCHANGED participationVars
  <2>1. UNCHANGED <<calls, pipelineVars>>
    BY <1>4 DEF Collected, Ended, CacheExpires, Leave, participationVars,
                pipelineVars
  <2>2. QED
    BY <1>0, <2>1 DEF pipelineVars
<1>5. QED
  BY <1>1, <1>2, <1>3, <1>4 DEF ParticipationNext

LEMMA TypeStep ==
    TypeInv /\ [ParticipationNext]_participationVars => TypeInv'
<1>1. ASSUME TypeInv, [ParticipationNext]_participationVars PROVE TypeInv'
  BY <1>1, ServerStep, TabsStep, CallsStep, SubmittedStep DEF TypeInv
<1>2. QED
  BY <1>1

LEMMA TypeHolds == ParticipationSpec => []TypeInv
  BY TypeInit, TypeStep, PTL DEF ParticipationSpec

\* The types; a call works on a request that exists, and a donation is
\* processed only if it was submitted.
THEOREM PortalTyped == ParticipationSpec => []PortalTypeOK
<1>1. ASSUME TypeInv PROVE PortalTypeOK
  <2>1. /\ step \in 0..4 /\ session \in BOOLEAN /\ cache \in Files
        /\ requests \in [RequestIds -> Statuses]
        /\ remote \in [RequestIds -> Statuses]
    BY <1>1 DEF TypeInv, ServerTypes
  <2>2. \A r \in RequestIds : requests[r] # "none" => remote[r] # "none"
    BY <1>1 DEF TypeInv, RequestsIssued
  <2>3. \A c \in calls :
           /\ c.tab \in Tabs /\ c.seen \in 0..4
           /\ c.kind \in {"poll", "stream"} => requests[c.id] # "none"
    BY <1>1 DEF TypeInv, CallsType, CallType
  <2>4. \A t \in Tabs : tabs[t].page \in Pages /\ tabs[t].file \in Files
    BY <1>1 DEF TypeInv, TabsType, TabType
  <2>5. handled \cup blank \subseteq stored \cup {c.id : c \in calls}
    BY <1>1 DEF TypeInv, Submitted
  <2>6. QED
    BY <2>1, <2>2, <2>3, <2>4, <2>5 DEF PortalTypeOK
<1>2. QED
  BY <1>1, TypeHolds, PTL

-----------------------------------------------------------------------------
(****************************************************************************)
(* One active data request                                                  *)
(****************************************************************************)

\* The row of the connection lets one callback pass at a time, and only while
\* no request is active.
Callbacks == {c \in calls : c.kind = "callback"}
OneInv ==
    /\ OneActiveRequest
    /\ \A c, d \in Callbacks : c = d
    /\ Callbacks # {} => In(Active) \subseteq revived

\* A call that saves a status makes no request active that is not revived.
LEMMA SaveActive ==
    ASSUME ServerTypes, NEW c, NEW s, c.id \in RequestIds, Save(c, s)
    PROVE  In(Active)' \ revived' \subseteq In(Active) \ revived
  BY DEF ServerTypes, Save, In

LEMMA OneStep ==
    ASSUME TypeInv, OneInv, [ParticipationNext]_participationVars
    PROVE  OneInv'
<1>a. ServerTypes /\ CallsType
  BY DEF TypeInv
\* No callback begins, and no request becomes active.
<1>0. ASSUME Callbacks' \subseteq Callbacks,
             In(Active)' \ revived' \subseteq In(Active) \ revived
      PROVE  OneInv'
  BY <1>0 DEF OneInv, OneActiveRequest
<1>b. ASSUME UNCHANGED <<requests, revived>>, Callbacks' \subseteq Callbacks PROVE OneInv'
  BY <1>0, <1>b DEF In
<1>1. ASSUME NEW t \in Tabs, Forward(t) \/ Reload(t) PROVE OneInv'
  <2>a. UNCHANGED <<requests, revived>>
    <3>1. CASE Consent(t) \/ ConsentToUpload(t) \/ Connect(t) \/ Callback(t) \/ Poll(t)
      BY <3>1 DEF Consent, ConsentToUpload, Connect, Callback, Poll, serverVars,
                  ghostVars
    <3>2. CASE OpenDonation(t) \/ Fetch(t) \/ Submit(t) \/ Respond(t)
      BY <3>2 DEF OpenDonation, Fetch, Submit, Respond, serverVars, ghostVars
    <3>3. CASE Retry(t) \/ Switch(t) \/ GoBack(t) \/ Reload(t)
      BY <3>3 DEF Retry, Switch, GoBack, Reload, serverVars, ghostVars
    <3>4. QED
      BY <1>1, <3>1, <3>2, <3>3 DEF Forward
  \* A call of another kind begins.
  <2>b. ASSUME NEW c, c.kind # "callback", StartCall(c) PROVE OneInv'
    BY <1>b, <2>a, <2>b DEF StartCall, Callbacks
  <2>c. ASSUME UNCHANGED calls PROVE OneInv'
    BY <1>b, <2>a, <2>c DEF Callbacks
  <2>1. CASE Callback(t)
    <3>1. CASE Unlocked /\ In(Active) = {} /\ StartCall(Call("callback", t, 0))
      <4>1. Callbacks = {} /\ Callbacks' \subseteq {Call("callback", t, 0)}
        BY <3>1 DEF Unlocked, Callbacks, StartCall
      <4>2. In(Active)' = {}
        BY <2>a, <3>1 DEF In
      <4>3. QED
        BY <4>1, <4>2 DEF OneInv, OneActiveRequest
    <3>2. CASE UNCHANGED calls
      BY <2>c, <3>2
    <3>3. QED
      BY <2>1, <3>1, <3>2 DEF Callback
  <2>2. CASE Poll(t) \/ Fetch(t)
    <3>1. \A r \in RequestIds : /\ Call("poll", t, r).kind # "callback"
                                /\ Call("stream", t, r).kind # "callback"
      BY <1>a, CallIsCall
    <3>2. QED
      BY <2>2, <2>b, <2>c, <3>1 DEF Poll, Fetch
  <2>3. CASE Submit(t)
    <3>1. \A d : [Call("submit", t, 0) EXCEPT !.id = d].kind # "callback"
      BY <1>a, CallIsCall DEF CallType
    <3>2. QED
      BY <2>3, <2>b, <2>c, <3>1 DEF Submit
  <2>4. CASE Consent(t) \/ ConsentToUpload(t) \/ Connect(t) \/ OpenDonation(t)
    BY <2>4, <2>c DEF Consent, ConsentToUpload, Connect, OpenDonation
  <2>5. CASE Respond(t) \/ Retry(t) \/ Switch(t) \/ GoBack(t) \/ Reload(t)
    BY <2>5, <2>c DEF Respond, Retry, Switch, GoBack, Reload
  <2>6. QED
    BY <1>1, <2>1, <2>2, <2>3, <2>4, <2>5 DEF Forward
<1>2. ASSUME NEW c \in calls, Serve(c) PROVE OneInv'
  <2>a. ASSUME Return(c) PROVE Callbacks' \subseteq Callbacks
    BY <2>a DEF Return, Callbacks
  <2>1. CASE Issue(c)
    <3>1. PICK r \in RequestIds : requests' = [requests EXCEPT ![r] = "not polled"]
      BY <2>1 DEF Issue
    <3>2. c \in Callbacks
      BY <2>1 DEF Issue, Callbacks
    <3>3. Callbacks' = {} /\ In(Active) \subseteq revived
      BY <2>1, <3>2 DEF Issue, Return, Callbacks, OneInv
    <3>4. In(Active)' \subseteq In(Active) \cup {r} /\ UNCHANGED revived
      BY <1>a, <2>1, <3>1 DEF Issue, ghostVars, In, ServerTypes
    <3>5. QED
      BY <3>3, <3>4 DEF OneInv, OneActiveRequest
  <2>2. CASE PollAnswered(c)
    <3>1. [c EXCEPT !.answer = remote[c.id]].kind # "callback"
      BY <1>a, <2>2 DEF PollAnswered, CallsType, CallType
    <3>2. Callbacks' \subseteq Callbacks
      BY <2>2, <3>1 DEF PollAnswered, Callbacks
    <3>3. QED
      BY <1>b, <2>2, <3>2 DEF PollAnswered, serverVars, ghostVars
  <2>3. CASE PollSaved(c) \/ Streamed(c) \/ StreamBreaks(c)
    <3>1. Return(c) /\ c.kind \in {"poll", "stream"} /\ \E s : Save(c, s)
      BY <2>3 DEF PollSaved, Streamed, StreamBreaks
    <3>2. QED
      BY <1>0, <1>a, <2>a, <3>1, SaveActive DEF CallsType
  <2>4. CASE IssueFails(c) \/ IssueLost(c) \/ PollFails(c) \/ StreamRefused(c)
                \/ SubmitCommits(c)
    BY <1>b, <2>a, <2>4 DEF IssueFails, IssueLost, PollFails, StreamRefused,
                            SubmitCommits, serverVars, ghostVars
  <2>5. QED
    BY <1>2, <2>1, <2>2, <2>3, <2>4 DEF Serve
<1>3. CASE \/ \E r \in RequestIds : Collected(r) \/ Ended(r)
           \/ \E d \in tasks : Process(d)
           \/ CacheExpires \/ Leave \/ UNCHANGED participationVars
  <2>1. UNCHANGED <<requests, revived, calls>>
    BY <1>3 DEF Collected, Ended, Process, CacheExpires, Leave, serverVars,
                ghostVars, participationVars
  <2>2. QED
    BY <1>b, <2>1 DEF Callbacks
<1>4. QED
  BY <1>1, <1>2, <1>3 DEF ParticipationNext

\* However many callbacks of a participant overlap, in however many tabs, no
\* two requests are active that the callbacks made and left so: a callback
\* looks for an active one with the connection's row locked.  Not covered are
\* requests that were done and that a late answer has made active again.
THEOREM OneRequest == ParticipationSpec => []OneActiveRequest
<1>1. ParticipationInit => OneInv
  BY DEF ParticipationInit, OneInv, OneActiveRequest, Callbacks, In, Active
<1>2. TypeInv /\ OneInv /\ [ParticipationNext]_participationVars => OneInv'
  BY OneStep
<1>3. OneInv => OneActiveRequest
  BY DEF OneInv
<1>4. QED
  BY <1>1, <1>2, <1>3, TypeHolds, PTL DEF ParticipationSpec

-----------------------------------------------------------------------------
(****************************************************************************)
(* The takeout in the browser may be submitted                              *)
(****************************************************************************)

\* While no status was written over, a takeout in the browser comes with a
\* request that is marked as downloaded.
HasTakeout == cache = "takeout" \/ \E t \in Tabs : tabs[t].file = "takeout"
TakeoutInv == stale = {} /\ HasTakeout => \E r \in RequestIds : requests[r] = "downloaded"

LEMMA ShowTakeout ==
    ASSUME TabsType, NEW t \in Tabs, NEW page, Show(t, page), UNCHANGED cache, HasTakeout'
    PROVE  HasTakeout
<1>1. \A q \in Tabs : tabs'[q].file = "takeout" => tabs[q].file = "takeout"
  BY DEF TabsType, Show
<1>2. QED
  BY <1>1 DEF HasTakeout

LEMMA AnswerTakeout ==
    ASSUME TabsType, NEW c \in CallType, NEW page, Answer(c, page), UNCHANGED cache,
           HasTakeout'
    PROVE  HasTakeout
  BY ShowTakeout DEF Answer, CallType, HasTakeout

LEMMA StartCallTakeout ==
    ASSUME TabsType, NEW c, StartCall(c), UNCHANGED cache, HasTakeout'
    PROVE  HasTakeout
<1>1. \A q \in Tabs : tabs'[q].file = "takeout" => tabs[q].file = "takeout"
  BY DEF TabsType, TabType, StartCall
<1>2. QED
  BY <1>1 DEF HasTakeout

\* A call that saves a status leaves what is downloaded, or is noted as stale.
LEMMA SaveDownloaded ==
    ASSUME ServerTypes, NEW c, NEW s, c.id \in RequestIds, c.read \in Active,
           Save(c, s), stale' = {}, NEW r \in RequestIds, requests[r] = "downloaded"
    PROVE  requests'[r] = "downloaded" /\ stale = {}
<1>1. requests[c.id] = c.read /\ stale = {}
  BY DEF Save
<1>2. r # c.id
  BY <1>1 DEF Active
<1>3. QED
  BY <1>1, <1>2 DEF Save, ServerTypes

LEMMA TakeoutStep ==
    ASSUME TypeInv, TakeoutInv, [ParticipationNext]_participationVars
    PROVE  TakeoutInv'
<1>a. ServerTypes /\ TabsType /\ CallsType /\ RequestsIssued
  BY DEF TypeInv
<1>0. ASSUME UNCHANGED <<requests, stale>>, HasTakeout' => HasTakeout
      PROVE  TakeoutInv'
  BY <1>0 DEF TakeoutInv
<1>1. ASSUME NEW t \in Tabs, Forward(t) \/ Reload(t) PROVE TakeoutInv'
  <2>a. UNCHANGED <<requests, stale>>
    <3>1. CASE Consent(t) \/ ConsentToUpload(t) \/ Connect(t) \/ Callback(t) \/ Poll(t)
      BY <3>1 DEF Consent, ConsentToUpload, Connect, Callback, Poll, serverVars,
                  ghostVars
    <3>2. CASE OpenDonation(t) \/ Fetch(t) \/ Submit(t) \/ Respond(t)
      BY <3>2 DEF OpenDonation, Fetch, Submit, Respond, serverVars, ghostVars
    <3>3. CASE Retry(t) \/ Switch(t) \/ GoBack(t) \/ Reload(t)
      BY <3>3 DEF Retry, Switch, GoBack, Reload, serverVars, ghostVars
    <3>4. QED
      BY <1>1, <3>1, <3>2, <3>3 DEF Forward
  <2>b. ASSUME UNCHANGED cache, \E page : Show(t, page) PROVE TakeoutInv'
    BY <1>0, <1>a, <2>a, <2>b, ShowTakeout
  <2>c. ASSUME UNCHANGED cache, \E c : StartCall(c) PROVE TakeoutInv'
    BY <1>0, <1>a, <2>a, <2>c, StartCallTakeout
  <2>1. CASE Consent(t) \/ ConsentToUpload(t) \/ Connect(t) \/ OpenDonation(t)
    BY <2>1, <2>b DEF Consent, ConsentToUpload, Connect, OpenDonation
  <2>2. CASE Respond(t) \/ Retry(t) \/ Switch(t) \/ GoBack(t) \/ Reload(t)
    BY <2>2, <2>b DEF Respond, Retry, Switch, GoBack, Reload
  <2>3. CASE Callback(t) \/ Poll(t) \/ Submit(t)
    BY <2>3, <2>b, <2>c DEF Callback, Poll, Submit
  <2>4. CASE Fetch(t)
    <3>1. CASE cache # "nothing" /\ tabs' = [tabs EXCEPT ![t].file = cache]
                   /\ UNCHANGED cache
      <4>1. HasTakeout' => HasTakeout
        BY <1>a, <3>1 DEF HasTakeout, TabsType, TabType
      <4>2. QED
        BY <1>0, <2>a, <4>1
    <3>2. CASE tabs' = [tabs EXCEPT ![t].file = "web page"] /\ cache' = "web page"
      <4>1. HasTakeout' => HasTakeout
        BY <1>a, <3>2 DEF HasTakeout, TabsType, TabType
      <4>2. QED
        BY <1>0, <2>a, <4>1
    <3>3. QED
      BY <2>4, <2>c, <3>1, <3>2 DEF Fetch
  <2>5. QED
    BY <1>1, <2>1, <2>2, <2>3, <2>4 DEF Forward
<1>2. ASSUME NEW c \in calls, Serve(c) PROVE TakeoutInv'
  <2>a. /\ c \in CallType
        /\ c.kind \in {"poll", "stream"} => c.id \in RequestIds /\ c.read \in Active
    BY <1>a DEF CallsType
  <2>b. ASSUME UNCHANGED cache, \E page : Answer(c, page) PROVE HasTakeout' => HasTakeout
    BY <1>a, <2>a, <2>b, AnswerTakeout
  \* A request of which nothing was known is not downloaded.
  <2>1. CASE Issue(c)
    <3>1. PICK r \in RequestIds : /\ remote[r] = "none"
                                  /\ requests' = [requests EXCEPT ![r] = "not polled"]
      BY <2>1 DEF Issue
    <3>2. requests[r] = "none"
      BY <1>a, <3>1 DEF RequestsIssued
    <3>3. \A q \in RequestIds : requests[q] = "downloaded" => requests'[q] = "downloaded"
      BY <1>a, <3>1, <3>2 DEF ServerTypes
    <3>4. UNCHANGED stale /\ (HasTakeout' => HasTakeout)
      BY <2>1, <2>b DEF Issue, ghostVars
    <3>5. QED
      BY <3>3, <3>4 DEF TakeoutInv
  <2>2. CASE PollSaved(c) \/ StreamBreaks(c)
    <3>1. c.kind \in {"poll", "stream"} /\ \E s : Save(c, s)
      BY <2>2 DEF PollSaved, StreamBreaks
    <3>2. HasTakeout' => HasTakeout
      <4>1. CASE PollSaved(c)
        BY <2>b, <4>1 DEF PollSaved
      <4>2. CASE StreamBreaks(c)
        BY <1>a, <2>a, <4>2 DEF StreamBreaks, HasTakeout, TabsType, TabType, CallType
      <4>3. QED
        BY <2>2, <4>1, <4>2
    <3>3. stale' = {} => stale = {}
      BY <3>1 DEF Save
    <3>4. QED
      BY <1>a, <2>a, <3>1, <3>2, <3>3, SaveDownloaded DEF TakeoutInv
  <2>3. CASE Streamed(c)
    <3>1. c.id \in RequestIds /\ Save(c, "downloaded")
      BY <2>3, <2>a DEF Streamed
    <3>2. requests'[c.id] = "downloaded"
      BY <1>a, <3>1 DEF Save, ServerTypes
    <3>3. QED
      BY <3>1, <3>2 DEF TakeoutInv
  <2>4. CASE IssueFails(c) \/ IssueLost(c) \/ PollFails(c)
    BY <1>0, <2>b, <2>4 DEF IssueFails, IssueLost, PollFails, serverVars, ghostVars
  <2>5. CASE StreamRefused(c) \/ SubmitCommits(c)
    BY <1>0, <2>b, <2>5 DEF StreamRefused, SubmitCommits, serverVars, ghostVars
  <2>6. CASE PollAnswered(c)
    BY <1>0, <2>6 DEF PollAnswered, serverVars, ghostVars, HasTakeout
  <2>7. QED
    BY <1>2, <2>1, <2>2, <2>3, <2>4, <2>5, <2>6 DEF Serve
<1>3. CASE \/ \E r \in RequestIds : Collected(r) \/ Ended(r)
           \/ \E d \in tasks : Process(d)
           \/ Leave \/ UNCHANGED participationVars
  <2>1. UNCHANGED <<requests, stale, tabs, cache>>
    BY <1>3 DEF Collected, Ended, Process, Leave, serverVars, ghostVars,
                participationVars
  <2>2. QED
    BY <1>0, <2>1 DEF HasTakeout
<1>4. CASE CacheExpires
  BY <1>0, <1>4 DEF CacheExpires, serverVars, ghostVars, HasTakeout
<1>5. QED
  BY <1>1, <1>2, <1>3, <1>4 DEF ParticipationNext

\* The donation view accepts the takeout of whoever has it in the browser,
\* unless a late call wrote over the request's status.
THEOREM TakeoutAccepted == ParticipationSpec => []SubmitAccepted
<1>1. ParticipationInit => TakeoutInv
  BY DEF ParticipationInit, TakeoutInv, HasTakeout
<1>2. TypeInv /\ TakeoutInv /\ [ParticipationNext]_participationVars => TakeoutInv'
  BY TakeoutStep
<1>3. TakeoutInv => SubmitAccepted
  BY DEF TakeoutInv, SubmitAccepted, HasTakeout, In, Donatable
<1>4. QED
  BY <1>1, <1>2, <1>3, TypeHolds, PTL DEF ParticipationSpec

HIDE ParticipationAssumption

-----------------------------------------------------------------------------
(****************************************************************************)
(* What a donation is read back as                                         *)
(****************************************************************************)

\* The keys of a row that a blueprint with these fields keeps, and what the
\* services make of a key's value, whatever name it was stored under.
KeysKept(fields, keys) == {k \in keys : \E f \in fields : k \in Matching(f)}
CleanValue(key, row) ==
    IF NormaliseKey(key) = "date" THEN ParseDate(Value(key, row)) ELSE Value(key, row)
Cleaned(key, row) == <<NormaliseKey(key), CleanValue(key, row)>>

\* The pattern of a rule is resolved to what the keys it stands for become.
LEMMA Resolved ==
    ASSUME NEW f, NEW k \in Matching(f), NEW byPattern
    PROVE  NormaliseKey(StoredAs(f, k, byPattern)) = NormaliseKey(k)
  BY DEF NormaliseKey, StoredAs, Matching

LEMMA CleanOf ==
    ASSUME NEW fields, NEW keys, NEW row, NEW byPattern
    PROVE  CleanRecord(Extract(fields, keys, row, byPattern))
               = {Cleaned(k, row) : k \in KeysKept(fields, keys)}
<1> DEFINE Clean(p) == <<NormaliseKey(p[1]),
                         IF NormaliseKey(p[1]) = "date" THEN ParseDate(p[2]) ELSE p[2]>>
           Pair(f, k) == <<StoredAs(f, k, byPattern), Value(k, row)>>
<1>1. ASSUME NEW f \in fields, NEW k \in keys \cap Matching(f)
      PROVE  Clean(Pair(f, k)) = Cleaned(k, row)
  <2>1. Pair(f, k)[1] = StoredAs(f, k, byPattern) /\ Pair(f, k)[2] = Value(k, row)
    OBVIOUS
  <2>2. NormaliseKey(Pair(f, k)[1]) = NormaliseKey(k)
    BY <2>1, Resolved
  <2>3. QED
    BY <2>1, <2>2 DEF Cleaned, CleanValue
<1>2. CleanRecord(Extract(fields, keys, row, byPattern))
          = {Clean(p) : p \in Extract(fields, keys, row, byPattern)}
  BY DEF CleanRecord
<1>3. Extract(fields, keys, row, byPattern)
          = UNION {{Pair(f, k) : k \in keys \cap Matching(f)} : f \in fields}
  BY DEF Extract
<1> HIDE DEF Clean, Pair
<1>4. {Clean(p) : p \in Extract(fields, keys, row, byPattern)}
          = {Cleaned(k, row) : k \in KeysKept(fields, keys)}
  BY <1>1, <1>3 DEF KeysKept
<1>5. QED
  BY <1>2, <1>4

\* The clean records of which these keys are left.
CleanRows(K, rows) == {[i \in 1..Len(rows) |-> {Cleaned(k, rows[i]) : k \in K}]}

LEMMA CleanRowsOf ==
    ASSUME NEW fields, NEW keys, NEW rows \in Seq(Rows), NEW byPattern
    PROVE  CleanRecords(Extracted(fields, keys, rows, byPattern))
               = CleanRows(KeysKept(fields, keys), rows)
<1> DEFINE kept == [i \in 1..Len(rows) |-> Extract(fields, keys, rows[i], byPattern)]
           read == [i \in 1..Len(rows) |->
                       {Cleaned(k, rows[i]) : k \in KeysKept(fields, keys)}]
<1>1. CleanRecords(Extracted(fields, keys, rows, byPattern))
          = {[i \in 1..Len(kept) |-> CleanRecord(kept[i])]}
  BY DEF CleanRecords, Extracted
<1>2. Len(kept) = Len(rows)
  OBVIOUS
<1>3. \A i \in 1..Len(rows) : CleanRecord(kept[i]) = read[i]
  BY CleanOf
<1>4. [i \in 1..Len(kept) |-> CleanRecord(kept[i])] = read
  BY <1>2, <1>3
<1>5. QED
  BY <1>1, <1>4 DEF CleanRows

\* A date and a link as they are read, and what a row is read as, by list.
Dated(row) == DateRead(row)
Link(row) == <<"link", [target |-> row.target, video |-> row.video]>>
Shared(row) == <<"sharedcontent", [target |-> row.target, video |-> row.video]>>
RecordRead(b, row) ==
    IF b \in VideoLists THEN {Dated(row), Link(row), VideoOf(row)}
    ELSE IF b = "shared_videos"
         THEN {Dated(row), Link(row), VideoOf(row), Shared(row), <<"Method", "text">>}
    ELSE IF b = "followed_accounts" THEN {Dated(row), <<"username", "text">>}
    ELSE {Dated(row)}

\* The keys by which a list of the export is read.
Readable(b) ==
    IF b \in VideoLists THEN {{"Date", "Link"}, {"Date", "link"}, {"date", "link"}}
    ELSE IF b = "shared_videos" THEN {{"Date", "SharedContent", "Method"}}
    ELSE IF b = "followed_accounts" THEN {{"Date", "UserName"}}
    ELSE {{"date"}}

LEMMA CleanedKeys ==
    ASSUME NEW row
    PROVE  /\ Cleaned("Date", row) = Dated(row) /\ Cleaned("date", row) = Dated(row)
           /\ Cleaned("Link", row) = Link(row) /\ Cleaned("link", row) = Link(row)
           /\ Cleaned("SharedContent", row) = Shared(row)
           /\ Cleaned("Method", row) = <<"Method", "text">>
           /\ Cleaned("UserName", row) = <<"username", "text">>
<1>1. /\ NormaliseKey("Date") = "date" /\ NormaliseKey("date") = "date"
      /\ NormaliseKey("Link") = "link" /\ NormaliseKey("link") = "link"
      /\ NormaliseKey("SharedContent") = "sharedcontent"
      /\ NormaliseKey("Method") = "Method" /\ NormaliseKey("UserName") = "username"
  BY DEF NormaliseKey
<1>2. /\ \A k \in {"Date", "date"} : Value(k, row) = [form |-> row.form, at |-> row.at]
      /\ \A k \in {"Link", "link", "SharedContent"} :
             Value(k, row) = [target |-> row.target, video |-> row.video]
      /\ \A k \in {"Method", "UserName"} : Value(k, row) = "text"
  BY DEF Value
<1>3. \A k \in {"Date", "date"} :
          CleanValue(k, row) = IF row.form = "other" THEN [form |-> row.form, at |-> row.at]
                               ELSE [at |-> row.at]
  BY <1>1, <1>2 DEF CleanValue, ParseDate
<1>4. /\ \A k \in {"Link", "link", "SharedContent"} :
             CleanValue(k, row) = [target |-> row.target, video |-> row.video]
      /\ \A k \in {"Method", "UserName"} : CleanValue(k, row) = "text"
  BY <1>1, <1>2 DEF CleanValue
<1>5. QED
  BY <1>1, <1>3, <1>4 DEF Cleaned, Dated, DateRead, Link, Shared

\* What a record says of the video.
LEMMA WithVideoId ==
    ASSUME NEW row \in Rows
    PROVE  /\ AddVideoId({Dated(row), Link(row)}) = {Dated(row), Link(row), VideoOf(row)}
           /\ AddVideoId({Dated(row), Shared(row), <<"Method", "text">>})
                  = {Dated(row), Link(row), VideoOf(row), Shared(row), <<"Method", "text">>}
           /\ AddVideoId({Dated(row)}) = {Dated(row)}
<1>1. ExtractId(Link(row)[2]) = VideoOf(row)[2] /\ ExtractId(Shared(row)[2]) = VideoOf(row)[2]
  BY DEF ExtractId, Link, Shared, VideoOf, Rows
<1>2. /\ Dated(row)[1] = "date" /\ Link(row)[1] = "link"
      /\ Shared(row)[1] = "sharedcontent" /\ Shared(row)[2] = Link(row)[2]
      /\ Link(row) = <<"link", Link(row)[2]>> /\ VideoOf(row) = <<"video_id", VideoOf(row)[2]>>
      /\ <<"Method", "text">>[1] = "Method"
  BY DEF Dated, DateRead, Link, Shared, VideoOf
<1>3. AddVideoId({Dated(row), Link(row)}) = {Dated(row), Link(row), VideoOf(row)}
  <2> DEFINE R == {Dated(row), Link(row)}
  <2>1. {p \in R : p[1] = "link"} = {Link(row)}
    BY <1>2
  <2>2. {<<"video_id", ExtractId(p[2])>> : p \in {Link(row)}} = {VideoOf(row)}
    BY <1>1, <1>2
  <2>3. QED
    BY <2>1, <2>2 DEF AddVideoId
<1>4. AddVideoId({Dated(row), Shared(row), <<"Method", "text">>})
          = {Dated(row), Link(row), VideoOf(row), Shared(row), <<"Method", "text">>}
  <2> DEFINE R == {Dated(row), Shared(row), <<"Method", "text">>}
  <2>1. {p \in R : p[1] = "link"} = {} /\ {q \in R : q[1] = "sharedcontent"} = {Shared(row)}
    BY <1>2
  <2>2. {<<"link", p[2]>> : p \in {Shared(row)}} = {Link(row)}
    BY <1>2
  <2>3. {<<"video_id", ExtractId(p[2])>> : p \in {Link(row)}} = {VideoOf(row)}
    BY <1>1, <1>2
  <2>4. AddVideoId(R) = R \cup {Link(row)} \cup {VideoOf(row)}
    BY <2>1, <2>2, <2>3 DEF AddVideoId
  <2>5. QED
    BY <2>4
<1>5. AddVideoId({Dated(row)}) = {Dated(row)}
  <2> DEFINE R == {Dated(row)}
  <2>1. {p \in R : p[1] = "link"} = {} /\ {q \in R : q[1] = "sharedcontent"} = {}
    BY <1>2
  <2>2. QED
    BY <2>1 DEF AddVideoId
<1>6. QED
  BY <1>3, <1>4, <1>5

LEMMA RowRead ==
    ASSUME NEW b \in ReadLists, NEW K \in Readable(b), NEW row \in Rows
    PROVE  /\ b # "followed_accounts" =>
                  AddVideoId({Cleaned(k, row) : k \in K}) = RecordRead(b, row)
           /\ b = "followed_accounts" =>
                  {Cleaned(k, row) : k \in K} = RecordRead(b, row)
<1>1. CASE b \in VideoLists
  <2>1. {Cleaned(k, row) : k \in K} = {Dated(row), Link(row)}
    BY <1>1, CleanedKeys DEF Readable
  <2>2. QED
    BY <1>1, <2>1, WithVideoId DEF RecordRead, VideoLists
<1>2. CASE b = "shared_videos"
  <2>1. {Cleaned(k, row) : k \in K} = {Dated(row), Shared(row), <<"Method", "text">>}
    BY <1>2, CleanedKeys DEF Readable, VideoLists
  <2>2. QED
    BY <1>2, <2>1, WithVideoId DEF RecordRead, VideoLists
<1>3. CASE b = "followed_accounts"
  <2>1. {Cleaned(k, row) : k \in K} = {Dated(row), <<"username", "text">>}
    BY <1>3, CleanedKeys DEF Readable, VideoLists
  <2>2. QED
    BY <1>3, <2>1 DEF RecordRead, VideoLists
<1>4. CASE b = "comments"
  <2>1. {Cleaned(k, row) : k \in K} = {Dated(row)}
    BY <1>4, CleanedKeys DEF Readable, VideoLists
  <2>2. QED
    BY <1>4, <2>1, WithVideoId DEF RecordRead, VideoLists
<1>5. QED
  BY <1>1, <1>2, <1>3, <1>4 DEF ReadLists, VideoLists

LEMMA ListRead ==
    ASSUME NEW b \in ReadLists, NEW K \in Readable(b), NEW rows \in Seq(Rows)
    PROVE  MapToUserData(b, CleanRows(K, rows))
               = {[i \in 1..Len(rows) |-> RecordRead(b, rows[i])]}
<1> DEFINE clean == [i \in 1..Len(rows) |-> {Cleaned(k, rows[i]) : k \in K}]
<1>1. Len(clean) = Len(rows) /\ Len(rows) \in Nat
  OBVIOUS
<1>2. \A i \in 1..Len(rows) : rows[i] \in Rows
  OBVIOUS
<1>3. CASE b = "followed_accounts"
  <2>1. \A i \in 1..Len(rows) : clean[i] = RecordRead(b, rows[i])
    BY <1>2, <1>3, RowRead
  <2>2. QED
    BY <1>3, <2>1 DEF CleanRows, MapToUserData
<1>4. CASE b # "followed_accounts"
  <2>1. \A i \in 1..Len(rows) : AddVideoId(clean[i]) = RecordRead(b, rows[i])
    BY <1>2, <1>4, RowRead
  <2>2. MapToUserData(b, {clean}) = {[i \in 1..Len(clean) |-> AddVideoId(clean[i])]}
    BY <1>4 DEF MapToUserData, MapVideoRecords
  <2>3. QED
    BY <1>1, <2>1, <2>2 DEF CleanRows
<1>5. QED
  BY <1>3, <1>4

-----------------------------------------------------------------------------
(****************************************************************************)
(* What a donation made with the complete set-up holds                      *)
(****************************************************************************)

Spellings == {"upper", "mixed", "lower"}
Suffixes == {"none", "_txt", "_old_api"}
AllFields(b) == Range(Kept(b))

\* Every list that is read is read by one of its sets of keys, whoever took it.
LEMMA KeysOfBlueprint ==
    ASSUME NEW b \in ReadLists, NEW spelling \in Spellings,
           Takes(b, Keys(b, spelling))
    PROVE  KeysKept(AllFields(b), Keys(b, spelling)) \in Readable(b)
<1> USE DEF Spellings
<1>1. CASE b = "watch_history"
  <2>0. Kept(b) = <<"Date", "Link">>
    BY <1>1 DEF Kept, KeptOfUsage, KeptOfBookmarks, KeptOfOthers
  <2>1. AllFields(b) = {"Date", "Link"}
    BY <2>0 DEF AllFields, Range
  <2>2. Expected(b) = {"Date", "Link"} /\ Matching("Date") = {"Date"}
        /\ Matching("Link") = {"Link"}
    BY <1>1 DEF Expected, Matching
  <2>3. Keys(b, spelling) = {"Date", "Link"}
    BY <1>1, <2>2 DEF Keys, Takes
  <2>4. KeysKept({"Date", "Link"}, {"Date", "Link"}) = {"Date", "Link"}
    BY <2>2 DEF KeysKept
  <2>5. QED
    BY <1>1, <2>1, <2>3, <2>4 DEF Readable, VideoLists
<1>2. CASE b = "liked_videos"
  <2>1. AllFields(b) = {"(D|d)ate", "(L|l)ink"}
    BY <1>2 DEF AllFields, Kept, KeptOfOthers, KeptOfUsage, KeptOfBookmarks, Range
  <2>2. Matching("(D|d)ate") = {"Date", "date"} /\ Matching("(L|l)ink") = {"Link", "link"}
    BY DEF Matching
  <2>3. Keys(b, spelling) \in {{"Date", "Link"}, {"Date", "link"}, {"date", "link"}}
    BY <1>2 DEF Keys
  <2>4. KeysKept(AllFields(b), Keys(b, spelling)) = Keys(b, spelling)
    BY <2>1, <2>2, <2>3 DEF KeysKept
  <2>5. QED
    BY <1>2, <2>3, <2>4 DEF Readable, VideoLists
<1>3. CASE b = "video_bookmarks"
  <2>1. AllFields(b) = {"Date", "(L|l)ink"}
    BY <1>3 DEF AllFields, Kept, KeptOfUsage, KeptOfBookmarks, Range
  <2>2. Matching("Date") = {"Date"} /\ Matching("(L|l)ink") = {"Link", "link"}
        /\ Expected(b) = {"Date"}
    BY <1>3 DEF Matching, Expected
  <2>3. Keys(b, spelling) \in {{"Date", "Link"}, {"Date", "link"}}
    BY <1>3, <2>2 DEF Keys, Takes
  <2>4. KeysKept(AllFields(b), Keys(b, spelling)) = Keys(b, spelling)
    BY <2>1, <2>2, <2>3 DEF KeysKept
  <2>5. QED
    BY <1>3, <2>3, <2>4 DEF Readable, VideoLists
<1>4. CASE b = "shared_videos"
  <2>1. AllFields(b) = {"Date", "SharedContent", "Method", "(L|l)ink"}
    BY <1>4 DEF AllFields, Kept, KeptOfOthers, KeptOfUsage, KeptOfBookmarks, Range
  <2>2. /\ Matching("Date") = {"Date"} /\ Matching("(L|l)ink") = {"Link", "link"}
        /\ Matching("SharedContent") = {"SharedContent"} /\ Matching("Method") = {"Method"}
    BY DEF Matching
  <2>3. Keys(b, spelling) = {"Date", "SharedContent", "Method"}
    BY <1>4 DEF Keys
  <2>4. KeysKept(AllFields(b), Keys(b, spelling)) = Keys(b, spelling)
    BY <2>1, <2>2, <2>3 DEF KeysKept
  <2>5. QED
    BY <1>4, <2>3, <2>4 DEF Readable, VideoLists
<1>5. CASE b = "followed_accounts"
  <2>1. AllFields(b) = {"Date", "UserName"}
    BY <1>5 DEF AllFields, Kept, KeptOfOthers, KeptOfUsage, KeptOfBookmarks, Range
  <2>2. Matching("Date") = {"Date"} /\ Matching("UserName") = {"UserName"}
    BY DEF Matching
  <2>3. Keys(b, spelling) = {"Date", "UserName"}
    BY <1>5 DEF Keys
  <2>4. KeysKept(AllFields(b), Keys(b, spelling)) = Keys(b, spelling)
    BY <2>1, <2>2, <2>3 DEF KeysKept
  <2>5. QED
    BY <1>5, <2>3, <2>4 DEF Readable, VideoLists
<1>6. CASE b = "comments"
  <2>1. AllFields(b) = {"(D|d)ate", "(L|l)ink"}
    BY <1>6 DEF AllFields, Kept, KeptOfOthers, KeptOfUsage, KeptOfBookmarks, Range
  <2>2. Matching("(D|d)ate") = {"Date", "date"} /\ Matching("(L|l)ink") = {"Link", "link"}
    BY DEF Matching
  <2>3. Keys(b, spelling) = {"date", "comment"}
    BY <1>6 DEF Keys
  <2>4. KeysKept(AllFields(b), Keys(b, spelling)) = {"date"}
    BY <2>1, <2>2, <2>3 DEF KeysKept
  <2>5. QED
    BY <1>6, <2>3, <2>4 DEF Readable, VideoLists
<1>7. QED
  BY <1>1, <1>2, <1>3, <1>4, <1>5, <1>6 DEF ReadLists

LEMMA KeysOfVariant ==
    ASSUME NEW b \in ReadLists, NEW spelling \in Spellings,
           VariantFields \subseteq Keys(b, spelling)
    PROVE  KeysKept(VariantFields, Keys(b, spelling)) \in Readable(b)
<1>1. Matching("date") = {"date"} /\ Matching("link") = {"link"}
  BY DEF Matching
<1>2. KeysKept(VariantFields, Keys(b, spelling)) = {"date", "link"}
  BY <1>1 DEF KeysKept, VariantFields
<1>3. b \in VideoLists
  BY DEF VariantFields, Keys, ReadLists, VideoLists
<1>4. QED
  BY <1>2, <1>3 DEF Readable

\* The list was taken, by its blueprint or by the variant an administrator added.
TakenOf(b, spelling, suffix) ==
    LET keys == Keys(b, spelling)
    IN Takes(b, keys) \/ (suffix # "none" /\ VariantFields \subseteq keys)

\* The first variant there is: the blueprint's own, or else the other one.
LEMMA PreferredOf ==
    ASSUME NEW variants, NEW suffix \in Suffixes,
           \A s \in VariantNames \ {"none", suffix} : variants[s] = Nothing
    PROVE  Preferred(variants) = IF variants["none"] # Nothing THEN variants["none"]
                                 ELSE variants[suffix]
<1> DEFINE found == {i \in 1..Len(Variants) : variants[Variants[i]] # Nothing}
           least == CHOOSE i \in found : \A j \in found : i <= j
<1>0. /\ Len(Variants) = 4 /\ DOMAIN Variants = 1..4 /\ Variants[1] = "none"
      /\ Variants[2] = "_txt" /\ Variants[3] = "_old" /\ Variants[4] = "_old_api"
  BY DEF Variants
<1>1. /\ \A i, j \in 1..4 : Variants[i] = Variants[j] => i = j
      /\ VariantNames = {Variants[i] : i \in 1..4}
      /\ \E n \in 1..4 : Variants[n] = suffix
  <2>1. \A i \in 1..4 : i = 1 \/ i = 2 \/ i = 3 \/ i = 4
    OBVIOUS
  <2>2. \A i, j \in 1..4 : Variants[i] = Variants[j] => i = j
    BY <1>0, <2>1
  <2>3. VariantNames = {Variants[i] : i \in 1..4}
    BY <1>0 DEF VariantNames, Range
  <2>4. 1 \in 1..4 /\ 2 \in 1..4 /\ 4 \in 1..4
    OBVIOUS
  <2>5. \E n \in 1..4 : Variants[n] = suffix
    BY <1>0, <2>4 DEF Suffixes
  <2>6. QED
    BY <2>2, <2>3, <2>5
<1>2. /\ Preferred(variants) = IF found = {} THEN Nothing ELSE variants[Variants[least]]
      /\ found = {i \in 1..4 : variants[Variants[i]] # Nothing}
  BY <1>0 DEF Preferred
<1> HIDE DEF found
<1>3. \A i \in found : (\A j \in found : i <= j) => least = i
  <2>1. found \subseteq Nat
    BY <1>2
  <2>2. SUFFICES ASSUME NEW i \in found, \A j \in found : i <= j PROVE least = i
    OBVIOUS
  <2>3. least \in found /\ \A j \in found : least <= j
    BY <2>2
  <2> HIDE DEF least
  <2>4. QED
    BY <2>1, <2>2, <2>3
<1>4. CASE variants["none"] # Nothing
  <2>1. 1 \in found /\ \A j \in found : 1 <= j
    BY <1>0, <1>2, <1>4
  <2>2. least = 1
    BY <1>3, <2>1
  <2>3. QED
    BY <1>0, <1>2, <1>4, <2>1, <2>2
<1>5. CASE variants["none"] = Nothing /\ variants[suffix] # Nothing
  <2>1. PICK n \in 1..4 : Variants[n] = suffix
    BY <1>1
  <2>2. \A j \in found : Variants[j] = suffix
    BY <1>1, <1>2, <1>5
  <2>3. n \in found
    BY <1>2, <1>5, <2>1
  <2>4. found = {n}
    BY <1>1, <1>2, <2>1, <2>2, <2>3
  <2>5. least = n
    BY <1>3, <2>4
  <2>6. QED
    BY <1>2, <1>5, <2>1, <2>4, <2>5
<1>6. CASE variants["none"] = Nothing /\ variants[suffix] = Nothing
  <2>1. found = {}
    BY <1>1, <1>2, <1>6
  <2>2. QED
    BY <1>2, <1>6, <2>1
<1>7. QED
  BY <1>4, <1>5, <1>6

\* With the complete set-up every blueprint is there, with all its rules.
LEMMA CompleteSetUp ==
    ASSUME Complete, NEW b \in BlueprintNames
    PROVE  BlueprintMade(b) /\ FieldsNow(b) = AllFields(b)
<1>1. Len(Blueprints) = 12 /\ DOMAIN Blueprints = 1..12
  BY DEF Blueprints
<1>2. PICK k \in 1..12 : Blueprints[k] = b
  BY <1>1 DEF BlueprintNames, Range
<1>3. written[1] = 12 /\ written[2] = Len(Kept(Blueprints[12]))
  BY <1>1 DEF Complete, LastWrite, RulesOf
<1>4. DOMAIN Kept(b) = 1..Len(Kept(b)) /\ Len(Kept(b)) \in Nat
  <2>1. \A x \in DOMAIN KeptOfUsage : \E n \in {2, 9} :
            Len(KeptOfUsage[x]) = n /\ DOMAIN KeptOfUsage[x] = 1..n
    BY DEF KeptOfUsage
  <2>2. \A x \in DOMAIN KeptOfBookmarks : \E n \in {2, 3} :
            Len(KeptOfBookmarks[x]) = n /\ DOMAIN KeptOfBookmarks[x] = 1..n
    BY DEF KeptOfBookmarks
  <2>3. \A x \in DOMAIN KeptOfOthers : \E n \in {2, 4} :
            Len(KeptOfOthers[x]) = n /\ DOMAIN KeptOfOthers[x] = 1..n
    BY DEF KeptOfOthers
  <2>4. \/ b \in DOMAIN KeptOfUsage \/ b \in DOMAIN KeptOfBookmarks
        \/ b \in DOMAIN KeptOfOthers
    BY <1>1, <1>2 DEF Blueprints, KeptOfUsage, KeptOfBookmarks, KeptOfOthers
  <2>5. \E n \in {2, 3, 4, 9} : Len(Kept(b)) = n /\ DOMAIN Kept(b) = 1..n
    BY <2>1, <2>2, <2>3, <2>4 DEF Kept
  <2>6. QED
    BY <2>5
<1>5. ASSUME NEW i \in 1..Len(Kept(b)) PROVE Made(k, i)
  <2>1. CASE k < 12
    BY <1>3, <2>1 DEF Made
  <2>2. CASE k = 12
    BY <1>2, <1>3, <2>2 DEF Made
  <2>3. QED
    BY <2>1, <2>2
<1>6. \A i \in 1..Len(Kept(b)) : RuleMade(b, i)
  BY <1>1, <1>2, <1>5 DEF RuleMade
<1>7. FieldsNow(b) = AllFields(b)
  BY <1>4, <1>6 DEF FieldsNow, AllFields, Range
<1>8. Len(Kept(Blueprints[12])) = 4
  BY DEF Blueprints, Kept, KeptOfUsage, KeptOfBookmarks, KeptOfOthers
<1>9. Made(k, 0)
  BY <1>3, <1>8 DEF Made
<1>10. QED
  BY <1>1, <1>2, <1>7, <1>9 DEF BlueprintMade

RowsRead(b, rows) == {[i \in 1..Len(rows) |-> RecordRead(b, rows[i])]}
ListOf(b, spelling, suffix, rows) ==
    IF TakenOf(b, spelling, suffix) THEN RowsRead(b, rows) ELSE Nothing

\* What is uploaded then is read back row by row, if some blueprint took it.
LEMMA UploadRead ==
    ASSUME Complete, NEW b \in ReadLists, NEW spelling \in Spellings,
           NEW rows \in Seq(Rows), NEW suffix \in Suffixes, NEW byPattern
    PROVE  /\ MapToUserData(b, CleanRecords(
                  Preferred(Upload(spelling, rows, suffix, byPattern)[b])))
                  = ListOf(b, spelling, suffix, rows)
           /\ (\E s \in VariantNames :
                  Upload(spelling, rows, suffix, byPattern)[b][s] # Nothing)
                  <=> TakenOf(b, spelling, suffix)
<1> DEFINE keys == Keys(b, spelling)
           variants == Upload(spelling, rows, suffix, byPattern)[b]
           own == StoredOf(b, keys, rows, byPattern)
           other == StoredByVariant(keys, rows, byPattern)
<1>1. b \in BlueprintNames
  BY DEF ReadLists, BlueprintNames, Blueprints, Range
<1>2. BlueprintMade(b) /\ FieldsNow(b) = AllFields(b)
  BY <1>1, CompleteSetUp
<1>3. variants = [s \in VariantNames |-> IF s = "none" THEN own
                                         ELSE IF s = suffix THEN other ELSE Nothing]
  BY <1>1 DEF Upload
<1>4. VariantNames = {"none", "_txt", "_old", "_old_api"} /\ suffix \in VariantNames
      /\ "none" \in VariantNames
  BY DEF VariantNames, Variants, Range, Suffixes
<1>5. /\ own = IF Takes(b, keys) THEN Extracted(AllFields(b), keys, rows, byPattern)
               ELSE Nothing
      /\ other = IF VariantFields \subseteq keys
                 THEN Extracted(VariantFields, keys, rows, byPattern) ELSE Nothing
  BY <1>2 DEF StoredOf, StoredByVariant
<1>6. \A fields : Extracted(fields, keys, rows, byPattern) # Nothing
  BY DEF Extracted, Nothing
<1> HIDE DEF own, other
<1>7. /\ Preferred(variants) = IF variants["none"] # Nothing THEN variants["none"]
                               ELSE variants[suffix]
      /\ variants["none"] = own
      /\ variants[suffix] = IF suffix = "none" THEN own ELSE other
      /\ \A s \in VariantNames : variants[s] # Nothing => s = "none" \/ s = suffix
  <2>1. \A s \in VariantNames \ {"none", suffix} : variants[s] = Nothing
    BY <1>3
  <2>2. /\ variants["none"] = own
        /\ variants[suffix] = IF suffix = "none" THEN own ELSE other
    BY <1>3, <1>4
  <2> HIDE DEF variants
  <2>3. QED
    BY <2>1, <2>2, PreferredOf
<1> HIDE DEF variants
<1>8. TakenOf(b, spelling, suffix)
          <=> Takes(b, keys) \/ (suffix # "none" /\ VariantFields \subseteq keys)
  BY DEF TakenOf
<1>9. (\E s \in VariantNames : variants[s] # Nothing) <=> TakenOf(b, spelling, suffix)
  BY <1>4, <1>5, <1>6, <1>7, <1>8
<1>10. \A K \in Readable(b) :
           MapToUserData(b, CleanRows(K, rows)) = RowsRead(b, rows)
  BY ListRead DEF RowsRead
<1>11. ASSUME Takes(b, keys)
       PROVE  MapToUserData(b, CleanRecords(own)) = RowsRead(b, rows)
  <2>1. KeysKept(AllFields(b), keys) \in Readable(b)
    BY <1>11, KeysOfBlueprint
  <2>2. CleanRecords(own) = CleanRows(KeysKept(AllFields(b), keys), rows)
    BY <1>5, <1>11, CleanRowsOf
  <2>3. QED
    BY <1>10, <2>1, <2>2
<1>12. ASSUME VariantFields \subseteq keys
       PROVE  MapToUserData(b, CleanRecords(other)) = RowsRead(b, rows)
  <2>1. KeysKept(VariantFields, keys) \in Readable(b)
    BY <1>12, KeysOfVariant
  <2>2. CleanRecords(other) = CleanRows(KeysKept(VariantFields, keys), rows)
    BY <1>5, <1>12, CleanRowsOf
  <2>3. QED
    BY <1>10, <2>1, <2>2
<1>13. MapToUserData(b, CleanRecords(Nothing)) = Nothing
  BY DEF MapToUserData, MapVideoRecords, CleanRecords, Nothing
<1>14. MapToUserData(b, CleanRecords(Preferred(variants))) = ListOf(b, spelling, suffix, rows)
  <2>1. CASE Takes(b, keys)
    BY <1>5, <1>6, <1>7, <1>8, <1>11, <2>1 DEF ListOf
  <2>2. CASE ~Takes(b, keys) /\ suffix # "none" /\ VariantFields \subseteq keys
    BY <1>5, <1>6, <1>7, <1>8, <1>12, <2>2 DEF ListOf
  <2>3. CASE ~Takes(b, keys) /\ ~(suffix # "none" /\ VariantFields \subseteq keys)
    <3>1. own = Nothing /\ variants[suffix] = Nothing
      BY <1>5, <1>7, <2>3
    <3>2. QED
      BY <1>7, <1>8, <1>13, <2>3, <3>1 DEF ListOf
  <2>4. QED
    BY <2>1, <2>2, <2>3
<1>15. QED
  BY <1>9, <1>14 DEF variants

\* Whatever is there of the set-up, no text of a comment and no link of an own
\* video is stored.
LEMMA UploadSpares ==
    ASSUME NEW spelling, NEW rows, NEW suffix, NEW byPattern, NEW uploaded,
           uploaded = Upload(spelling, rows, suffix, byPattern)
    PROVE  /\ \A v \in VariantNames : \A records \in uploaded["comments"][v] :
                  \A i \in 1..Len(records) : \A p \in records[i] : p[1] # "comment"
           /\ \A records \in uploaded["posted_videos"]["none"] :
                  \A i \in 1..Len(records) : \A p \in records[i] :
                      NormaliseKey(p[1]) # "link"
<1>1. "comments" \in BlueprintNames /\ "posted_videos" \in BlueprintNames
  BY DEF BlueprintNames, Blueprints, Range
<1>2. "none" \in VariantNames
  BY DEF VariantNames, Variants, Range
<1>3. ASSUME NEW fields, NEW keys,
             NEW records \in Extracted(fields, keys, rows, byPattern),
             NEW i \in 1..Len(records), NEW p \in records[i]
      PROVE  \E f \in fields : \E k \in keys \cap Matching(f) :
                 p[1] = StoredAs(f, k, byPattern)
  <2>1. records = [j \in 1..Len(rows) |-> Extract(fields, keys, rows[j], byPattern)]
    BY DEF Extracted
  <2>2. i \in 1..Len(rows)
    BY <2>1
  <2>3. p \in Extract(fields, keys, rows[i], byPattern)
    BY <2>1, <2>2
  <2>4. QED
    BY <2>3 DEF Extract
<1>4. \A b : FieldsNow(b) \subseteq {Kept(b)[j] : j \in 1..Len(Kept(b))}
  BY DEF FieldsNow
<1>5. FieldsNow("comments") \subseteq {"(D|d)ate", "(L|l)ink"}
  <2>1. Kept("comments") = <<"(D|d)ate", "(L|l)ink">>
    BY DEF Kept, KeptOfUsage, KeptOfBookmarks, KeptOfOthers
  <2>2. QED
    BY <1>4, <2>1
<1>6. "Link" \notin FieldsNow("posted_videos") /\ "link" \notin FieldsNow("posted_videos")
      /\ "(L|l)ink" \notin FieldsNow("posted_videos")
  <2>1. Kept("posted_videos")
            = <<"Date", "WhoCanView", "AllowComments", "AllowStitches", "AllowDuets",
                "AllowSharingToStory", "ContentDisclosure", "AIGeneratedContent", "Sound">>
    BY DEF Kept, KeptOfUsage, KeptOfBookmarks, KeptOfOthers
  <2>2. QED
    BY <1>4, <2>1
<1>7. ASSUME NEW f \in {"(D|d)ate", "(L|l)ink"} \cup VariantFields, NEW k \in Matching(f)
      PROVE  StoredAs(f, k, byPattern) # "comment"
  BY DEF VariantFields, Matching, StoredAs
<1>8. ASSUME NEW f, NEW k \in Matching(f), NormaliseKey(StoredAs(f, k, byPattern)) = "link"
      PROVE  f \in {"Link", "link", "(L|l)ink"}
  BY <1>8 DEF NormaliseKey, Matching, StoredAs
<1>9. ASSUME NEW v \in VariantNames, NEW records \in uploaded["comments"][v],
             NEW i \in 1..Len(records), NEW p \in records[i]
      PROVE  p[1] # "comment"
  <2>1. uploaded["comments"][v] \subseteq
            Extracted(FieldsNow("comments"), Keys("comments", spelling), rows, byPattern)
            \cup Extracted(VariantFields, Keys("comments", spelling), rows, byPattern)
    BY <1>1 DEF Upload, StoredOf, StoredByVariant, Nothing
  <2>2. \/ \E f \in FieldsNow("comments") : \E k \in Matching(f) :
               p[1] = StoredAs(f, k, byPattern)
        \/ \E f \in VariantFields : \E k \in Matching(f) :
               p[1] = StoredAs(f, k, byPattern)
    BY <1>3, <2>1
  <2>3. PICK f \in {"(D|d)ate", "(L|l)ink"} \cup VariantFields :
            \E k \in Matching(f) : p[1] = StoredAs(f, k, byPattern)
    BY <1>5, <2>2
  <2>4. QED
    BY <1>7, <2>3
<1>10. ASSUME NEW records \in uploaded["posted_videos"]["none"],
              NEW i \in 1..Len(records), NEW p \in records[i]
       PROVE  NormaliseKey(p[1]) # "link"
  <2>1. uploaded["posted_videos"]["none"] \subseteq
            Extracted(FieldsNow("posted_videos"), Keys("posted_videos", spelling), rows, byPattern)
    BY <1>1, <1>2 DEF Upload, StoredOf, Nothing
  <2>2. PICK f \in FieldsNow("posted_videos") :
            \E k \in Matching(f) : p[1] = StoredAs(f, k, byPattern)
    BY <1>3, <2>1
  <2>3. QED
    BY <1>6, <1>8, <2>2
<1>11. QED
  BY <1>9, <1>10

-----------------------------------------------------------------------------
(****************************************************************************)
(* What is registered                                                       *)
(****************************************************************************)

Leading(rows) == \A i \in 1..Len(rows) : rows[i].target # "elsewhere"
Reading(spelling, suffix, rows) ==
    [b \in ReadLists |-> ListOf(b, spelling, suffix, rows)]
Reads(spelling, suffix, k) == TakenOf(Sources[k], spelling, suffix)

\* A record of a video: its number and its time.
VideoRecord(row) == {Dated(row), Link(row), VideoOf(row)}

LEMMA IdInRecords ==
    ASSUME NEW records, NEW x
    PROVE  x \in IdsOf(records)
               <=> x # NoVideo /\ \E r \in records : x \in FieldOf(r, "video_id")
<1> DEFINE named == UNION {FieldOf(r, "video_id") : r \in records}
<1>1. x \in named <=> \E r \in records : x \in FieldOf(r, "video_id")
  OBVIOUS
<1>2. IdsOf(records) = named \ {NoVideo}
  BY DEF IdsOf
<1> HIDE DEF named
<1>3. QED
  BY <1>1, <1>2

LEMMA RecordFields ==
    ASSUME NEW row \in Rows, row.target # "elsewhere"
    PROVE  /\ FieldOf(VideoRecord(row), "video_id") = {row.video}
           /\ row.video # NoVideo
           /\ IdsOf({VideoRecord(row)}) = {row.video}
           /\ Times(VideoRecord(row)) = IF row.form = "other" THEN {} ELSE {row.at}
<1>1. /\ Dated(row)[1] = "date" /\ Link(row)[1] = "link"
      /\ VideoOf(row)[1] = "video_id" /\ VideoOf(row)[2] = row.video
  BY DEF Dated, DateRead, Link, VideoOf
<1>2. FieldOf(VideoRecord(row), "video_id") = {row.video}
  BY <1>1 DEF FieldOf, VideoRecord
<1>3. row.video # NoVideo
  BY DEF Rows
<1>4. IdsOf({VideoRecord(row)}) = {row.video}
  <2> DEFINE R == VideoRecord(row)
  <2> HIDE DEF R
  <2>1. ASSUME NEW x PROVE x \in IdsOf({R}) <=> x \in {row.video}
    BY <1>2, <1>3, IdInRecords DEF R
  <2>2. IdsOf({R}) = {row.video}
    BY <2>1
  <2>3. QED
    BY <2>2 DEF R
<1>5. FieldOf(VideoRecord(row), "date") = {Dated(row)[2]}
  BY <1>1 DEF FieldOf, VideoRecord
<1>6. CASE row.form = "other"
  <2>1. Dated(row)[2] = [form |-> row.form, at |-> row.at]
    BY <1>6 DEF Dated, DateRead
  <2>2. DOMAIN Dated(row)[2] # {"at"}
    BY <2>1
  <2>3. Times(VideoRecord(row)) = {}
    BY <1>5, <2>2 DEF Times
  <2>4. QED
    BY <1>2, <1>3, <1>4, <1>6, <2>3
<1>7. CASE row.form # "other"
  <2>1. Dated(row)[2] = [at |-> row.at]
    BY <1>7 DEF Dated, DateRead
  <2>2. DOMAIN Dated(row)[2] = {"at"} /\ Dated(row)[2].at = row.at
    BY <2>1
  <2>3. Times(VideoRecord(row)) = {row.at}
    BY <1>5, <2>2 DEF Times
  <2>4. QED
    BY <1>2, <1>3, <1>4, <1>7, <2>3
<1>8. QED
  BY <1>6, <1>7

\* The records of a list of videos are those of the rows, if it was taken.
LEMMA RecordsRead ==
    ASSUME NEW spelling, NEW suffix, NEW rows \in Seq(Rows), NEW k \in DOMAIN Sources
    PROVE  RecordsOf(Reading(spelling, suffix, rows), Sources[k])
               = IF Reads(spelling, suffix, k)
                 THEN {VideoRecord(rows[i]) : i \in 1..Len(rows)} ELSE {}
<1>1. Sources[k] \in VideoLists /\ Sources[k] \in ReadLists
  BY DEF Sources, VideoLists, ReadLists
<1>2. Reading(spelling, suffix, rows)[Sources[k]] = IF Reads(spelling, suffix, k) THEN RowsRead(Sources[k], rows) ELSE {}
  BY <1>1 DEF Reading, ListOf, Reads, Nothing
<1>3. RowsRead(Sources[k], rows)
          = {[i \in 1..Len(rows) |-> VideoRecord(rows[i])]}
  <2>1. \A i \in 1..Len(rows) :
            RecordRead(Sources[k], rows[i]) = VideoRecord(rows[i])
    BY <1>1 DEF RecordRead, VideoRecord
  <2>2. QED
    BY <2>1 DEF RowsRead
<1>4. CASE Reads(spelling, suffix, k)
  <2> DEFINE list == [i \in 1..Len(rows) |-> VideoRecord(rows[i])]
  <2>1. Reading(spelling, suffix, rows)[Sources[k]] = {list}
    BY <1>2, <1>3, <1>4
  <2>2. Range(list) = {VideoRecord(rows[i]) : i \in 1..Len(rows)}
    BY DEF Range
  <2> HIDE DEF list
  <2>3. RecordsOf(Reading(spelling, suffix, rows), Sources[k]) = Range(list)
    BY <2>1 DEF RecordsOf
  <2>4. QED
    BY <1>4, <2>2, <2>3
<1>5. CASE ~Reads(spelling, suffix, k)
  BY <1>2, <1>5 DEF RecordsOf
<1>6. QED
  BY <1>4, <1>5

LEMMA SeenRead ==
    ASSUME NEW spelling, NEW suffix, NEW rows \in Seq(Rows), Leading(rows)
    PROVE  /\ ~Unreadable(Reading(spelling, suffix, rows), "watch_history")
           /\ ~Unreadable(Reading(spelling, suffix, rows), "liked_videos")
           /\ IdsOf(UNION {RecordsOf(Reading(spelling, suffix, rows), Sources[k]) : k \in DOMAIN Sources})
                  = IF \E k \in DOMAIN Sources : Reads(spelling, suffix, k) THEN SeenIn(rows) ELSE {}
           /\ ScannedVideos(Reading(spelling, suffix, rows))
                  = IF \E k \in DOMAIN Sources : Reads(spelling, suffix, k) THEN SeenIn(rows) ELSE {}
<1> DEFINE R(k) == RecordsOf(Reading(spelling, suffix, rows), Sources[k])
           V == {VideoRecord(rows[i]) : i \in 1..Len(rows)}
<1>1. \A i \in 1..Len(rows) :
          /\ FieldOf(VideoRecord(rows[i]), "video_id") = {rows[i].video}
          /\ rows[i].video # NoVideo /\ IdsOf({VideoRecord(rows[i])}) = {rows[i].video}
  <2>1. \A i \in 1..Len(rows) : rows[i] \in Rows /\ rows[i].target # "elsewhere"
    BY DEF Leading
  <2>2. QED
    BY <2>1, RecordFields
<1>2. \A k \in DOMAIN Sources : R(k) = IF Reads(spelling, suffix, k) THEN V ELSE {}
  BY RecordsRead
<1>3. IdsOf(V) = SeenIn(rows)
  <2>1. SeenIn(rows) = {rows[i].video : i \in 1..Len(rows)}
    BY DEF SeenIn, Leading
  <2>2. ASSUME NEW x
        PROVE  (\E r \in V : x \in FieldOf(r, "video_id"))
                   <=> \E i \in 1..Len(rows) : x \in FieldOf(VideoRecord(rows[i]), "video_id")
    OBVIOUS
  <2>3. ASSUME NEW x
        PROVE  x \in SeenIn(rows) <=> x \in IdsOf(V)
    <3> HIDE DEF V
    <3>1. x \in IdsOf(V)
              <=> x # NoVideo /\ \E i \in 1..Len(rows) :
                                   x \in FieldOf(VideoRecord(rows[i]), "video_id")
      BY <2>2, IdInRecords
    <3>2. \A i \in 1..Len(rows) :
              x \in FieldOf(VideoRecord(rows[i]), "video_id") <=> x = rows[i].video
      BY <1>1
    <3>3. x \in IdsOf(V) <=> x # NoVideo /\ \E i \in 1..Len(rows) : x = rows[i].video
      BY <3>1, <3>2
    <3>4. x \in SeenIn(rows) <=> \E i \in 1..Len(rows) : x = rows[i].video
      BY <2>1
    <3>5. QED
      BY <1>1, <3>3, <3>4
  <2> HIDE DEF V
  <2>4. QED
    BY <2>3
<1>4. IdsOf({}) = {}
  BY DEF IdsOf
<1>5. \A r \in V : IdsOf({r}) # {}
  BY <1>1
<1> HIDE DEF R, V
<1>6. UNION {R(k) : k \in DOMAIN Sources}
          = IF \E k \in DOMAIN Sources : Reads(spelling, suffix, k) THEN V ELSE {}
  BY <1>2
<1>7. UNION {IdsOf(R(k)) : k \in DOMAIN Sources}
          = IF \E k \in DOMAIN Sources : Reads(spelling, suffix, k) THEN IdsOf(V) ELSE {}
  BY <1>2, <1>4
<1>8. ~Unreadable(Reading(spelling, suffix, rows), "watch_history") /\ ~Unreadable(Reading(spelling, suffix, rows), "liked_videos")
  <2>1. /\ "watched" \in DOMAIN Sources /\ Sources["watched"] = "watch_history"
        /\ "liked" \in DOMAIN Sources /\ Sources["liked"] = "liked_videos"
    BY DEF Sources
  <2>2. R("watched") \subseteq V /\ R("liked") \subseteq V
    BY <1>2, <2>1
  <2>3. QED
    BY <1>5, <2>1, <2>2 DEF Unreadable, R
<1>9. QED
  BY <1>3, <1>4, <1>6, <1>7, <1>8 DEF R, ScannedVideos

\* The records that show a video, and when they do.
LEMMA ShowingRead ==
    ASSUME NEW spelling, NEW suffix, NEW rows \in Seq(Rows), Leading(rows), NEW v \in SeenIn(rows)
    PROVE  /\ \A k \in DOMAIN Sources : Showing(Reading(spelling, suffix, rows), v, k) # {} <=> Reads(spelling, suffix, k)
           /\ (\E k \in DOMAIN Sources : Reads(spelling, suffix, k))
                  => When(Reading(spelling, suffix, rows), v) = SeenAt(rows, v)
<1> DEFINE shows == {VideoRecord(rows[i]) : i \in {j \in 1..Len(rows) : rows[j].video = v}}
<1>1. \A i \in 1..Len(rows) :
          /\ FieldOf(VideoRecord(rows[i]), "video_id") = {rows[i].video}
          /\ Times(VideoRecord(rows[i]))
                 = IF rows[i].form = "other" THEN {} ELSE {rows[i].at}
  <2>1. \A i \in 1..Len(rows) : rows[i] \in Rows /\ rows[i].target # "elsewhere"
    BY DEF Leading
  <2>2. QED
    BY <2>1, RecordFields
<1>2. ASSUME NEW k \in DOMAIN Sources
      PROVE  Showing(Reading(spelling, suffix, rows), v, k) = IF Reads(spelling, suffix, k) THEN shows ELSE {}
  <2>1. Showing(Reading(spelling, suffix, rows), v, k)
            = {r \in RecordsOf(Reading(spelling, suffix, rows), Sources[k]) : v \in FieldOf(r, "video_id")}
    BY DEF Showing
  <2>2. CASE Reads(spelling, suffix, k)
    <3>1. RecordsOf(Reading(spelling, suffix, rows), Sources[k]) = {VideoRecord(rows[i]) : i \in 1..Len(rows)}
      BY <2>2, RecordsRead
    <3>2. \A i \in 1..Len(rows) :
              v \in FieldOf(VideoRecord(rows[i]), "video_id") <=> rows[i].video = v
      BY <1>1
    <3>3. {r \in {VideoRecord(rows[i]) : i \in 1..Len(rows)} : v \in FieldOf(r, "video_id")}
              = shows
      BY <3>2
    <3>4. QED
      BY <2>1, <2>2, <3>1, <3>3
  <2>3. CASE ~Reads(spelling, suffix, k)
    BY <2>1, <2>3, RecordsRead
  <2>4. QED
    BY <2>2, <2>3
<1>3. shows # {}
  BY DEF SeenIn
<1>4. UNION {Times(r) : r \in shows} = SeenAt(rows, v)
  <2>1. SeenAt(rows, v) = {rows[i].at : i \in
            {j \in 1..Len(rows) : rows[j].video = v /\ rows[j].form # "other"}}
    BY DEF SeenAt, Leading
  <2>2. ASSUME NEW x
        PROVE  x \in UNION {Times(r) : r \in shows}
                   <=> \E i \in 1..Len(rows) : rows[i].video = v
                                               /\ x \in Times(VideoRecord(rows[i]))
    OBVIOUS
  <2>3. ASSUME NEW x
        PROVE  (\E i \in 1..Len(rows) : rows[i].video = v /\ x \in Times(VideoRecord(rows[i])))
                   <=> \E i \in 1..Len(rows) :
                           rows[i].video = v /\ rows[i].form # "other" /\ x = rows[i].at
    BY <1>1
  <2>4. ASSUME NEW x
        PROVE  x \in UNION {Times(r) : r \in shows} <=> x \in SeenAt(rows, v)
    <3>1. x \in SeenAt(rows, v) <=>
              \E i \in 1..Len(rows) :
                  rows[i].video = v /\ rows[i].form # "other" /\ x = rows[i].at
      BY <2>1
    <3>2. QED
      BY <2>2, <2>3, <3>1
  <2>5. QED
    BY <2>4
<1> HIDE DEF shows
<1>5. (\E k \in DOMAIN Sources : Reads(spelling, suffix, k))
          => UNION {Showing(Reading(spelling, suffix, rows), v, k) : k \in DOMAIN Sources} = shows
  BY <1>2
<1>6. QED
  BY <1>2, <1>3, <1>4, <1>5 DEF When

\* The donation that is in the file is the one that is processed.
LEMMA RegisteredAsSeen ==
    ASSUME NEW f, file = {f}, NEW rows \in Seq(Rows), f.rows = rows, Leading(rows)
    PROVE  RecordedAsSeen(RegisterMetadata(Reading(f.spelling, f.suffix, rows)), rows)
<1> DEFINE data == Reading(f.spelling, f.suffix, rows)
           users == UNION {FieldOf(r, "username") :
                               r \in RecordsOf(data, "followed_accounts")}
           all == UNION {RecordsOf(data, Sources[k]) : k \in DOMAIN Sources}
           seen == IF \E k \in DOMAIN Sources : Reads(f.spelling, f.suffix, k)
                   THEN SeenIn(rows) ELSE {}
           infos == Scan(data)
           m == RegisterMetadata(data)
<1>1. The(file) = f
  BY DEF The
<1>2. KindsTaken = {k \in DOMAIN Sources : Reads(f.spelling, f.suffix, k)}
  <2>1. \A b : TakenBySome(b) <=> TakenOf(b, f.spelling, f.suffix)
    BY <1>1, Zenon DEF TakenBySome, TakenOf
  <2>2. QED
    BY <2>1 DEF KindsTaken, Reads
<1>3. /\ ~Unreadable(data, "watch_history") /\ ~Unreadable(data, "liked_videos")
      /\ IdsOf(all) = seen
      /\ ScannedVideos(data) = seen
  <2>1. ~Unreadable(data, "watch_history") /\ ~Unreadable(data, "liked_videos")
    BY SeenRead
  <2>2. IdsOf(all) = seen
    BY SeenRead
  <2>3. ScannedVideos(data) = seen
    BY SeenRead
  <2>4. QED
    BY <2>1, <2>2, <2>3
<1>4. m = Registered(all, users, infos, QueueEntries(infos))
  BY <1>3 DEF RegisterMetadata
<1>5. /\ m.videos = IdsOf(all) /\ m.infos = infos /\ m.queue = QueueEntries(infos)
  BY <1>4 DEF Registered
<1>6. infos = [v \in seen |->
                  [kinds |-> {k \in DOMAIN Sources : Showing(data, v, k) # {}},
                   last |-> Latest(When(data, v)),
                   window |-> LatestInWindow(When(data, v))]]
  BY <1>3 DEF Scan
<1>7. \A v \in seen :
          /\ {k \in DOMAIN Sources : Showing(data, v, k) # {}} = KindsTaken
          /\ When(data, v) = SeenAt(rows, v)
  BY <1>2, ShowingRead
<1> HIDE DEF data, all, infos, m
<1>8. seen = IF KindsTaken = {} THEN {} ELSE SeenIn(rows)
  BY <1>2
<1> HIDE DEF seen
<1>9. ASSUME NEW v \in seen
      PROVE  /\ infos[v].kinds = KindsTaken /\ infos[v].last = Latest(SeenAt(rows, v))
             /\ infos[v].window = Latest(SeenAt(rows, v) \cap WatchWindow)
  BY <1>6, <1>7 DEF LatestInWindow
<1>10. DOMAIN infos = seen
  BY <1>6
<1>11. ASSUME NEW p
       PROVE  p \in m.queue <=> p \in seen \X WatchWindow /\ p[2] \in infos[p[1]].window
  BY <1>5, <1>10 DEF QueueEntries
<1>12. ASSUME NEW v \in seen
       PROVE  {q[2] : q \in {p \in m.queue : p[1] = v}}
                  = Latest(SeenAt(rows, v) \cap WatchWindow)
  <2>1. Latest(SeenAt(rows, v) \cap WatchWindow) \subseteq WatchWindow
    BY DEF Latest
  <2>2. ASSUME NEW t \in Latest(SeenAt(rows, v) \cap WatchWindow)
        PROVE  t \in {q[2] : q \in {p \in m.queue : p[1] = v}}
    <3>1. <<v, t>> \in m.queue
      BY <1>9, <1>11, <2>1
    <3>2. QED
      BY <3>1
  <2>3. ASSUME NEW q \in m.queue, q[1] = v
        PROVE  q[2] \in Latest(SeenAt(rows, v) \cap WatchWindow)
    BY <1>9, <1>11, <2>3
  <2>4. QED
    BY <2>2, <2>3
<1>13. {q[1] : q \in m.queue} \subseteq seen
  BY <1>11
<1>14. QED
  BY <1>3, <1>5, <1>8, <1>9, <1>10, <1>12, <1>13 DEF RecordedAsSeen, m, data

-----------------------------------------------------------------------------
(****************************************************************************)
(* Nothing is lost, and what was promised is spared                         *)
(****************************************************************************)

\* What is stored is read back as it should be.
ReadInv(spelling, suffix, rows) ==
    \A b \in ReadLists :
        /\ UserData(b) = ListOf(b, spelling, suffix, rows)
        /\ (\E s \in VariantNames : donation[b][s] # Nothing)
               <=> TakenOf(b, spelling, suffix)

FileInv(f) ==
    /\ file = {f} /\ f.rows \in Seq(Rows)
    /\ f.complete =>
           /\ ReadInv(f.spelling, f.suffix, f.rows)
           /\ \A m \in metadata :
                  m = RegisterMetadata(Reading(f.spelling, f.suffix, f.rows))

DataInv ==
    /\ file = Nothing => metadata = Nothing
    /\ \A f \in file : FileInv(f)
    /\ ContentSpared

\* What is read of a row has one date and one video.
LEMMA ReadRow ==
    ASSUME NEW b \in ReadLists, NEW row \in Rows
    PROVE  /\ {p \in RecordRead(b, row) : p[1] = "date"} = {DateRead(row)}
           /\ Linked(b) => {p \in RecordRead(b, row) : p[1] = "video_id"} = {VideoOf(row)}
<1>1. /\ Dated(row)[1] = "date" /\ Link(row)[1] = "link" /\ Shared(row)[1] = "sharedcontent"
      /\ VideoOf(row)[1] = "video_id" /\ <<"Method", "text">>[1] = "Method"
      /\ <<"username", "text">>[1] = "username" /\ Dated(row) = DateRead(row)
  BY DEF Dated, DateRead, Link, Shared, VideoOf
<1>2. CASE b \in VideoLists
  BY <1>1, <1>2 DEF RecordRead
<1>3. CASE b = "shared_videos"
  BY <1>1, <1>3 DEF RecordRead, VideoLists
<1>4. CASE b = "followed_accounts"
  BY <1>1, <1>4 DEF RecordRead, VideoLists, Linked
<1>5. CASE b = "comments"
  BY <1>1, <1>5 DEF RecordRead, VideoLists, Linked
<1>6. QED
  BY <1>2, <1>3, <1>4, <1>5 DEF ReadLists, VideoLists

LEMMA NothingLostFromInv ==
    ASSUME DataInv
    PROVE  NothingLost
<1> SUFFICES ASSUME NEW f \in file, f.complete PROVE NothingLost
  BY DEF NothingLost
<1> DEFINE rows == f.rows
<1>1. /\ file = {f} /\ rows \in Seq(Rows) /\ ReadInv(f.spelling, f.suffix, rows)
      /\ \A m \in metadata : m = RegisterMetadata(Reading(f.spelling, f.suffix, rows))
  BY DEF DataInv, FileInv
<1>2. The(file) = f /\ The(file).rows = rows
  BY <1>1 DEF The
<1>3. \A b : TakenBySome(b) <=> TakenOf(b, f.spelling, f.suffix)
  BY <1>2, Zenon DEF TakenBySome, TakenOf
<1>4. \A b \in ReadLists :
          UserData(b) = IF TakenBySome(b) THEN RowsRead(b, rows) ELSE Nothing
  BY <1>1, <1>3 DEF ReadInv, ListOf
<1>5. ASSUME NEW b \in ReadLists
      PROVE  IF ~TakenBySome(b) THEN UserData(b) = Nothing
             ELSE /\ Len(The(UserData(b))) = Len(rows)
                  /\ \A i \in 1..Len(rows) :
                         LET record == The(UserData(b))[i]
                             row == rows[i]
                         IN /\ {p \in record : p[1] = "date"} = {DateRead(row)}
                            /\ Linked(b) => {p \in record : p[1] = "video_id"} = {VideoOf(row)}
  <2> DEFINE list == [i \in 1..Len(rows) |-> RecordRead(b, rows[i])]
  <2>1. CASE ~TakenBySome(b)
    BY <1>4, <2>1
  <2>2. CASE TakenBySome(b)
    <3>1. UserData(b) = {list}
      BY <1>4, <2>2 DEF RowsRead
    <3>2. The(UserData(b)) = list
      BY <3>1 DEF The
    <3>3. Len(list) = Len(rows)
      BY <1>1
    <3>4. \A i \in 1..Len(rows) : list[i] = RecordRead(b, rows[i]) /\ rows[i] \in Rows
      BY <1>1
    <3> HIDE DEF list, rows
    <3>5. QED
      BY <2>2, <3>2, <3>3, <3>4, ReadRow
  <2>3. QED
    BY <2>1, <2>2
<1>6. ASSUME NEW b \in VideoLists
      PROVE  VideoDonations(b) = UserData(b)
  BY DEF VideoDonations, UserData, ReadBack, VideoLists, ReadLists
<1>7. HasVideoDonation <=> \E b \in VideoLists : UserData(b) # Nothing
  <2>1. \A b \in VideoLists : b \in ReadLists
    BY DEF VideoLists, ReadLists
  <2>2. \A b : RowsRead(b, rows) # Nothing
    BY DEF RowsRead, Nothing
  <2>3. \A b \in VideoLists : (\E s \in VariantNames : donation[b][s] # Nothing)
                                  <=> TakenOf(b, f.spelling, f.suffix)
    BY <1>1, <2>1 DEF ReadInv
  <2>4. \A b \in VideoLists : UserData(b) # Nothing <=> TakenOf(b, f.spelling, f.suffix)
    BY <1>3, <1>4, <2>1, <2>2
  <2>5. QED
    BY <2>3, <2>4 DEF HasVideoDonation
<1>8. ASSUME NEW m \in metadata, Leading(rows)
      PROVE  RecordedAsSeen(m, rows)
  BY <1>1, <1>8, RegisteredAsSeen
<1> HIDE DEF rows
<1>9. QED
  BY <1>2, <1>5, <1>6, <1>7, <1>8 DEF NothingLost, Leading

LEMMA DataStarts ==
    ASSUME DataInit
    PROVE  DataInv
  BY DEF DataInit, DataInv, ContentSpared, Nothing

LEMMA DataStep ==
    ASSUME DataInv, [DataNext]_dataVars
    PROVE  DataInv'
\* Whoever leaves the file and what is made of it alone.
<1>1. ASSUME UNCHANGED <<file, donation, metadata>> PROVE DataInv'
  <2>1. \A b : UserData(b)' = UserData(b)
    BY <1>1 DEF UserData, ReadBack
  <2>2. \A f : FileInv(f) => FileInv(f)'
    BY <1>1, <2>1 DEF FileInv, ReadInv
  <2>3. ContentSpared'
    BY <1>1 DEF DataInv, ContentSpared
  <2>4. QED
    BY <1>1, <2>2, <2>3 DEF DataInv
<1>2. CASE RunSetUp \/ WriteRow \/ SetUpDies \/ UNCHANGED dataVars
  BY <1>1, <1>2 DEF RunSetUp, WriteRow, SetUpDies, dataVars
<1>3. CASE Donate
  <2>0. PICK whole : whole = Complete
    OBVIOUS
  <2>1. PICK spelling \in Spellings, rows \in Exports \cup EarlyExports,
             suffix \in Suffixes, byPattern \in BOOLEAN :
            /\ file' = {[spelling |-> spelling, rows |-> rows, suffix |-> suffix,
                         complete |-> whole]}
            /\ donation' = Upload(spelling, rows, suffix, byPattern)
    BY <1>3, <2>0 DEF Donate, Spellings, Suffixes
  <2>2. metadata' = {}
    BY <1>3 DEF Donate, DataInv, Nothing
  <2>3. rows \in Seq(Rows)
    BY ExportsAssumption
  <2> DEFINE f == [spelling |-> spelling, rows |-> rows, suffix |-> suffix,
                   complete |-> whole]
  <2>4. ASSUME whole PROVE ReadInv(spelling, suffix, rows)'
    <3>1. ASSUME NEW b \in ReadLists
          PROVE  /\ UserData(b)' = ListOf(b, spelling, suffix, rows)
                 /\ (\E s \in VariantNames : donation'[b][s] # Nothing)
                        <=> TakenOf(b, spelling, suffix)
      <4>1. UserData(b)' = MapToUserData(b, CleanRecords(Preferred(donation'[b])))
        BY DEF UserData, ReadBack
      <4>2. QED
        BY <2>0, <2>1, <2>3, <2>4, <4>1, UploadRead
    <3>2. QED
      BY <3>1 DEF ReadInv
  <2>5. FileInv(f)'
    <3>1. f.rows = rows /\ f.spelling = spelling /\ f.suffix = suffix /\ f.complete = whole
      OBVIOUS
    <3> HIDE DEF f
    <3>2. file' = {f}
      BY <2>1 DEF f
    <3>3. QED
      BY <2>2, <2>3, <2>4, <3>1, <3>2 DEF FileInv
  <2>6. ContentSpared'
    BY <2>1, UploadSpares DEF ContentSpared
  <2>7. QED
    BY <2>1, <2>2, <2>5, <2>6 DEF DataInv, Nothing
<1>4. CASE ProcessDonation
  <2>1. /\ UNCHANGED <<file, donation>> /\ file # Nothing
        /\ metadata' = {RegisterMetadata([b \in ReadLists |-> UserData(b)])}
    BY <1>4 DEF ProcessDonation
  <2>2. \A b : UserData(b)' = UserData(b)
    BY <2>1 DEF UserData, ReadBack
  <2>3. ASSUME NEW f \in file PROVE FileInv(f)'
    <3>1. file' = {f} /\ f.rows \in Seq(Rows)
      BY <2>1 DEF DataInv, FileInv
    <3>2. ASSUME f.complete
          PROVE  /\ ReadInv(f.spelling, f.suffix, f.rows)'
                 /\ \A m \in metadata' :
                        m = RegisterMetadata(Reading(f.spelling, f.suffix, f.rows))
      <4>1. ReadInv(f.spelling, f.suffix, f.rows)
        BY <3>2 DEF DataInv, FileInv
      <4>2. ReadInv(f.spelling, f.suffix, f.rows)'
        BY <2>1, <2>2, <4>1 DEF ReadInv
      <4>3. [b \in ReadLists |-> UserData(b)] = Reading(f.spelling, f.suffix, f.rows)
        BY <4>1 DEF ReadInv, Reading
      <4>4. QED
        BY <2>1, <4>2, <4>3
    <3>3. QED
      BY <3>1, <3>2 DEF FileInv
  <2>4. ContentSpared'
    BY <2>1 DEF DataInv, ContentSpared
  <2>5. QED
    BY <2>1, <2>3, <2>4 DEF DataInv
<1>5. QED
  BY <1>2, <1>3, <1>4 DEF DataNext

\* However an export is spelled, whichever blueprint took a list and by
\* whatever name a field was stored: what was taken is read back row by row,
\* and what is registered is what the rows show (services.py,
\* metadata/donations/service.py).
THEOREM DonationKept == DataSpec => []NothingLost
<1>1. DataInit => DataInv
  BY DataStarts
<1>2. DataInv /\ [DataNext]_dataVars => DataInv'
  BY DataStep
<1>3. DataInv => NothingLost
  BY NothingLostFromInv
<1>4. QED
  BY <1>1, <1>2, <1>3, PTL DEF DataSpec

\* No text of a comment and no link of an own video is ever stored, whatever
\* of the set-up there is (create_tiktok_project.py 80-82, 443-444).
THEOREM PromisesKept == DataSpec => []ContentSpared
<1>1. DataInit => DataInv
  BY DataStarts
<1>2. DataInv /\ [DataNext]_dataVars => DataInv'
  BY DataStep
<1>3. DataInv => ContentSpared
  BY DEF DataInv
<1>4. QED
  BY <1>1, <1>2, <1>3, PTL DEF DataSpec

\* The command is at one of its writes, and stops at the last.
PlaceInv ==
    /\ written \in Place /\ installing \in BOOLEAN
    /\ installing => written # LastWrite
    /\ file = {} \/ \E f : file = {f}
    /\ metadata = {} \/ \E m : metadata = {m}

LEMMA PlacesOf ==
    /\ Len(Blueprints) = 12
    /\ \A k \in 0..12 : RulesOf(k) \in Nat
    /\ NotBegun \in Place /\ LastWrite \in Place /\ NotBegun # LastWrite
<1>1. Len(Blueprints) = 12 /\ \A k \in 1..12 : Blueprints[k] \in BlueprintNames
  BY DEF Blueprints, BlueprintNames, Range
<1>2. \A b \in BlueprintNames : Len(Kept(b)) \in Nat
  <2>1. \A x \in DOMAIN KeptOfUsage : Len(KeptOfUsage[x]) \in Nat
    BY DEF KeptOfUsage
  <2>2. \A x \in DOMAIN KeptOfBookmarks : Len(KeptOfBookmarks[x]) \in Nat
    BY DEF KeptOfBookmarks
  <2>3. \A x \in DOMAIN KeptOfOthers : Len(KeptOfOthers[x]) \in Nat
    BY DEF KeptOfOthers
  <2>4. \A b \in BlueprintNames :
            \/ b \in DOMAIN KeptOfUsage \/ b \in DOMAIN KeptOfBookmarks
            \/ b \in DOMAIN KeptOfOthers
    BY DEF BlueprintNames, Range, Blueprints, KeptOfUsage, KeptOfBookmarks, KeptOfOthers
  <2>5. QED
    BY <2>1, <2>2, <2>3, <2>4 DEF Kept
<1>3. \A k \in 0..12 : RulesOf(k) \in Nat
  BY <1>1, <1>2 DEF RulesOf
<1>4. RulesOf(0) = 2
  BY DEF RulesOf
<1>5. <<0, 0>> \in Place /\ <<12, RulesOf(12)>> \in Place
  BY <1>1, <1>3, <1>4 DEF Place
<1>6. QED
  BY <1>1, <1>3, <1>5 DEF NotBegun, LastWrite

LEMMA PlaceStep ==
    ASSUME PlaceInv, [DataNext]_dataVars
    PROVE  PlaceInv'
<1>1. CASE RunSetUp
  <2>1. written[1] \in 0..12 /\ written[2] \in Nat /\ written = <<written[1], written[2]>>
    BY PlacesOf DEF PlaceInv, Place
  <2>2. written = NotBegun
    BY <1>1, <2>1 DEF RunSetUp, ProjectMade, Made, NotBegun
  <2>3. QED
    BY <1>1, <2>2, PlacesOf DEF RunSetUp, PlaceInv
<1>2. CASE WriteRow
  <2>1. /\ written[1] \in 0..12 /\ written[2] \in Nat /\ written = <<written[1], written[2]>>
        /\ written[2] <= RulesOf(written[1]) /\ RulesOf(written[1]) \in Nat
    BY PlacesOf DEF PlaceInv, Place
  <2>2. written # <<12, RulesOf(12)>>
    BY <1>2, PlacesOf DEF WriteRow, PlaceInv, LastWrite
  <2>3. NextWrite \in Place
    <3>1. CASE written[2] < RulesOf(written[1])
      <4>1. written[2] + 1 \in Nat /\ written[2] + 1 <= RulesOf(written[1])
        BY <2>1, <3>1
      <4>2. QED
        BY <2>1, <3>1, <4>1, PlacesOf DEF NextWrite, Place
    <3>2. CASE ~(written[2] < RulesOf(written[1]))
      <4>1. written[2] = RulesOf(written[1])
        BY <2>1, <3>2
      <4>2. written[1] # 12
        BY <2>1, <2>2, <4>1
      <4>3. written[1] + 1 \in 0..12
        BY <2>1, <4>2
      <4>4. 0 <= RulesOf(written[1] + 1)
        BY <4>3, PlacesOf
      <4>5. QED
        BY <3>2, <4>3, <4>4, PlacesOf DEF NextWrite, Place
    <3>3. QED
      BY <3>1, <3>2
  <2>4. written' = NextWrite /\ installing' \in BOOLEAN
        /\ (installing' => NextWrite # LastWrite)
    BY <1>2 DEF WriteRow
  <2>5. QED
    BY <1>2, <2>3, <2>4 DEF WriteRow, PlaceInv, LastWrite
<1>3. CASE SetUpDies
  BY <1>3 DEF SetUpDies, PlaceInv, LastWrite
<1>4. CASE Donate
  BY <1>4 DEF Donate, PlaceInv, LastWrite
<1>5. CASE ProcessDonation
  BY <1>5 DEF ProcessDonation, PlaceInv, LastWrite
<1>6. CASE UNCHANGED dataVars
  BY <1>6 DEF dataVars, PlaceInv, LastWrite
<1>7. QED
  BY <1>1, <1>2, <1>3, <1>4, <1>5, <1>6 DEF DataNext

\* The set-up is at one of its writes (create_tiktok_project.py 551-578), one
\* file is uploaded, and processed once.
THEOREM DataTyped == DataSpec => []DataTypeOK
<1>1. DataInit => PlaceInv
  BY PlacesOf DEF DataInit, PlaceInv, Nothing
<1>2. PlaceInv /\ [DataNext]_dataVars => PlaceInv'
  BY PlaceStep
<1>3. PlaceInv => DataTypeOK
  <2>1. Cardinality({}) = 0 /\ \A x : Cardinality({x}) = 1
    BY FS_EmptySet, FS_Singleton
  <2>2. \A S : S = {} \/ (\E x : S = {x}) => Cardinality(S) = 0 \/ Cardinality(S) = 1
    BY <2>1
  <2>3. ASSUME PlaceInv
        PROVE  Cardinality(file) <= 1 /\ Cardinality(metadata) <= 1
    <3>1. /\ Cardinality(file) = 0 \/ Cardinality(file) = 1
          /\ Cardinality(metadata) = 0 \/ Cardinality(metadata) = 1
      BY <2>2, <2>3, Zenon DEF PlaceInv
    <3>2. QED
      BY <3>1
  <2>4. QED
    BY <2>3 DEF PlaceInv, DataTypeOK
<1>4. QED
  BY <1>1, <1>2, <1>3, PTL DEF DataSpec
==============================================================================
