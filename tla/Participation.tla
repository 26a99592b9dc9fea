----------------------------- MODULE Participation -----------------------------
(****************************************************************************)
(* A participant on the way from the briefing to the donation: connecting   *)
(* to TikTok, waiting for a data request, fetching the takeout in the       *)
(* browser, submitting it, or switching to uploading a file.  Source: the   *)
(* views, services and models of ddcs/datadonation and its portability      *)
(* package, and tiktok-download.js.  The DDM library, which keeps the step  *)
(* of a participant and stores donations, is modelled from how its views    *)
(* are extended.                                                            *)
(*                                                                          *)
(* One participant with one TikTok account, in one browser.  A request that *)
(* calls TikTok or stores a donation is a call: it reads, and later writes  *)
(* and commits (ATOMIC_REQUESTS), whether or not the tab still waits.       *)
(* Other requests take one step.  Logs and e-mails are left out.            *)
(****************************************************************************)
EXTENDS Integers, FiniteSets, Sequences

CONSTANTS
    Tabs,
    RequestLimit, \* data requests TikTok hands out: more than FaultLimit
    CallLimit,    \* bound: calls at a time
    FaultLimit    \* bound: errors, reloads, expiries

ASSUME ParticipationAssumption ==
    /\ IsFiniteSet(Tabs) /\ {RequestLimit, CallLimit, FaultLimit} \subseteq Nat
    /\ FaultLimit < RequestLimit

VARIABLES
    step,     \* current_step of the participant
    requests, \* the status of each TikTokDataRequest
    remote,   \* its status at TikTok
    session,  \* the session knows the TikTok connection
    calls,    \* the calls the server is working on
    tabs,     \* what each tab shows
    cache,    \* what the browser keeps as tiktok_data.zip
    tasks,    \* donations whose process_donation message is queued
    stored,   \* donations that are committed
    handled,  \* donations a task has read
    blank,    \* donations a task has looked for in vain
    faults,   \* how much has gone wrong
    stale,    \* requests written by a call that read another status
    revived   \* requests that became active again

serverVars == <<step, requests, session>>
pipelineVars == <<tasks, stored, handled, blank>>
ghostVars == <<stale, revived>>
participationVars == <<step, requests, remote, session, calls, tabs, cache,
                       tasks, stored, handled, blank, faults, stale, revived>>

RequestIds == 1..RequestLimit
DonationIds == 1..CallLimit + 2
Statuses == {"none", "not polled", "pending", "ready", "downloaded", "failed",
             "expired", "cancelled"}
ErrorPages == {"oauth-failed", "data-types", "request-failed", "no-request",
               "request-expired", "download-failed"}
\* The pages of the steps, in order; "loop" is a page no browser shows.
StepPages == <<"start", "infos", "donation", "questionnaire", "debriefing">>
Pages == ErrorPages \cup {StepPages[n] : n \in 1..5}
             \cup {"tiktok", "await", "available", "upload", "loop"}
Files == {"nothing", "lost", "takeout", "web page"}

-----------------------------------------------------------------------------
(****************************************************************************)
(* Which requests a view works with                                         *)
(****************************************************************************)

\* ACTIVE_STATES.
Active == {"not polled", "pending", "ready"}

\* data_request_allowed_statuses of the donation view.  Mistake: those of
\* its base class.
DonatableMistaken == Active
Donatable == {"ready", "downloaded"}

In(S) == {r \in RequestIds : requests[r] \in S}
Newest(r, S) == r \in In(S) /\ \A q \in In(S) : q <= r

\* Where the donation view sends the browser.  Without a connection that is
\* the briefing, which sends who is past it back here.
DonationPage ==
    CASE session /\ In(Donatable) # {} -> StepPages[step + 1]
      [] session /\ In(Donatable) = {} -> "infos"
      [] ~session -> IF step = 2 THEN "loop" ELSE StepPages[step + 1]

\* The study's link.
StartPage == IF step = 2 THEN DonationPage ELSE StepPages[step + 1]

Show(t, page) ==
    tabs' = [tabs EXCEPT ![t] = [page |-> page, busy |-> FALSE,
                                 file |-> "nothing"]]

\* The answer to a call is seen if its tab still waits.
Answer(c, page) ==
    IF tabs[c.tab].busy THEN Show(c.tab, page) ELSE UNCHANGED tabs

Call(kind, t, r) ==
    [kind |-> kind, tab |-> t, id |-> r, read |-> IF r = 0 THEN "none"
     ELSE requests[r], seen |-> step, answer |-> "none"]
StartCall(c) ==
    /\ Cardinality(calls) < CallLimit
    /\ c \notin calls
    /\ calls' = calls \cup {c}
    /\ tabs' = [tabs EXCEPT ![c.tab].busy = TRUE]
Return(c) == calls' = calls \ {c}

Fault == faults < FaultLimit /\ faults' = faults + 1

\* A call writes the status of its request.
Save(c, status) ==
    /\ requests' = [requests EXCEPT ![c.id] = status]
    /\ stale' = IF requests[c.id] # c.read THEN stale \cup {c.id} ELSE stale
    /\ revived' = IF requests[c.id] \notin Active /\ status \in Active
                  THEN revived \cup {c.id} ELSE revived

-----------------------------------------------------------------------------
(****************************************************************************)
(* Briefing and connection                                                  *)
(****************************************************************************)

ParticipationInit ==
    /\ step = 0
    /\ requests = [r \in RequestIds |-> "none"]
    /\ remote = [r \in RequestIds |-> "none"]
    /\ session = FALSE
    /\ calls = {}
    /\ tabs = [t \in Tabs |-> [page |-> "start", busy |-> FALSE,
                               file |-> "nothing"]]
    /\ cache = "nothing"
    /\ tasks = {} /\ stored = {} /\ handled = {} /\ blank = {}
    /\ faults = 0 /\ stale = {} /\ revived = {}

\* Consent: DDM counts the step up, or shows the step the participant is at.
Consent(t) ==
    /\ tabs[t].page = "start"
    /\ IF step = 0 THEN step' = 1 /\ Show(t, "infos")
                   ELSE step' = step /\ Show(t, StartPage)
    /\ UNCHANGED <<requests, remote, session, calls, cache, pipelineVars, faults,
                   ghostVars>>

\* The briefing of those who upload: DDCSBriefingView skips the placeholder.
ConsentToUpload(t) ==
    /\ tabs[t].page = "start" /\ step = 0
    /\ step' = 2 /\ Show(t, "upload")
    /\ UNCHANGED <<requests, remote, session, calls, cache, pipelineVars, faults,
                   ghostVars>>

\* TikTokConnectView.
Connect(t) ==
    /\ tabs[t].page = "infos"
    /\ Show(t, "tiktok")
    /\ UNCHANGED <<serverVars, remote, calls, cache, pipelineVars, faults,
                   ghostVars>>

\* The callback view, up to its call of TikTok: an OAuth error; no scope, or
\* an active request, so there is nothing to ask; or a call.  The row of the
\* connection is locked from update_or_create to the commit.
\* Mistake: it is not.
UnlockedMistaken == TRUE
Unlocked == \A c \in calls : c.kind # "callback"
Callback(t) ==
    /\ tabs[t].page = "tiktok" /\ ~tabs[t].busy
    /\ \/ /\ Fault /\ Show(t, "oauth-failed")
          /\ UNCHANGED <<session, calls>>
       \/ /\ Unlocked /\ Fault
          /\ session' = TRUE /\ Show(t, "data-types")
          /\ UNCHANGED calls
       \/ /\ Unlocked /\ In(Active) # {}
          /\ session' = TRUE /\ Show(t, "await")
          /\ UNCHANGED <<calls, faults>>
       \/ /\ Unlocked /\ In(Active) = {}
          /\ StartCall(Call("callback", t, 0))
          /\ UNCHANGED <<session, faults>>
    /\ UNCHANGED <<step, requests, remote, cache, pipelineVars, ghostVars>>

\* The request is issued and its row created.
Issue(c) ==
    /\ c.kind = "callback"
    /\ \E r \in RequestIds :
           /\ remote[r] = "none" /\ \A q \in 1..r - 1 : remote[q] # "none"
           /\ remote' = [remote EXCEPT ![r] = "pending"]
           /\ requests' = [requests EXCEPT ![r] = "not polled"]
    /\ session' = TRUE
    /\ Return(c) /\ Answer(c, "await")
    /\ UNCHANGED <<step, cache, pipelineVars, faults, ghostVars>>

\* No request: an error of TikTok, or no identifier.
\* Mistake: the row is created all the same.
IssueFailsMistaken(c) ==
    /\ c.kind = "callback" /\ Fault
    /\ \E r \in RequestIds :
           /\ remote[r] = "none"
           /\ requests' = [requests EXCEPT ![r] = "not polled"]
    /\ session' = TRUE
    /\ Return(c)
    /\ \E page \in {"request-failed", "no-request"} : Answer(c, page)
    /\ UNCHANGED <<step, remote, cache, pipelineVars, ghostVars>>
IssueFails(c) ==
    /\ c.kind = "callback" /\ Fault
    /\ session' = TRUE
    /\ Return(c)
    /\ \E page \in {"request-failed", "no-request"} : Answer(c, page)
    /\ UNCHANGED <<step, requests, remote, cache, pipelineVars, ghostVars>>

\* The request is issued, but nothing is committed here: an answer without
\* "data", or a crash.  The tab is left where it was.
IssueLost(c) ==
    /\ c.kind = "callback" /\ Fault
    /\ \E r \in RequestIds :
           /\ remote[r] = "none" /\ \A q \in 1..r - 1 : remote[q] # "none"
           /\ remote' = [remote EXCEPT ![r] = "pending"]
    /\ Return(c) /\ Answer(c, "infos")
    /\ UNCHANGED <<serverVars, cache, pipelineVars, ghostVars>>

-----------------------------------------------------------------------------
(****************************************************************************)
(* Waiting for the data                                                     *)
(****************************************************************************)

\* CheckDataAvailabilityView, asked for by the page every ten seconds.
Poll(t) ==
    /\ tabs[t].page = "await" /\ ~tabs[t].busy
    /\ IF In(Active) = {} THEN Show(t, "infos") /\ UNCHANGED calls
       ELSE \E r \in RequestIds : Newest(r, Active) /\ StartCall(Call("poll", t, r))
    /\ UNCHANGED <<serverVars, remote, cache, pipelineVars, faults, ghostVars>>

\* TikTok's answer, on its way.
PollAnswered(c) ==
    /\ c.kind = "poll" /\ c.answer = "none"
    /\ calls' = (calls \ {c}) \cup {[c EXCEPT !.answer = remote[c.id]]}
    /\ UNCHANGED <<serverVars, remote, tabs, cache, pipelineVars, faults, ghostVars>>

\* advance_participant_step, on the row the call has read.
\* Mistakes: whatever the step is; from the position of the step after.
AdvancedMistaken(c) == step + 1
AdvancedFromNext(c) == IF c.seen = 2 THEN 3 ELSE step
Advanced(c) == IF c.seen = 1 THEN 2 ELSE step

\* The status is saved, and the participant let on if it is ready.
PollSaved(c) ==
    /\ c.kind = "poll" /\ c.answer # "none"
    /\ Save(c, c.answer)
    /\ step' = IF c.answer = "ready" THEN Advanced(c) ELSE step
    /\ Return(c)
    /\ Answer(c, CASE c.answer = "pending" -> "await"
                   [] c.answer = "ready" -> "available"
                   [] OTHER -> "request-expired")
    /\ UNCHANGED <<remote, session, cache, pipelineVars, faults>>

\* An error, or an answer that makes no sense: nothing is saved.
PollFails(c) ==
    /\ c.kind = "poll" /\ Fault
    /\ Return(c) /\ Answer(c, "request-failed")
    /\ UNCHANGED <<serverVars, remote, cache, pipelineVars, ghostVars>>

-----------------------------------------------------------------------------
(****************************************************************************)
(* The takeout in the browser                                               *)
(****************************************************************************)

OpenDonation(t) ==
    /\ tabs[t].page = "available"
    /\ Show(t, DonationPage)
    /\ UNCHANGED <<serverVars, remote, calls, cache, pipelineVars, faults,
                   ghostVars>>

\* fetchAndInjectTikTokData: from the cache, or else from the download view.
\* If that finds no active request, it redirects, and the browser fetches
\* the page it is redirected to.
Fetch(t) ==
    /\ tabs[t].page = "donation" /\ ~tabs[t].busy /\ tabs[t].file = "nothing"
    /\ CASE cache # "nothing" ->
                /\ tabs' = [tabs EXCEPT ![t].file = cache]
                /\ UNCHANGED <<cache, calls>>
         [] cache = "nothing" /\ In(Active) = {} ->
                /\ tabs' = [tabs EXCEPT ![t].file = "web page"]
                /\ cache' = "web page"
                /\ UNCHANGED calls
         [] OTHER ->
                /\ \E r \in RequestIds :
                       Newest(r, Active) /\ StartCall(Call("stream", t, r))
                /\ UNCHANGED cache
    /\ UNCHANGED <<serverVars, remote, pipelineVars, faults, ghostVars>>

\* TikTok refuses the download, or there is nothing to download yet.
StreamRefused(c) ==
    /\ c.kind = "stream"
    /\ IF remote[c.id] = "ready" THEN Fault ELSE UNCHANGED faults
    /\ Return(c) /\ Answer(c, "download-failed")
    /\ UNCHANGED <<serverVars, remote, cache, pipelineVars, ghostVars>>

\* The stream ends: cache, then uploader.
Streamed(c) ==
    /\ c.kind = "stream" /\ remote[c.id] = "ready"
    /\ Save(c, "downloaded")
    /\ Return(c)
    /\ IF tabs[c.tab].busy
       THEN /\ cache' = "takeout"
            /\ tabs' = [tabs EXCEPT ![c.tab].file = "takeout",
                                    ![c.tab].busy = FALSE]
       ELSE UNCHANGED <<cache, tabs>>
    /\ UNCHANGED <<step, remote, session, pipelineVars, faults>>

\* The stream breaks off, at either end.  The script gives up.
StreamBreaks(c) ==
    /\ c.kind = "stream" /\ remote[c.id] = "ready"
    /\ tabs[c.tab].busy => faults < FaultLimit
    /\ faults' = IF tabs[c.tab].busy THEN faults + 1 ELSE faults
    /\ Save(c, "failed")
    /\ Return(c)
    /\ IF tabs[c.tab].busy
       THEN tabs' = [tabs EXCEPT ![c.tab].file = "lost", ![c.tab].busy = FALSE]
       ELSE UNCHANGED tabs
    /\ UNCHANGED <<step, remote, session, cache, pipelineVars>>

\* Two hours have passed since the file was cached.
CacheExpires ==
    /\ cache # "nothing" /\ Fault
    /\ cache' = "nothing"
    /\ UNCHANGED <<serverVars, remote, calls, tabs, pipelineVars, ghostVars>>

-----------------------------------------------------------------------------
(****************************************************************************)
(* The donation                                                             *)
(****************************************************************************)

\* Submitting.  The donation is written, and its task queued, before the
\* transaction is committed.
Submit(t) ==
    /\ ~tabs[t].busy
    /\ \/ tabs[t].page = "upload"
       \/ tabs[t].page = "donation" /\ tabs[t].file = "takeout"
    /\ LET page == IF tabs[t].page = "donation" THEN DonationPage
                   ELSE IF step = 2 THEN "upload" ELSE StepPages[step + 1]
           known == stored \cup tasks \cup blank \cup handled
       IN IF page # tabs[t].page
          THEN Show(t, page) /\ UNCHANGED <<calls, tasks>>
          ELSE \E d \in DonationIds \ known :
                   /\ \A e \in DonationIds \ known : d <= e
                   /\ StartCall([Call("submit", t, 0) EXCEPT !.id = d])
                   /\ tasks' = tasks \cup {d}
    /\ UNCHANGED <<serverVars, remote, cache, stored, handled, blank, faults,
                   ghostVars>>

\* The transaction ends.
SubmitCommits(c) ==
    /\ c.kind = "submit"
    /\ stored' = stored \cup {c.id}
    /\ step' = c.seen + 1
    /\ Return(c) /\ Answer(c, "questionnaire")
    /\ UNCHANGED <<requests, remote, session, cache, tasks, handled, blank, faults,
                   ghostVars>>

\* process_donation looks for the participant's donations.
Process(d) ==
    /\ d \in tasks
    /\ tasks' = tasks \ {d}
    /\ IF stored = {} THEN blank' = blank \cup {d} /\ UNCHANGED handled
       ELSE handled' = handled \cup {d} /\ UNCHANGED blank
    /\ UNCHANGED <<serverVars, remote, calls, tabs, cache, stored, faults,
                   ghostVars>>

\* The questionnaire is answered.
Respond(t) ==
    /\ tabs[t].page = "questionnaire"
    /\ IF step = 3 THEN step' = 4 /\ Show(t, "debriefing")
       ELSE step' = step /\ Show(t, StepPages[step + 1])
    /\ UNCHANGED <<requests, remote, session, calls, cache, pipelineVars, faults,
                   ghostVars>>

-----------------------------------------------------------------------------
(****************************************************************************)
(* Ways out                                                                 *)
(****************************************************************************)

\* "Try again", offered on all pages of errors but one.
Retry(t) ==
    /\ tabs[t].page \in ErrorPages \ {"request-failed"}
    /\ Show(t, "infos")
    /\ UNCHANGED <<serverVars, remote, calls, cache, pipelineVars, faults,
                   ghostVars>>

\* SwitchPathView, offered on all pages of errors but one, and when the
\* uploader cannot read its file.
Switch(t) ==
    /\ \/ tabs[t].page \in ErrorPages \ {"request-expired"}
       \/ tabs[t].page = "donation" /\ tabs[t].file = "web page"
    /\ step' = 2 /\ Show(t, "upload")
    /\ UNCHANGED <<requests, remote, session, calls, cache, pipelineVars, faults,
                   ghostVars>>

\* The participant opens the page again, or the study's link.
Reload(t) ==
    /\ Fault
    /\ Show(t, IF tabs[t].page = "donation" THEN DonationPage ELSE StartPage)
    /\ UNCHANGED <<serverVars, remote, calls, cache, pipelineVars, ghostVars>>

\* A page that does not load, or a script that gave up: the participant goes
\* back to the page before.
GoBack(t) ==
    /\ \/ tabs[t].page = "loop" /\ Show(t, "upload")
       \/ /\ tabs[t].page = "donation" /\ tabs[t].file = "lost"
          /\ Show(t, DonationPage)
    /\ UNCHANGED <<serverVars, remote, calls, cache, pipelineVars, faults,
                   ghostVars>>

\* TikTok's side of a request.
Collected(r) ==
    /\ remote[r] = "pending"
    /\ remote' = [remote EXCEPT ![r] = "ready"]
    /\ UNCHANGED <<serverVars, calls, tabs, cache, pipelineVars, faults, ghostVars>>
Ended(r) ==
    /\ remote[r] \in {"pending", "ready"} /\ Fault
    /\ \E status \in {"expired", "cancelled"} :
           remote' = [remote EXCEPT ![r] = status]
    /\ UNCHANGED <<serverVars, calls, tabs, cache, pipelineVars, ghostVars>>

\* A participant who has donated may leave.
Leave == stored # {} /\ UNCHANGED participationVars

Forward(t) ==
    \/ Consent(t) \/ ConsentToUpload(t) \/ Connect(t) \/ Callback(t)
    \/ Poll(t) \/ OpenDonation(t) \/ Fetch(t) \/ Submit(t) \/ Respond(t)
    \/ Retry(t) \/ Switch(t) \/ GoBack(t)
Serve(c) ==
    \/ Issue(c) \/ IssueFails(c) \/ IssueLost(c)
    \/ PollAnswered(c) \/ PollSaved(c) \/ PollFails(c)
    \/ StreamRefused(c) \/ Streamed(c) \/ StreamBreaks(c)
    \/ SubmitCommits(c)

ParticipationNext ==
    \/ \E t \in Tabs : Forward(t) \/ Reload(t)
    \/ \E c \in calls : Serve(c)
    \/ \E r \in RequestIds : Collected(r) \/ Ended(r)
    \/ \E d \in tasks : Process(d)
    \/ CacheExpires \/ Leave

\* The participant goes on, the server answers, TikTok collects the data.
ParticipationFairness ==
    /\ \A t \in Tabs : WF_participationVars(Forward(t))
    /\ WF_participationVars(\E c \in calls : Serve(c))
    /\ \A r \in RequestIds : WF_participationVars(Collected(r))

ParticipationSpec ==
    ParticipationInit /\ [][ParticipationNext]_participationVars
        /\ ParticipationFairness

-----------------------------------------------------------------------------
(****************************************************************************)
(* Properties                                                               *)
(****************************************************************************)

\* The types; a call works on a request that exists, and a donation is
\* processed only if it was submitted.
PortalTypeOK ==
    /\ step \in 0..4 /\ session \in BOOLEAN
    /\ requests \in [RequestIds -> Statuses]
    /\ remote \in [RequestIds -> Statuses]
    /\ \A r \in RequestIds : requests[r] # "none" => remote[r] # "none"
    /\ \A c \in calls :
           /\ c.tab \in Tabs /\ c.seen \in 0..4
           /\ c.kind \in {"poll", "stream"} => requests[c.id] # "none"
    /\ \A t \in Tabs : tabs[t].page \in Pages /\ tabs[t].file \in Files
    /\ cache \in Files
    /\ handled \cup blank \subseteq stored \cup {c.id : c \in calls}

\* A participant has one active data request: whoever connects again, in
\* another tab or after an error, is given the request that is under way.
\* Exempt are old requests that a call which answers late, a poll or the end
\* of a download, has saved as active again.
OneActiveRequest == \A r, q \in In(Active) \ revived : r = q

\* Nobody gets to the questionnaire without a donation that is stored,
\* however polls, tabs and the two ways of donating overlap.
QuestionnaireAfterDonation == step >= 3 => stored # {}

\* Who has the takeout in the browser may submit it: the donation view
\* accepts it unless a call of another page wrote over the request's status.
SubmitAccepted ==
    \A t \in Tabs : tabs[t].file = "takeout" /\ stale = {} => In(Donatable) # {}

\* Who goes on, after errors as well, donates in the end.
DonationReached == <>(stored # {})

\* process_donation reads a donation that has landed.
DonationRead == blank = {}
=============================================================================
