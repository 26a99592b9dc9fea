------------------------------ MODULE ScrapeQueue ------------------------------
(****************************************************************************)
(* The scrape queue: ScrapeTarget rows, the leases scrapers take on them,  *)
(* the results external scrapers report, and the batch the built-in        *)
(* scraper works off.  Source: ddcs/metadata/scraper/service.py, api.py    *)
(* and models.py.                                                          *)
(*                                                                          *)
(* Time is kept as what is left of it: a lease or a back-off is the number *)
(* of ticks before it runs out, and Tick counts all of them down.          *)
(* Every action is one database transaction, or several in a row of the    *)
(* built-in scraper on rows it has leased.  The order the queue is worked  *)
(* off in (ClaimOrder) and the donor counts (DonationCounts) have modules  *)
(* of their own: here a claim takes any batch of due targets, those to be  *)
(* checked again included.                                                  *)
(****************************************************************************)
EXTENDS Integers, FiniteSets

CONSTANTS
    Targets,              \* the videos that may be queued
    Accounts,             \* API accounts of external scrapers
    NoAccount,            \* claimed_by of a target no account holds
    MaxAttempts,          \* TIKTOK_SCRAPER_MAX_ATTEMPTS
    MaxChecks,            \* TIKTOK_SCRAPER_UNAVAILABLE_MAX_CHECKS
    BatchSize,            \* the largest number of targets one claim asks for
    ExternalLease,        \* ticks an account keeps what it claimed
    InternalLease,        \* ticks the built-in scraper keeps its batch
    RunLimit,             \* ticks before the worker is killed (time limit)
    Backoff,              \* ticks before a failed target is due again
    BlocksBeforeAbort,    \* refusals in a row that end a run
    FailuresBeforeAbort,  \* other failures in a row that end a run
    Copies,               \* how often one submitted result may arrive
    MailLimit,            \* bound: results under way at the same time
    Patient               \* clients claim only with no result under way

ASSUME AccountsAssumption == NoAccount \notin Accounts
ASSUME TargetsAssumption == IsFiniteSet(Targets)
ASSUME LimitsAssumption ==
    /\ MaxAttempts \in Nat \ {0} /\ MaxChecks \in Nat \ {0}
    /\ BatchSize \in Nat \ {0}
    /\ BlocksBeforeAbort \in Nat \ {0} /\ FailuresBeforeAbort \in Nat \ {0}
    /\ Copies \in Nat \ {0} /\ MailLimit \in Nat
    /\ Patient \in BOOLEAN
\* A run starts before it leases its batch and is killed after an hour, the
\* length of that lease: the lease outlives the run.
ASSUME TimesAssumption ==
    /\ ExternalLease \in Nat \ {0} /\ Backoff \in Nat
    /\ InternalLease \in Nat /\ RunLimit \in Nat
    /\ RunLimit < InternalLease

VARIABLES
    \* the ScrapeTarget rows
    status, attempts, checks, claimedBy, lease, wait,
    \* what the rows are about: Research API infos, rows of scraped infos
    covered, stored,
    \* the built-in scraper's run and its in-memory copies of the rows
    phase, batch, todo, held, blocks, timeLeft, aborted, memAttempts, memChecks,
    \* what the run has achieved so far: a page served, attempts used up
    served, spent,
    \* external scrapers: targets to answer for, lease time they know of,
    \* results on their way to the server
    asked, told, mail

rowVars == <<status, attempts, checks, claimedBy, lease, wait>>
runVars == <<phase, batch, todo, held, blocks, timeLeft, aborted,
             memAttempts, memChecks, served, spent>>
clientVars == <<asked, told, mail>>
vars == <<rowVars, covered, stored, runVars, clientVars>>

Statuses == {"unqueued", "pending", "success", "unavailable",
             "covered_by_api", "failed"}
FinalStatuses == {"success", "covered_by_api"}
Outcomes == {"success", "unavailable", "failed", "released"}
AbortReasons == {"", "blocked", "consecutive_failures"}

\* claimed_until IS NULL, and claimed_until in the past.
NoLease == -1
Lapsed == 0

(****************************************************************************)
(* Helpers.  A definition named ...Mistaken is the one after it with one   *)
(* plausible mistake; it is used only to see a property fail.              *)
(****************************************************************************)

\* _is_done: the target takes no further result.  An unavailable one takes
\* a result only while it is claimed for another check.
IsDoneMistaken(t) == status[t] = "unavailable" /\ lease[t] = NoLease
IsDone(t) ==
    \/ status[t] \in FinalStatuses
    \/ /\ status[t] = "unavailable"
       /\ lease[t] = NoLease \/ checks[t] >= MaxChecks

\* record_external_result's row filter: the account that claimed last.
HeldByMistaken(a, t) == claimedBy[t] \in {a, NoAccount}
HeldBy(a, t) == claimedBy[t] = a

\* The two reads of due targets in _claim_due_targets.
Due(t) ==
    \/ status[t] = "pending"
    \/ status[t] = "failed" /\ attempts[t] < MaxAttempts /\ wait[t] = 0

RecheckableMistaken(t) == status[t] = "unavailable"
Recheckable(t) == status[t] = "unavailable" /\ checks[t] < MaxChecks

\* lease_free: no lease, or one that ran out.
LeaseFreeMistaken(t) == lease[t] = NoLease
LeaseFreeForAll(t) == lease[t] >= NoLease
LeaseFree(t) == lease[t] \in {NoLease, Lapsed}

Claimable == {t \in Targets : (Due(t) \/ Recheckable(t)) /\ LeaseFree(t)}

(***************************************************************************)
(* _claim_due_targets: of the targets taken off the queue, those the       *)
(* Research API has delivered since are dropped, the others are leased.    *)
(* Which claimable ones a claim takes depends on the queue's order and on  *)
(* the rows other transactions have locked (skip_locked): any of them.     *)
(***************************************************************************)
LeaseTargets(owner, ticks, S) ==
    /\ S \subseteq Claimable /\ Cardinality(S) <= BatchSize
    /\ status' = [t \in Targets |->
           IF t \in S \cap covered THEN "covered_by_api" ELSE status[t]]
    /\ claimedBy' = [t \in Targets |->
           IF t \in S \ covered THEN owner ELSE claimedBy[t]]
    /\ lease' = [t \in Targets |->
           IF t \in S \ covered THEN ticks ELSE lease[t]]
    /\ UNCHANGED <<attempts, checks, wait, covered, stored>>

(***************************************************************************)
(* _mark on the rows marks gives a new status, and an end to the lease of  *)
(* the rows in released.  The whole row is saved from memory: the counters *)
(* become what they were in memory, plus this attempt.                     *)
(***************************************************************************)
MarkRows(marks, released, owner, inMemAttempts, inMemChecks) ==
    LET marked == DOMAIN marks IN
    /\ status' = [t \in Targets |->
           IF t \in marked THEN marks[t] ELSE status[t]]
    /\ attempts' = [t \in Targets |->
           IF t \in marked THEN inMemAttempts[t] + 1 ELSE attempts[t]]
    /\ checks' = [t \in Targets |->
           IF t \notin marked THEN checks[t]
           ELSE IF marks[t] = "unavailable" THEN inMemChecks[t] + 1
           ELSE inMemChecks[t]]
    /\ claimedBy' = [t \in Targets |->
           IF t \in marked THEN owner ELSE claimedBy[t]]
    /\ lease' = [t \in Targets |->
           IF t \in marked \cup released THEN NoLease ELSE lease[t]]
    /\ wait' = [t \in Targets |->
           IF t \notin marked THEN wait[t]
           ELSE IF marks[t] = "failed" THEN Backoff ELSE 0]

FailedMistaken(S) == [t \in S |-> "invalid"]
Failed(S) == [t \in S |-> "failed"]

(****************************************************************************)
(* Initially nothing is queued and no scraper is at work.                  *)
(****************************************************************************)
Init ==
    /\ status = [t \in Targets |-> "unqueued"]
    /\ attempts = [t \in Targets |-> 0]
    /\ checks = [t \in Targets |-> 0]
    /\ claimedBy = [t \in Targets |-> NoAccount]
    /\ lease = [t \in Targets |-> NoLease]
    /\ wait = [t \in Targets |-> 0]
    /\ covered = {}
    /\ stored = [t \in Targets |-> 0]
    /\ phase = "idle" /\ batch = {} /\ todo = {} /\ held = {} /\ blocks = 0
    /\ timeLeft = 0 /\ aborted = ""
    /\ memAttempts = [t \in Targets |-> 0]
    /\ memChecks = [t \in Targets |-> 0]
    /\ served = FALSE /\ spent = 0
    /\ asked = {}
    /\ told = [m \in Accounts \X Targets |-> 0]
    /\ mail = [m \in Accounts \X Targets \X Outcomes |-> 0]

-----------------------------------------------------------------------------
(****************************************************************************)
(* The queue fills, and the Research API delivers                          *)
(****************************************************************************)

EnqueueMistaken(t) ==
    /\ t \notin covered
    /\ status' = [status EXCEPT ![t] = "pending"]
    /\ UNCHANGED <<attempts, checks, claimedBy, lease, wait, covered, stored,
                   runVars, clientVars>>

\* enqueue_donated_videos, as far as the status goes: a video without
\* Research API infos gets a target, an existing target's status stays.
Enqueue(t) ==
    /\ status[t] = "unqueued" /\ t \notin covered
    /\ status' = [status EXCEPT ![t] = "pending"]
    /\ UNCHANGED <<attempts, checks, claimedBy, lease, wait, covered, stored,
                   runVars, clientVars>>

\* The Research API sync stores infos of a video, queued or not.
ApiDelivers(t) ==
    /\ t \notin covered
    /\ covered' = covered \cup {t}
    /\ UNCHANGED <<rowVars, stored, runVars, clientVars>>

(****************************************************************************)
(* External scrapers                                                       *)
(****************************************************************************)

\* claim_targets for account a, which learns when its lease runs out.
Claim(a, S) ==
    /\ Patient => \A m \in DOMAIN mail : m[1] = a => mail[m] = 0
    /\ S # {}
    /\ LeaseTargets(a, ExternalLease, S)
    /\ asked' = asked \cup ({a} \X (S \ covered))
    /\ told' = [m \in DOMAIN told |->
           IF m \in {a} \X (S \ covered) THEN ExternalLease ELSE told[m]]
    /\ UNCHANGED <<mail, runVars>>

\* The scraper of account a submits its result for t, however late.  The
\* request may arrive late, more than once (sent again) or never.
Submit(a, t, o) ==
    /\ <<a, t>> \in asked
    /\ Cardinality({m \in DOMAIN mail : mail[m] > 0}) < MailLimit
    /\ asked' = asked \ {<<a, t>>}
    /\ told' = [told EXCEPT ![<<a, t>>] = 0]
    /\ mail' = [mail EXCEPT ![<<a, t, o>>] = Copies]
    /\ UNCHANGED <<rowVars, covered, stored, runVars>>

\* A copy of a result reaches the server (or is lost on the way).
Arrives(a, t, o) ==
    /\ mail[<<a, t, o>>] > 0
    /\ mail' = [mail EXCEPT ![<<a, t, o>>] = @ - 1]
    /\ UNCHANGED <<covered, runVars, asked, told>>

Accepts(a, t) == HeldBy(a, t) /\ ~IsDone(t)

\* record_external_result: NOT_CLAIMED and ALREADY_DONE.  A result whose
\* copies are lost, or carry another video's data, leaves the target alone.
IgnoreResult(a, t, o) ==
    /\ Arrives(a, t, o)
    /\ Accepts(a, t) => mail[<<a, t, o>>] = 1
    /\ UNCHANGED <<rowVars, stored>>

RecordReleased(a, t) ==
    /\ Arrives(a, t, "released") /\ Accepts(a, t)
    /\ lease' = [lease EXCEPT ![t] = NoLease]
    /\ UNCHANGED <<status, attempts, checks, claimedBy, wait, stored>>

RecordUnavailable(a, t) ==
    /\ Arrives(a, t, "unavailable") /\ Accepts(a, t)
    /\ MarkRows([u \in {t} |-> "unavailable"], {}, a, attempts, checks)
    /\ UNCHANGED stored

RecordFailed(a, t) ==
    /\ Arrives(a, t, "failed") /\ Accepts(a, t)
    /\ MarkRows(Failed({t}), {}, a, attempts, checks)
    /\ UNCHANGED stored

\* _store_external_success: the data is stored, or cannot be and the target
\* is marked failed.
RecordSuccess(a, t) ==
    /\ Arrives(a, t, "success") /\ Accepts(a, t)
    /\ \/ /\ MarkRows([u \in {t} |-> "success"], {}, a, attempts, checks)
          /\ stored' = [stored EXCEPT ![t] = @ + 1]
       \/ /\ MarkRows(Failed({t}), {}, a, attempts, checks)
          /\ UNCHANGED stored

(****************************************************************************)
(* The built-in scraper: ScraperService.scrape_batch                       *)
(****************************************************************************)

\* _select_targets: the batch is leased and its rows are read into memory.
StartRun(S) ==
    /\ phase = "idle"
    /\ LeaseTargets(NoAccount, InternalLease, S)
    /\ phase' = "working"
    /\ batch' = S \ covered /\ todo' = S \ covered
    /\ memAttempts' = [t \in Targets |-> IF t \in S THEN attempts[t] ELSE 0]
    /\ memChecks' = [t \in Targets |-> IF t \in S THEN checks[t] ELSE 0]
    /\ held' = {} /\ blocks' = 0 /\ aborted' = ""
    /\ timeLeft' = RunLimit
    /\ served' = FALSE /\ spent' = 0
    /\ UNCHANGED clientVars

\* A page was served: the failures held back are recorded as such, and t is
\* stored, unavailable, or (its data could not be stored) failed.
PageServed(t, outcome) ==
    /\ phase = "working" /\ t \in todo
    /\ MarkRows([u \in held \cup {t} |-> IF u = t THEN outcome ELSE "failed"],
                {}, NoAccount, memAttempts, memChecks)
    /\ stored' = IF outcome = "success" THEN [stored EXCEPT ![t] = @ + 1]
                 ELSE stored
    /\ batch' = batch \ (held \cup {t})
    /\ todo' = todo \ {t} /\ held' = {} /\ blocks' = 0
    /\ served' = TRUE /\ spent' = spent + Cardinality(held)
    /\ UNCHANGED <<phase, timeLeft, aborted, memAttempts, memChecks, covered,
                   clientVars>>

\* TikTok refuses: the target is left alone, the third in a row ends the run.
PageBlocked(t) ==
    /\ phase = "working" /\ t \in todo
    /\ todo' = todo \ {t}
    /\ blocks' = blocks + 1
    /\ IF blocks + 1 >= BlocksBeforeAbort
       THEN phase' = "closing" /\ aborted' = "blocked"
       ELSE UNCHANGED <<phase, aborted>>
    /\ UNCHANGED <<rowVars, covered, stored, batch, held, timeLeft,
                   memAttempts, memChecks, served, spent, clientVars>>

\* Mistake: the streak is not forgotten when the run is aborted.
PageFailsMistaken(t) ==
    /\ phase = "working" /\ t \in todo
    /\ todo' = todo \ {t} /\ held' = held \cup {t}
    /\ IF Cardinality(held \cup {t}) >= FailuresBeforeAbort
       THEN phase' = "closing" /\ aborted' = "consecutive_failures"
       ELSE UNCHANGED <<phase, aborted>>
    /\ UNCHANGED <<rowVars, covered, stored, batch, blocks, timeLeft,
                   memAttempts, memChecks, served, spent, clientVars>>

\* Any other failure is held back; the fifth in a row ends the run, and the
\* streak is forgotten.
PageFails(t) ==
    /\ phase = "working" /\ t \in todo
    /\ todo' = todo \ {t}
    /\ IF Cardinality(held \cup {t}) >= FailuresBeforeAbort
       THEN /\ held' = {}
            /\ phase' = "closing" /\ aborted' = "consecutive_failures"
       ELSE held' = held \cup {t} /\ UNCHANGED <<phase, aborted>>
    /\ UNCHANGED <<rowVars, covered, stored, batch, blocks, timeLeft,
                   memAttempts, memChecks, served, spent, clientVars>>

\* The loop ends: the batch is done, or the deadline has passed.
StopStarting ==
    /\ phase = "working"
    /\ phase' = "closing"
    /\ UNCHANGED <<rowVars, covered, stored, batch, todo, held, blocks,
                   timeLeft, aborted, memAttempts, memChecks, served, spent,
                   clientVars>>

RunOver ==
    /\ phase' = "idle" /\ batch' = {} /\ todo' = {} /\ held' = {}
    /\ blocks' = 0 /\ timeLeft' = 0
    /\ memAttempts' = [t \in Targets |-> 0]
    /\ memChecks' = [t \in Targets |-> 0]
    /\ UNCHANGED <<aborted, served, covered, stored, clientVars>>

\* A streak too short to abort on is recorded; whatever was not worked on
\* goes back to the queue.
CloseRun ==
    /\ phase = "closing"
    /\ MarkRows(Failed(held), batch, NoAccount, memAttempts, memChecks)
    /\ spent' = spent + Cardinality(held)
    /\ RunOver

\* The soft time limit, or the end of the worker, in the middle of a run:
\* some of the failures held back may just have been recorded, nothing is
\* released.
Interrupt(recorded) ==
    /\ phase # "idle"
    /\ recorded \subseteq held
    /\ MarkRows(Failed(recorded), {}, NoAccount, memAttempts, memChecks)
    /\ spent' = spent + Cardinality(recorded)
    /\ RunOver

(****************************************************************************)
(* Time: a run is killed before its time limit is over                     *)
(****************************************************************************)
Down(n) == IF n > 0 THEN n - 1 ELSE n

Tick ==
    /\ phase # "idle" => timeLeft > 0
    /\ timeLeft' = Down(timeLeft)
    /\ lease' = [t \in Targets |-> Down(lease[t])]
    /\ wait' = [t \in Targets |-> Down(wait[t])]
    /\ told' = [m \in DOMAIN told |-> Down(told[m])]
    /\ UNCHANGED <<status, attempts, checks, claimedBy, covered, stored,
                   phase, batch, todo, held, blocks, aborted, memAttempts,
                   memChecks, served, spent, asked, mail>>

-----------------------------------------------------------------------------
RunStep ==
    \/ \E t \in Targets, o \in {"success", "unavailable", "failed"} :
           PageServed(t, o)
    \/ \E t \in Targets : PageBlocked(t) \/ PageFails(t)
    \/ StopStarting
    \/ CloseRun

Next ==
    \/ \E t \in Targets : Enqueue(t) \/ ApiDelivers(t)
    \/ \E a \in Accounts, S \in SUBSET Targets : Claim(a, S)
    \/ \E a \in Accounts, t \in Targets, o \in Outcomes :
           Submit(a, t, o) \/ IgnoreResult(a, t, o)
    \/ \E a \in Accounts, t \in Targets :
           \/ RecordReleased(a, t) \/ RecordUnavailable(a, t)
           \/ RecordFailed(a, t) \/ RecordSuccess(a, t)
    \/ \E S \in SUBSET Targets : StartRun(S) \/ Interrupt(S)
    \/ RunStep
    \/ Tick

Spec == Init /\ [][Next]_vars

(***************************************************************************)
(* What the schedule and TikTok are taken to grant: time passes, a run's   *)
(* loop ends and the run is closed, the hourly run takes every claimable   *)
(* target again and again, and TikTok serves its page again and again if   *)
(* it is asked for again and again.  Nothing is assumed of clients, and    *)
(* runs may be interrupted any number of times.                            *)
(***************************************************************************)
Fairness ==
    /\ WF_vars(Tick)
    /\ WF_vars(StopStarting) /\ WF_vars(CloseRun)
    /\ \A t \in Targets :
           /\ SF_vars(\E S \in SUBSET Targets : t \in S /\ StartRun(S))
           /\ SF_vars(\E o \in {"success", "unavailable", "failed"} :
                          PageServed(t, o))

FairSpec == Spec /\ Fairness

-----------------------------------------------------------------------------
(****************************************************************************)
(* Properties                                                              *)
(****************************************************************************)

\* Every variable holds a value of its type.
TypeOK ==
    /\ status \in [Targets -> Statuses]
    /\ attempts \in [Targets -> Nat] /\ checks \in [Targets -> Nat]
    /\ claimedBy \in [Targets -> Accounts \cup {NoAccount}]
    /\ lease \in [Targets -> Int]
    /\ \A t \in Targets : lease[t] >= NoLease
    /\ wait \in [Targets -> Nat]
    /\ covered \in SUBSET Targets
    /\ stored \in [Targets -> Nat]
    /\ phase \in {"idle", "working", "closing"}
    /\ batch \in SUBSET Targets /\ todo \in SUBSET Targets
    /\ held \in SUBSET Targets
    /\ blocks \in Nat /\ timeLeft \in Nat /\ aborted \in AbortReasons
    /\ memAttempts \in [Targets -> Nat] /\ memChecks \in [Targets -> Nat]
    /\ served \in BOOLEAN /\ spent \in Nat
    /\ asked \in SUBSET (Accounts \X Targets)
    /\ told \in [Accounts \X Targets -> Nat]
    /\ mail \in [Accounts \X Targets \X Outcomes -> Nat]

\* The built-in scraper saves whole rows from memory, up to an hour after it
\* read them.  Nothing is overwritten by that: as long as a target of its
\* batch is not worked off, its lease runs, no account holds it, and
\* attempts, checks and an open status are as they were read.
MemoryIsCurrent ==
    \A t \in batch :
        /\ lease[t] > 0 /\ claimedBy[t] = NoAccount
        /\ status[t] \in {"pending", "failed", "unavailable"}
        /\ memAttempts[t] = attempts[t] /\ memChecks[t] = checks[t]

\* A video is scraped at most once, whatever results arrive late or twice
\* and whoever else had it: a target is successful exactly if infos were
\* stored for it, once.
ScrapedOnce ==
    \A t \in Targets : stored[t] = IF status[t] = "success" THEN 1 ELSE 0

\* A video reported as unavailable is checked at most MaxChecks times in
\* total; a target that may still fail has checks left.
ChecksBounded ==
    \A t \in Targets :
        /\ checks[t] <= MaxChecks
        /\ status[t] \in {"pending", "failed"} => checks[t] < MaxChecks

\* A run TikTok serves no page in uses up attempts of fewer targets than the
\* number of failures that would have aborted it.
BlockedRunSpares == ~served => spent < FailuresBeforeAbort

\* Done for good: scraped, covered by the Research API, or checked as often
\* as allowed.
Settled(t) ==
    \/ status[t] \in FinalStatuses
    \/ status[t] = "unavailable" /\ checks[t] >= MaxChecks

\* The step leaves every settled target alone.
SettledUntouched ==
    \A t \in Targets : Settled(t) =>
        /\ status'[t] = status[t] /\ attempts'[t] = attempts[t]
        /\ checks'[t] = checks[t] /\ stored'[t] = stored[t]

\* No step reopens a settled target or counts another attempt for it: not a
\* late result, not a run that read the row before, not another enqueue.
SettledStays == [][SettledUntouched]_vars

\* A scraper at work on a target within the lease it was told of.
AtWork(a, t) == <<a, t>> \in asked /\ told[<<a, t>>] > 0

\* While the lease runs no other scraper gets the target, the built-in one
\* included.
LeaseExclusive ==
    \A a \in Accounts, t \in Targets :
        AtWork(a, t) =>
            /\ t \notin batch
            /\ \A b \in Accounts \ {a} : ~AtWork(b, t)

\* Provided external scrapers stop claiming at some point, every pending
\* target is worked off: it is settled or has failed as often as allowed.
\* No interrupted run, abort or abandoned lease leaves it behind.
WorkedOff ==
    <>[](asked = {}) =>
        \A t \in Targets :
            status[t] = "pending" ~>
                \/ Settled(t)
                \/ status[t] = "failed" /\ attempts[t] >= MaxAttempts

\* The API's documentation: the same result sent twice is answered with
\* already_done and changes nothing.  Here for a reported failure: a second
\* copy of it counts no further attempt.
ResentFailureCountsOnce ==
    [][\A m \in DOMAIN mail :
           m[3] = "failed" /\ mail[m] < Copies /\ mail'[m] = mail[m] - 1
               => attempts' = attempts]_vars
=============================================================================
