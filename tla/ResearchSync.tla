----------------------------- MODULE ResearchSync -----------------------------
(****************************************************************************)
(* The Research API synchronisation: daily runs that are retried with       *)
(* smaller batches, and the back-fill that closes what they leave open,     *)
(* under a Redis lock and within time limits.  Source: tasks.py in          *)
(* ddcs/metadata/research_api.  What a query does is in VideoFeed.          *)
(*                                                                          *)
(* Items are numbered in the order of their monitoring priority.  An item   *)
(* has one video a day.  A worker's run is a record; a run that is over is  *)
(* NoRun.  Attempts that did not succeed, and trackers of runs that are     *)
(* over, are read by nothing here and left out.                             *)
(****************************************************************************)
EXTENDS Integers, FiniteSets, Sequences

CONSTANTS
    Users, Keywords, \* monitored items, as numbers
    LastDate,        \* the newest date there is data for; 1 is the first
    Poison,          \* items TikTok answers with an error, always
    Workers, NoWorker,
    UserBatch, KeywordBatch, SmallBacklog,  \* batch sizes, threshold
    MaxRetries,      \* of a daily task
    DailySoft, DailyHard, BackfillSoft, BackfillHard,  \* time limits
    LockTimeout,     \* of the back-fill's lock: the soft limit and a minute
    StaleAge,        \* _STALE_TRACKER_MAX_AGE
    Daily, Forced,   \* the kinds daily, and forced, runs are started for
    MessageLimit     \* bound: messages in the queue

Items == Users \cup Keywords
Dates == 1..LastDate
Gaps == Items \X Dates

ASSUME ItemsAssumption ==
    /\ Items \subseteq Nat \ {0} /\ IsFiniteSet(Items)
    /\ Users \cap Keywords = {} /\ Poison \subseteq Items
ASSUME SizesAssumption ==
    /\ LastDate \in Nat \ {0}
    /\ UserBatch \in Nat \ {0} /\ KeywordBatch \in Nat \ {0}
    /\ SmallBacklog \in Nat /\ MaxRetries \in Nat /\ MessageLimit \in Nat
    /\ NoWorker \notin Workers
ASSUME TimesAssumption ==
    /\ {DailySoft, DailyHard, BackfillSoft, BackfillHard, LockTimeout,
        StaleAge} \subseteq Nat \ {0}
    /\ DailySoft < DailyHard /\ DailyHard < StaleAge
    /\ BackfillSoft < LockTimeout /\ LockTimeout < BackfillHard
    /\ BackfillHard < StaleAge

Kinds == {"users", "keywords"}
ASSUME KindsAssumption == Daily \subseteq Kinds /\ Forced \subseteq Kinds
Of(kind) == IF kind = "users" THEN Users ELSE Keywords

\* A daily task carries its arguments and how often it was retried.
Dailies == [name : {"daily"}, kind : Kinds, date : Dates,
            size : Nat \ {0}, retries : 0..MaxRetries, force : BOOLEAN]
Backfill == [name |-> "backfill"]
Tasks == Dailies \cup {Backfill}

VARIABLES
    messages, \* tasks in the queue
    run,      \* what each worker is doing
    lock,     \* who holds the back-fill's lock
    expiry,   \* the time until the lock expires
    synced    \* the gaps with a successful attempt

vars == <<messages, run, lock, expiry, synced>>
lockVars == <<lock, expiry>>

NoRun == [step |-> "idle", task |-> Backfill, at |-> 1, todo |-> {},
          size |-> 1, asked |-> {}, failed |-> FALSE, age |-> 0, deaf |-> FALSE,
          tracker |-> "none", tried |-> {}]

Steps == {"idle", "next", "ready", "query", "booking"}

-----------------------------------------------------------------------------
(****************************************************************************)
(* Pairs, gaps and batches                                                  *)
(****************************************************************************)

\* _BACKFILL_ORDER over _backfill_target_dates: users before keywords, the
\* newest date first.
LastPair == 2 * LastDate
PairAt(n) ==
    IF n <= LastDate THEN [kind |-> "users", date |-> LastDate - n + 1]
                     ELSE [kind |-> "keywords", date |-> 2 * LastDate - n + 1]

IsBackfill(r) == r.task.name = "backfill"
KindOf(r) == IF IsBackfill(r) THEN PairAt(r.at).kind ELSE r.task.kind
DateOf(r) == IF IsBackfill(r) THEN PairAt(r.at).date ELSE r.task.date
On(S, d) == S \X {d}

\* Mistake: closed gaps are listed, too.
GapItemsMistaken(kind, d, force) == Of(kind)
GapItems(kind, d, force) ==
    {i \in Of(kind) : force \/ <<i, d>> \notin synced}

First(n, S) == {i \in S : Cardinality({j \in S : j < i}) < n}

BatchOf(kind) == IF kind = "users" THEN UserBatch ELSE KeywordBatch

\* Mistake: a small backlog of keywords is asked for in one query as well.
BackfillBatchMistaken(kind, n) == BatchOf(kind)
BackfillBatch(kind, n) ==
    IF kind = "keywords" /\ n < SmallBacklog THEN 1 ELSE BatchOf(kind)

\* What is left after a batch.  Mistake: an item too many is taken off.
RestMistaken(r) == r.todo \ First(r.size + 1, r.todo)
Rest(r) == r.todo \ First(r.size, r.todo)

Halved(n) == IF n \div 2 > 1 THEN n \div 2 ELSE 1

-----------------------------------------------------------------------------
(****************************************************************************)
(* The end of a run                                                         *)
(****************************************************************************)

\* lock.release() in the finally block: only the owner's token releases it,
\* and an error is swallowed.  Mistake: whoever ends releases it.
ReleaseMistaken(w) ==
    IF IsBackfill(run[w]) THEN lock' = NoWorker /\ expiry' = 0
    ELSE UNCHANGED lockVars
Release(w) ==
    IF IsBackfill(run[w]) /\ lock = w
    THEN \/ lock' = NoWorker /\ expiry' = 0
         \/ UNCHANGED lockVars
    ELSE UNCHANGED lockVars

\* The messages after a run of w that is to be retried with batches of n:
\* never forced, and not more often than allowed.  Mistake: without end.
RetriedMistaken(w, n) ==
    messages \cup {[run[w].task EXCEPT !.size = n, !.force = FALSE,
                                       !.retries = @ + 1]}
Retried(w, n) ==
    IF run[w].task.retries < MaxRetries
    THEN messages \cup {[run[w].task EXCEPT !.size = n, !.force = FALSE,
                                            !.retries = @ + 1]}
    ELSE messages

End(w) == run' = [run EXCEPT ![w] = NoRun]

-----------------------------------------------------------------------------
(****************************************************************************)
(* Starting                                                                 *)
(****************************************************************************)

\* The schedule, or an administrator, queues a task.
Send(m) ==
    /\ Cardinality(messages) < MessageLimit
    /\ m \notin messages
    /\ messages' = messages \cup {m}
    /\ UNCHANGED <<run, synced, lockVars>>

\* The record of a run that has read its list of items and opened a tracker.
Listed(r, items, size) ==
    [r EXCEPT !.step = "ready", !.todo = items, !.size = size,
              !.failed = FALSE, !.tracker = "started"]

StartDaily(w, m) ==
    /\ run[w].step = "idle" /\ m \in messages /\ m.name = "daily"
    /\ messages' = messages \ {m}
    /\ LET items == GapItems(m.kind, m.date, m.force) IN
       IF items = {}
       THEN UNCHANGED run
       ELSE run' = [run EXCEPT ![w] =
                        Listed([NoRun EXCEPT !.task = m], items, m.size)]
    /\ UNCHANGED <<synced, lockVars>>

\* A back-fill that finds the lock held is over.
StartBackfill(w) ==
    /\ run[w].step = "idle" /\ Backfill \in messages
    /\ messages' = messages \ {Backfill}
    /\ IF lock = NoWorker
       THEN /\ lock' = w /\ expiry' = LockTimeout
            /\ run' = [run EXCEPT ![w] = [NoRun EXCEPT !.step = "next"]]
       ELSE UNCHANGED <<lockVars, run>>
    /\ UNCHANGED synced

\* The back-fill reads the gaps of its next pair: it is through, passes over
\* a pair without gaps, or starts on it.
NextPair(w) ==
    LET r == run[w]
        items == GapItems(KindOf(r), DateOf(r), FALSE) IN
    /\ r.step = "next" /\ r.at <= LastPair
    /\ IF items = {}
       THEN run' = [run EXCEPT ![w].at = @ + 1]
       ELSE run' = [run EXCEPT ![w] =
                Listed(r, items, BackfillBatch(KindOf(r), Cardinality(items)))]
    /\ UNCHANGED <<messages, synced, lockVars>>

BackfillDone(w) ==
    /\ run[w].step = "next" /\ run[w].at > LastPair
    /\ End(w) /\ Release(w)
    /\ UNCHANGED <<messages, synced>>

-----------------------------------------------------------------------------
(****************************************************************************)
(* A query                                                                  *)
(****************************************************************************)

Ask(w) ==
    LET r == run[w]  batch == First(r.size, r.todo) IN
    /\ r.step = "ready" /\ r.todo # {}
    /\ run' = [run EXCEPT ![w].step = "query", ![w].todo = Rest(r),
                          ![w].asked = batch,
                          ![w].tried = IF IsBackfill(r)
                                       THEN @ \cup On(batch, DateOf(r))
                                       ELSE @]
    /\ UNCHANGED <<messages, synced, lockVars>>

\* The answer is complete and stored: every item of the batch gets a
\* successful attempt.
Succeed(w) ==
    LET r == run[w] IN
    /\ r.step = "query" /\ r.asked \cap Poison = {}
    /\ synced' = synced \cup On(r.asked, DateOf(r))
    /\ run' = [run EXCEPT ![w].step = "ready", ![w].asked = {}]
    /\ UNCHANGED <<messages, lockVars>>

\* Any other exception: the batch counts as failed ...
BatchFails(w) ==
    /\ run[w].step = "query"
    /\ run' = [run EXCEPT ![w].step = "booking", ![w].asked = {}]
    /\ UNCHANGED <<messages, synced, lockVars>>

\* ... and is recorded, as far as the database allows.
Booked(w) ==
    /\ run[w].step = "booking"
    /\ run' = [run EXCEPT ![w].step = "ready", ![w].failed = TRUE]
    /\ UNCHANGED <<messages, synced, lockVars>>

\* Every pair of credentials has used up its quota.  A daily run is retried
\* with the same batches; the back-fill stops.
RateLimited(w) ==
    LET r == run[w] IN
    /\ r.step = "query"
    /\ messages' = IF IsBackfill(r) THEN messages ELSE Retried(w, r.size)
    /\ End(w) /\ Release(w)
    /\ UNCHANGED synced

\* All batches are through; a run with failed ones is retried with smaller
\* batches.
FinishDaily(w) ==
    LET r == run[w] IN
    /\ r.step = "ready" /\ r.todo = {} /\ ~IsBackfill(r)
    /\ messages' = IF r.failed THEN Retried(w, Halved(r.size)) ELSE messages
    /\ End(w)
    /\ UNCHANGED <<synced, lockVars>>

\* The back-fill goes on after failed batches, too.
FinishPair(w) ==
    LET r == run[w] IN
    /\ r.step = "ready" /\ r.todo = {} /\ IsBackfill(r)
    /\ run' = [run EXCEPT ![w].step = "next", ![w].at = @ + 1,
                          ![w].tracker = "none", ![w].size = 1,
                          ![w].failed = FALSE]
    /\ UNCHANGED <<messages, synced, lockVars>>

-----------------------------------------------------------------------------
(****************************************************************************)
(* Time limits, crashes                                                     *)
(****************************************************************************)

Soft(r) == IF IsBackfill(r) THEN BackfillSoft ELSE DailySoft
Hard(r) == IF IsBackfill(r) THEN BackfillHard ELSE DailyHard

\* The soft limit is up and its exception was not raised yet.
SoftDue(w) ==
    /\ run[w].step # "idle" /\ run[w].age >= Soft(run[w]) /\ ~run[w].deaf

\* In a query: recorded, as far as the database allows, and handed on to a
\* run with half the batch or to another back-fill.  The batch may have been
\* recorded as successful by then.
SoftInQuery(w) ==
    LET r == run[w] IN
    /\ SoftDue(w) /\ r.step = "query"
    /\ \/ UNCHANGED synced
       \/ r.asked \cap Poison = {} /\ synced' = synced \cup On(r.asked, DateOf(r))
    /\ messages' = IF IsBackfill(r) THEN messages \cup {Backfill}
                   ELSE Retried(w, Halved(r.size))
    /\ End(w) /\ Release(w)

\* While a failed batch is recorded: swallowed, and not raised again.
SoftSwallowed(w) ==
    /\ SoftDue(w) /\ run[w].step = "booking"
    /\ run' = [run EXCEPT ![w].deaf = TRUE]
    /\ UNCHANGED <<messages, synced, lockVars>>

\* Between queries, or before a failed batch is recorded: a daily task fails,
\* the back-fill starts another one.
SoftOutside(w) ==
    LET r == run[w] IN
    /\ SoftDue(w) /\ r.step \in {"next", "ready", "booking"}
    /\ messages' = IF IsBackfill(r) THEN messages \cup {Backfill} ELSE messages
    /\ End(w) /\ Release(w)
    /\ UNCHANGED synced

\* Another exception outside a query ends the task.
Raise(w) ==
    /\ run[w].step \in {"next", "ready"}
    /\ End(w) /\ Release(w)
    /\ UNCHANGED <<messages, synced>>

\* The hard limit kills the process; the message is acknowledged.
HardKill(w) ==
    /\ run[w].step # "idle" /\ run[w].age = Hard(run[w])
    /\ End(w)
    /\ UNCHANGED <<messages, synced, lockVars>>

\* The worker is lost; the message, acknowledged late, is delivered again.
Crash(w) ==
    /\ run[w].step # "idle"
    /\ messages' = messages \cup {run[w].task}
    /\ End(w)
    /\ UNCHANGED <<synced, lockVars>>

\* reap_stale_query_trackers; a tracker is at most as old as its run and
\* taken to be as old.  Mistake: trackers are given up as early as a
\* run may be told to stop.
StaleMistaken(age) == age >= BackfillSoft
Stale(age) == age >= StaleAge

Reap ==
    /\ run' = [w \in Workers |->
           IF run[w].tracker = "started" /\ Stale(run[w].age)
           THEN [run[w] EXCEPT !.tracker = "failed"] ELSE run[w]]
    /\ UNCHANGED <<messages, synced, lockVars>>

\* Time passes, but not past a limit.
Tick ==
    /\ \A w \in Workers :
           ~SoftDue(w) /\ (run[w].step # "idle" => run[w].age < Hard(run[w]))
    /\ run' = [w \in Workers |->
           IF run[w].step = "idle" THEN run[w]
           ELSE [run[w] EXCEPT !.age = @ + 1]]
    /\ lock' = IF expiry <= 1 THEN NoWorker ELSE lock
    /\ expiry' = IF expiry = 0 THEN 0 ELSE expiry - 1
    /\ UNCHANGED <<messages, synced>>

-----------------------------------------------------------------------------
Init ==
    /\ messages = {}
    /\ run = [w \in Workers |-> NoRun]
    /\ lock = NoWorker
    /\ expiry = 0
    /\ synced = {}

\* What the schedule sends, and a forced run an administrator sends.
Scheduled ==
    {Backfill} \cup
    {[name |-> "daily", kind |-> k, date |-> LastDate, size |-> BatchOf(k),
      retries |-> 0, force |-> FALSE] : k \in Daily} \cup
    {[name |-> "daily", kind |-> k, date |-> LastDate, size |-> BatchOf(k),
      retries |-> 0, force |-> TRUE] : k \in Forced}

Next ==
    \/ \E m \in Scheduled : Send(m)
    \/ \E w \in Workers, m \in messages : StartDaily(w, m)
    \/ \E w \in Workers : StartBackfill(w)
    \/ \E w \in Workers : NextPair(w)
    \/ \E w \in Workers : BackfillDone(w)
    \/ \E w \in Workers : Ask(w)
    \/ \E w \in Workers : Succeed(w)
    \/ \E w \in Workers : BatchFails(w)
    \/ \E w \in Workers : Booked(w)
    \/ \E w \in Workers : RateLimited(w)
    \/ \E w \in Workers : FinishDaily(w)
    \/ \E w \in Workers : FinishPair(w)
    \/ \E w \in Workers : SoftInQuery(w)
    \/ \E w \in Workers : SoftSwallowed(w)
    \/ \E w \in Workers : SoftOutside(w)
    \/ \E w \in Workers : Raise(w)
    \/ \E w \in Workers : HardKill(w)
    \/ \E w \in Workers : Crash(w)
    \/ Reap
    \/ Tick

Spec == Init /\ [][Next]_vars

\* A step a worker takes by itself: TikTok answers, with an error where it
\* always does.
Step(w) ==
    \/ NextPair(w) \/ BackfillDone(w) \/ Ask(w) \/ Succeed(w) \/ Booked(w)
    \/ FinishDaily(w) \/ FinishPair(w)
    \/ run[w].asked \cap Poison # {} /\ BatchFails(w)

\* What may go wrong, unless it has the effect of such a step.
Trouble ==
    /\ ~\E w \in Workers : Step(w)
    /\ \E w \in Workers :
        \/ SoftInQuery(w) \/ SoftSwallowed(w) \/ SoftOutside(w) \/ Raise(w)
        \/ HardKill(w) \/ Crash(w) \/ RateLimited(w)
        \/ run[w].asked \cap Poison = {} /\ BatchFails(w)

\* The schedule goes on, messages are taken, time passes.
Fairness ==
    /\ \A w \in Workers : WF_vars(Step(w))
    /\ WF_vars(\E w \in Workers, m \in messages : StartDaily(w, m))
    /\ SF_vars(Send(Backfill))
    /\ SF_vars(\E w \in Workers : StartBackfill(w) /\ lock = NoWorker)
    /\ WF_vars(Tick)

FairSpec == Spec /\ Fairness

-----------------------------------------------------------------------------
(****************************************************************************)
(* Properties                                                               *)
(****************************************************************************)

\* The types: a task keeps within its retries, a run within its hard limit and
\* its pairs.
TypeOK ==
    /\ messages \subseteq Tasks
    /\ \A w \in Workers :
           /\ run[w].step \in Steps /\ run[w].task \in Tasks
           /\ run[w].at \in 1..LastPair + 1
           /\ run[w].todo \subseteq Items /\ run[w].asked \subseteq Items
           /\ run[w].size \in Nat \ {0} /\ run[w].age \in 0..Hard(run[w])
           /\ run[w].failed \in BOOLEAN /\ run[w].deaf \in BOOLEAN
           /\ run[w].tracker \in {"none", "started", "failed"}
           /\ run[w].tried \subseteq Gaps
    /\ lock \in Workers \cup {NoWorker}
    /\ expiry \in 0..LockTimeout
    /\ synced \subseteq Gaps

Backfilling(w) == run[w].step # "idle" /\ IsBackfill(run[w])

\* Two back-fills overlap only while one of them lives on after its soft time
\* limit was swallowed: tasks.py 637 gives the lock a minute more than the
\* soft limit, not the hard one.
OverlapOnlyIfDeaf ==
    \A v, w \in Workers :
        v # w /\ Backfilling(v) /\ Backfilling(w) => run[v].deaf \/ run[w].deaf

\* The reaper never gives up the tracker of a run that goes on (tasks.py
\* 510-514).
ReaperSparesRuns == \A w \in Workers : run[w].tracker # "failed"

\* A back-fill leaves no gap out on its way: whatever is still open in the
\* pairs behind it, it has asked for (tasks.py 643-665).
NothingPassedOver ==
    \A w \in Workers : Backfilling(w) =>
        \A n \in 1..run[w].at - 1 :
            On(Of(PairAt(n).kind), PairAt(n).date) \subseteq
                synced \cup run[w].tried

\* The synchronisation keeps the promise of module Coverage.
Promise ==
    INSTANCE Coverage WITH
        Gaps <- Gaps, Askers <- Workers, closed <- synced,
        listed <- [w \in Workers |-> On(run[w].todo, DateOf(run[w]))],
        asked <- [w \in Workers |-> On(run[w].asked, DateOf(run[w]))],
        forced <- [w \in Workers |-> ~IsBackfill(run[w]) /\ run[w].task.force]
PromiseKept == Promise!Spec

\* What TikTok always refuses cannot be in every batch of a backlog: a backlog
\* with that many batches is small, and is asked for item by item.
PoisonSpares(kind) ==
    LET poison == Of(kind) \cap Poison IN
    IF kind = "keywords"
    THEN Cardinality(poison) * KeywordBatch < SmallBacklog
    ELSE poison = {} \/ UserBatch = 1

\* If nothing goes wrong any more, every gap of an item that TikTok answers
\* for is closed, as long as there are too few poison items of its kind to
\* spoil each batch of a backlog: with the sizes of tasks.py 549-569, four
\* keywords and no user.
HealthyGapsClose ==
    <>[][~Trouble]_vars =>
        \A kind \in Kinds : PoisonSpares(kind) =>
            \A g \in (Of(kind) \ Poison) \X Dates : <>(g \in synced)
===============================================================================
