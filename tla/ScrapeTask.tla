------------------------------ MODULE ScrapeTask ------------------------------
(****************************************************************************)
(* The Celery task scrape_pending_videos: messages that ask for a run, the *)
(* workers that take them, the Redis lock that lets one of them scrape, and *)
(* the cool-down in the cache that keeps scheduled runs off after an        *)
(* aborted one.  Source: ddcs/metadata/scraper/tasks.py and the cool-down  *)
(* in service.py; the button is in dashboard/views.py.                      *)
(*                                                                          *)
(* Every action is one access to Redis or the cache, or the end of the      *)
(* batch: between two of them the other workers take their steps, and the  *)
(* worker may be killed.  What a batch does to the queue is in ScrapeQueue; *)
(* here it matters only whether pending targets are left.  Time is kept as *)
(* what is left of it, see ScrapeQueue.                                     *)
(****************************************************************************)
EXTENDS Integers

CONSTANTS
    Workers,        \* worker processes
    TimeLimit,      \* ticks before a run is killed
    LockTimeout,    \* ticks before the lock expires
    CooldownBase,   \* ticks of the first pause
    CooldownMax,    \* ticks of the longest pause
    CacheTimeout,   \* ticks the cache keeps the cool-down entry
    MessageLimit,   \* bound: messages of a kind in the broker
    AbortLimit      \* bound: aborted runs counted in a row

ASSUME RunAssumption ==
    /\ TimeLimit \in Nat \ {0} /\ LockTimeout \in Nat
    /\ LockTimeout > TimeLimit
ASSUME CooldownAssumption ==
    /\ CooldownBase \in Nat \ {0} /\ CooldownMax \in Nat \ {0}
    /\ CacheTimeout \in Nat /\ CacheTimeout > CooldownMax
ASSUME BoundsAssumption == MessageLimit \in Nat /\ AbortLimit \in Nat

VARIABLES
    pending,    \* a target is pending
    queued,     \* messages in the broker, of each kind
    stage,      \* what each worker is at
    kind,       \* the kind of run it was asked for
    left,       \* ticks until its run is killed
    result,     \* how its batch ended
    seen,       \* the number of aborts it has read from the cache
    owner,      \* the worker that took the lock last
    lock,       \* ticks until the lock expires; 0: it is free
    aborts,     \* the cool-down entry: aborted runs in a row,
    pause,      \* ticks until the cool-down is over,
    memory      \* ticks until the cache forgets the entry

cooldown == <<aborts, pause, memory>>
redisLock == <<owner, lock>>
worker == <<stage, kind, left, result, seen>>
taskVars == <<pending, queued, worker, redisLock, cooldown>>

\* A manual run is one with max_videos.
Kinds == {"scheduled", "manual"}
Steps == {"free", "checked", "scraping", "stopped", "released", "counting",
          "recorded"}
\* healthy: a page was served; quiet: not aborted, but none was served;
\* interrupted: the soft time limit or an error ended the batch.
Results == {"none", "aborted", "healthy", "quiet", "interrupted"}

-----------------------------------------------------------------------------
(****************************************************************************)
(* Helpers                                                                 *)
(****************************************************************************)

LessOne(n) == IF n > 0 THEN n - 1 ELSE n

\* The lock's timeout.  Mistake: the time limit itself, without the minute.
LockTimeMistaken == TimeLimit
LockTime == LockTimeout

\* register_abort: the pause after n aborts in a row doubles with each,
\* up to the longest.
PauseAfter(n) ==
    LET doubled == CooldownBase * 2 ^ (n - 1) IN
    IF doubled \in 1..CooldownMax THEN doubled ELSE CooldownMax

\* How long the cache keeps the entry.  Mistake: for the pause it announces.
KeptMistaken(n) == PauseAfter(n)
Kept(n) == CacheTimeout

ForgetCooldown == aborts' = 0 /\ pause' = 0 /\ memory' = 0

\* A lock left behind expires.  Mistake: it has no timeout.
LockDownMistaken(n) == n
LockDown(n) == LessOne(n)

\* The worker is done with its message.
Done(w) ==
    /\ stage' = [stage EXCEPT ![w] = "free"]
    /\ kind' = [kind EXCEPT ![w] = "manual"]
    /\ left' = [left EXCEPT ![w] = 0]
    /\ result' = [result EXCEPT ![w] = "none"]
    /\ seen' = [seen EXCEPT ![w] = 0]

Goto(w, s) == stage' = [stage EXCEPT ![w] = s]

TaskInit ==
    /\ pending = FALSE
    /\ queued = [k \in Kinds |-> 0]
    /\ stage = [w \in Workers |-> "free"]
    /\ kind = [w \in Workers |-> "manual"]
    /\ left = [w \in Workers |-> 0]
    /\ result = [w \in Workers |-> "none"]
    /\ seen = [w \in Workers |-> 0]
    /\ owner \in Workers /\ lock = 0
    /\ aborts = 0 /\ pause = 0 /\ memory = 0

-----------------------------------------------------------------------------
(****************************************************************************)
(* Around the workers                                                      *)
(****************************************************************************)

\* Donations queue videos; external scrapers work them off.
QueueChanges ==
    /\ pending' = ~pending
    /\ UNCHANGED <<queued, worker, redisLock, cooldown>>

Publish(k) ==
    /\ queued[k] < MessageLimit
    /\ queued' = [queued EXCEPT ![k] = @ + 1]

\* The hourly schedule entry.
Beat ==
    /\ Publish("scheduled")
    /\ UNCHANGED <<pending, worker, redisLock, cooldown>>

\* A run started by hand with max_videos.
StartByHand ==
    /\ Publish("manual")
    /\ UNCHANGED <<pending, worker, redisLock, cooldown>>

\* "Resume scraping now".  A step between its two calls shows nothing new:
\* the queued run may also be taken after that step.
Resume ==
    /\ ForgetCooldown
    /\ Publish("scheduled")
    /\ UNCHANGED <<pending, worker, redisLock>>

-----------------------------------------------------------------------------
(****************************************************************************)
(* The task                                                                *)
(****************************************************************************)

\* A worker takes a message.  During a cool-down a scheduled run ends here.
Begin(w, k) ==
    /\ stage[w] = "free" /\ queued[k] > 0
    /\ queued' = [queued EXCEPT ![k] = @ - 1]
    /\ IF k = "scheduled" /\ pause > 0
       THEN UNCHANGED worker
       ELSE /\ Goto(w, "checked")
            /\ kind' = [kind EXCEPT ![w] = k]
            /\ left' = [left EXCEPT ![w] = TimeLimit]
            /\ UNCHANGED <<result, seen>>
    /\ UNCHANGED <<pending, redisLock, cooldown>>

\* lock.acquire(blocking=False): the worker that finds the lock held skips.
TryLock(w) ==
    /\ stage[w] = "checked"
    /\ IF lock = 0
       THEN /\ owner' = w /\ lock' = LockTime
            /\ Goto(w, "scraping")
            /\ UNCHANGED <<kind, left, result, seen>>
       ELSE Done(w) /\ UNCHANGED redisLock
    /\ UNCHANGED <<pending, queued, cooldown>>

\* scrape_batch returns, or is ended by an exception.
StopScraping(w, r) ==
    /\ stage[w] = "scraping"
    /\ Goto(w, "stopped")
    /\ result' = [result EXCEPT ![w] = r]
    /\ pending' \in {pending, FALSE}
    /\ UNCHANGED <<queued, kind, left, seen, redisLock, cooldown>>

\* finally: lock.release(), which leaves a lock with another token alone and
\* whose errors are swallowed.
Release(w) ==
    /\ stage[w] = "stopped"
    /\ lock' \in {lock, IF owner = w THEN 0 ELSE lock}
    /\ IF result[w] = "interrupted"
       THEN Done(w)
       ELSE Goto(w, "released") /\ UNCHANGED <<kind, left, result, seen>>
    /\ UNCHANGED <<pending, queued, owner, cooldown>>

\* register_abort, the read: how many aborts there were in a row.
ReadAborts(w) ==
    /\ stage[w] = "released" /\ result[w] = "aborted"
    /\ aborts < AbortLimit
    /\ seen' = [seen EXCEPT ![w] = aborts]
    /\ Goto(w, "counting")
    /\ UNCHANGED <<pending, queued, kind, left, result, redisLock, cooldown>>

\* register_abort, the write: one more, and the pause that goes with it.
WriteAbort(w) ==
    /\ stage[w] = "counting"
    /\ aborts' = seen[w] + 1
    /\ pause' = PauseAfter(seen[w] + 1)
    /\ memory' = Kept(seen[w] + 1)
    /\ Goto(w, "recorded")
    /\ UNCHANGED <<pending, queued, kind, left, result, seen, redisLock>>

\* Without an abort: a page that was served ends the cool-down.
NoteServed(w) ==
    /\ stage[w] = "released" /\ result[w] \in {"healthy", "quiet"}
    /\ IF result[w] = "healthy" THEN ForgetCooldown ELSE UNCHANGED cooldown
    /\ Goto(w, "recorded")
    /\ UNCHANGED <<pending, queued, kind, left, result, seen, redisLock>>

\* _should_continue: the run queues the next one, unless it was a manual or
\* an aborted one.
Finish(w) ==
    /\ stage[w] = "recorded"
    /\ IF kind[w] = "scheduled" /\ result[w] # "aborted" /\ pending
       THEN Publish("scheduled")
       ELSE UNCHANGED queued
    /\ Done(w)
    /\ UNCHANGED <<pending, redisLock, cooldown>>

\* The worker is killed or loses its child process, at the latest when the
\* time limit is reached.  The lock stays; the message, acknowledged late,
\* may be delivered again.
Kill(w) ==
    /\ stage[w] # "free"
    /\ Done(w)
    /\ Publish(kind[w]) \/ UNCHANGED queued
    /\ UNCHANGED <<pending, redisLock, cooldown>>

\* The cache forgets the cool-down entry when its timeout is over.
ClockTicks ==
    /\ \A w \in Workers : stage[w] # "free" => left[w] > 0
    /\ left' = [w \in Workers |-> LessOne(left[w])]
    /\ lock' = LockDown(lock)
    /\ memory' = LessOne(memory)
    /\ pause' = IF memory' = 0 THEN 0 ELSE LessOne(pause)
    /\ aborts' = IF memory' = 0 THEN 0 ELSE aborts
    /\ UNCHANGED <<pending, queued, stage, kind, result, seen, owner>>

-----------------------------------------------------------------------------
WorkerStep(w) ==
    \/ TryLock(w)
    \/ \E r \in Results \ {"none"} : StopScraping(w, r)
    \/ Release(w)
    \/ ReadAborts(w) \/ WriteAbort(w) \/ NoteServed(w)
    \/ Finish(w)

TaskNext ==
    \/ QueueChanges \/ Beat \/ StartByHand \/ Resume
    \/ \E w \in Workers :
           \/ \E k \in Kinds : Begin(w, k)
           \/ WorkerStep(w)
           \/ Kill(w)
    \/ ClockTicks

TaskSpec == TaskInit /\ [][TaskNext]_taskVars

(***************************************************************************)
(* Time passes, the schedule entry fires, a scheduled message is taken by  *)
(* some worker, a worker goes on with its run.  Workers may be killed      *)
(* again and again, but not every time before they have asked for the     *)
(* lock.                                                                    *)
(***************************************************************************)
TaskFairness ==
    /\ WF_taskVars(ClockTicks) /\ WF_taskVars(Beat)
    /\ WF_taskVars(\E w \in Workers : Begin(w, "scheduled"))
    /\ \A w \in Workers : WF_taskVars(WorkerStep(w) \/ Kill(w))
    /\ SF_taskVars(\E w \in Workers : TryLock(w))

FairTaskSpec == TaskSpec /\ TaskFairness

-----------------------------------------------------------------------------
(****************************************************************************)
(* Properties                                                              *)
(****************************************************************************)

\* Every variable holds a value of its type.
TaskTypeOK ==
    /\ pending \in BOOLEAN
    /\ queued \in [Kinds -> Nat]
    /\ stage \in [Workers -> Steps]
    /\ kind \in [Workers -> Kinds]
    /\ left \in [Workers -> 0..TimeLimit]
    /\ result \in [Workers -> Results]
    /\ seen \in [Workers -> Nat]
    /\ owner \in Workers
    /\ lock \in 0..LockTimeout
    /\ aborts \in Nat /\ pause \in 0..CooldownMax /\ memory \in Nat

\* Only one run scrapes at a time, whatever workers were killed and whatever
\* messages were delivered twice: no lock expires under the run that has it.
OneRunAtATime ==
    \A v, w \in Workers :
        stage[v] = "scraping" /\ stage[w] = "scraping" => v = w

\* While scraping is paused, the aborts that led to the pause are known, and
\* still will be when it is over: the next abort makes a longer pause.
EscalationKept == pause > 0 => aborts > 0 /\ memory > pause

\* As long as targets are pending, scraping is tried again and again: a
\* lock left behind, a pause or a broken chain of runs ends.
ScrapingResumes == []<>(~pending \/ \E w \in Workers : stage[w] = "scraping")

\* The documentation: during the pause, scheduled runs are skipped.
CooldownRespected ==
    [][\A w \in Workers :
           stage[w] = "checked" /\ stage'[w] = "scraping"
               /\ kind[w] = "scheduled" => pause = 0]_taskVars
=============================================================================
