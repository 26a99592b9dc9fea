--------------------------- MODULE ClassificationSync ---------------------------
(****************************************************************************)
(* The classifications fetched from Zuse, day by day: a task per day that   *)
(* respawns itself when time is up, a lock that lets one run at a time, and *)
(* the chain of tasks a back-fill queues, newest day first.                 *)
(* Source: ddcs/metadata/tasks.py, ZuseAPIClient in ddcs/metadata/services. *)
(*                                                                          *)
(* A message is acknowledged after its run, so a crash of the worker in     *)
(* between brings it back; what the run has published by then stays.  The   *)
(* time a run has used is not counted: it may be up after any chunk, and    *)
(* the soft limit may strike in any.  batch_size is one constant: a         *)
(* continuation falls back to the default, which changes the size only.     *)
(* The videos of a day are interchangeable: they are counted.               *)
(****************************************************************************)
EXTENDS Integers, FiniteSets

CONSTANTS
    Days,        \* the days, counted back from the newest
    Load,        \* how many videos' infos were stored on each day
    BatchSize,
    Jobs,        \* sync tasks and back-fills that are queued
    First, Last, \* the first and the last day of each job
    MaxVideos,   \* the cap of each job, per day
    Runners,     \* the workers
    TroubleLimit \* bound: errors, crashes, limits

ASSUME DaysAssumption ==
    /\ IsFiniteSet(Jobs) /\ IsFiniteSet(Runners)
    /\ Days \subseteq Nat /\ Load \in [Days -> Nat]
    /\ First \in [Jobs -> Days] /\ Last \in [Jobs -> Days]
    /\ \A j \in Jobs : First[j] <= Last[j] /\ First[j]..Last[j] \subseteq Days
    /\ MaxVideos \in [Jobs -> Nat \ {0}] /\ BatchSize \in Nat \ {0}
    /\ TroubleLimit \in Nat /\ "free" \notin Runners

VARIABLES
    open,       \* how many videos of each day have no classification
    messages,   \* the messages in the queue
    run,        \* what each worker does
    syncLock,   \* the worker that has the lock
    started,    \* the jobs that were queued
    ended,      \* the days of jobs that a run got to the end of
    notified,   \* the jobs whose chain was reported broken
    fetched,    \* how many classifications each day of a job has stored
    excess,     \* how many of them a continuation was not told of
    repeated,   \* jobs with a message that came back
    trouble     \* the number of things that went wrong

syncVars == <<open, messages, run, syncLock, started, ended, notified,
              fetched, excess, repeated, trouble>>
jobVars == <<started, ended, notified>>
countVars == <<fetched, excess, repeated>>

\* no tells messages apart that are otherwise alike.
Message(j, d, cap, no) == [job |-> j, day |-> d, cap |-> cap, no |-> no]
Numbers == 1..TroubleLimit + Cardinality(Jobs) + Cardinality(Runners)
NoMessage == [job |-> "none", day |-> 0, cap |-> 0, no |-> 0]
Resting == [at |-> "idle", message |-> NoMessage, todo |-> 0, done |-> 0]
Places == {"idle", "lock", "busy", "select", "chunk", "respawn", "release",
           "succeed", "fail", "ack"}
Inside == {"select", "chunk", "respawn", "release"}

JobDays(j) == First[j]..Last[j]
Held == {run[w].message : w \in {x \in Runners : run[x].at # "idle"}}

\* The queue with a message more.
Published(j, d, cap) ==
    LET taken == {m.no : m \in messages \cup Held}
    IN messages \cup {Message(j, d, cap, CHOOSE n \in Numbers \ taken :
                                  \A k \in Numbers \ taken : n <= k)}

Trouble == trouble < TroubleLimit /\ trouble' = trouble + 1

SyncInit ==
    /\ open = Load /\ messages = {} /\ started = {} /\ ended = {}
    /\ run = [w \in Runners |-> Resting] /\ syncLock = "free"
    /\ notified = {} /\ repeated = {} /\ trouble = 0
    /\ fetched = [j \in Jobs |-> [d \in Days |-> 0]]
    /\ excess = [j \in Jobs |-> [d \in Days |-> 0]]

\* A back-fill queues its chain, or a day is queued by itself.
StartJob(j) ==
    /\ j \notin started
    /\ started' = started \cup {j}
    /\ messages' = Published(j, First[j], MaxVideos[j])
    /\ UNCHANGED <<open, run, syncLock, ended, notified, countVars, trouble>>

TakeMessage(w) ==
    /\ run[w].at = "idle"
    /\ \E m \in messages :
           /\ messages' = messages \ {m}
           /\ run' = [run EXCEPT ![w] = [Resting EXCEPT !.at = "lock",
                                                         !.message = m]]
    /\ UNCHANGED <<open, syncLock, jobVars, countVars, trouble>>

\* The lock is there or it is not.  Mistake: then the day is left to others.
WhenBusyMistaken == "succeed"
WhenBusy == "busy"
AcquireLock(w) ==
    /\ run[w].at = "lock"
    /\ IF syncLock = "free"
       THEN /\ syncLock' = w /\ run' = [run EXCEPT ![w].at = "select"]
       ELSE /\ run' = [run EXCEPT ![w].at = WhenBusy] /\ UNCHANGED syncLock
    /\ UNCHANGED <<open, messages, jobVars, countVars, trouble>>

\* The same task again, a minute later.
RetryLater(w) ==
    /\ run[w].at = "busy"
    /\ messages' = Published(run[w].message.job, run[w].message.day,
                             run[w].message.cap)
    /\ run' = [run EXCEPT ![w].at = "ack"]
    /\ UNCHANGED <<open, syncLock, jobVars, countVars, trouble>>

\* The unclassified videos of the day, no more than the cap.
Smaller(m, n) == IF m < n THEN m ELSE n
SelectVideos(w) ==
    LET m == run[w].message IN
    /\ run[w].at = "select"
    /\ run' = [run EXCEPT ![w].todo = Smaller(open[m.day], m.cap),
                          ![w].at = "chunk"]
    /\ UNCHANGED <<open, messages, syncLock, jobVars, countVars, trouble>>

\* n videos are classified.
Store(w, n) ==
    LET m == run[w].message IN
    /\ open' = [open EXCEPT ![m.day] = @ - n]
    /\ fetched' = [fetched EXCEPT ![m.job][m.day] = @ + n]
Chunk(w) == Smaller(run[w].todo, BatchSize)

\* A chunk; videos Zuse gives no answer for stay unclassified.  Afterwards
\* there is time for the next chunk, or there is not.
SyncChunk(w) ==
    \E late \in BOOLEAN, failed \in 0..Chunk(w) :
        /\ run[w].at = "chunk" /\ run[w].todo > 0
        /\ IF failed = 0 THEN UNCHANGED trouble ELSE Trouble
        /\ Store(w, Chunk(w) - failed)
        /\ late => Chunk(w) < run[w].todo
        /\ run' = [run EXCEPT ![w].todo = @ - Chunk(w),
                              ![w].done = @ + Chunk(w),
                              ![w].at = IF late THEN "respawn" ELSE "chunk"]
        /\ UNCHANGED <<messages, syncLock, jobVars, excess, repeated>>

\* The soft limit strikes in a chunk, before or after its results are
\* stored; the continuation is not told of them.
HitSoftLimit(w) ==
    /\ run[w].at = "chunk" /\ run[w].todo > 0 /\ Trouble
    /\ \E n \in {0, Chunk(w)} :
           LET m == run[w].message IN
           /\ Store(w, n)
           /\ excess' = [excess EXCEPT ![m.job][m.day] = @ + n]
    /\ run' = [run EXCEPT ![w].at = "respawn"]
    /\ UNCHANGED <<messages, syncLock, jobVars, repeated>>

\* _continuation_kwargs.  Mistake: the cap starts anew.
RestMistaken(w) == run[w].message.cap
Rest(w) == LET left == run[w].message.cap - run[w].done
           IN IF left > 0 THEN left ELSE 0
Respawn(w) ==
    /\ run[w].at = "respawn"
    /\ messages' = Published(run[w].message.job, run[w].message.day, Rest(w))
    /\ run' = [run EXCEPT ![w].at = "release", ![w].todo = 0,
                          ![w].done = 0]
    /\ UNCHANGED <<open, syncLock, jobVars, countVars, trouble>>

\* The lock is released: after a respawn, at the end, or after an error.  If
\* that fails, it is left to end by itself.
Freed(w) == IF syncLock = w THEN "free" ELSE syncLock
Unlock(w) ==
    \/ syncLock' = Freed(w) /\ UNCHANGED trouble
    \/ UNCHANGED syncLock /\ Trouble
ReleaseLock(w) ==
    /\ run[w].at = "release" /\ Unlock(w)
    /\ run' = [run EXCEPT ![w].at = "ack"]
    /\ UNCHANGED <<open, messages, jobVars, countVars>>
EndDay(w) ==
    /\ run[w].at = "chunk" /\ run[w].todo = 0 /\ Unlock(w)
    /\ ended' = ended \cup {<<run[w].message.job, run[w].message.day>>}
    /\ run' = [run EXCEPT ![w].at = "succeed", ![w].done = 0]
    /\ UNCHANGED <<open, messages, started, notified, countVars>>
BreakOff(w) ==
    /\ run[w].at \in {"select", "chunk"} /\ Trouble
    /\ syncLock' \in {Freed(w), syncLock}
    /\ run' = [run EXCEPT ![w].at = "fail", ![w].todo = 0, ![w].done = 0]
    /\ UNCHANGED <<open, messages, jobVars, countVars>>

\* Celery queues the next task of the chain, with the cap of the job.
ContinueChain(w) ==
    LET m == run[w].message IN
    /\ run[w].at = "succeed"
    /\ messages' = IF m.day < Last[m.job]
                   THEN Published(m.job, m.day + 1, MaxVideos[m.job])
                   ELSE messages
    /\ run' = [run EXCEPT ![w].at = "ack"]
    /\ UNCHANGED <<open, syncLock, jobVars, countVars, trouble>>

\* notify_backfill_chain_broken.
NotifyBroken(w) ==
    /\ run[w].at = "fail"
    /\ notified' = notified \cup {run[w].message.job}
    /\ run' = [run EXCEPT ![w].at = "ack"]
    /\ UNCHANGED <<open, messages, syncLock, started, ended, countVars, trouble>>

Acknowledge(w) ==
    /\ run[w].at = "ack"
    /\ run' = [run EXCEPT ![w] = Resting]
    /\ UNCHANGED <<open, messages, syncLock, jobVars, countVars, trouble>>

\* The worker dies: its message comes back, its lock stays.
CrashWorker(w) ==
    /\ run[w].at # "idle" /\ Trouble
    /\ messages' = messages \cup {run[w].message}
    /\ repeated' = repeated \cup {run[w].message.job}
    /\ run' = [run EXCEPT ![w] = Resting]
    /\ UNCHANGED <<open, syncLock, jobVars, fetched, excess>>

\* The lock ends by itself, later than any run that has it.
\* Mistake: it is kept for as long as nobody releases it.  Mistake: it ends
\* within the time limit of a run.
LapsesMistaken(w) == FALSE
LapsesEarly(w) == syncLock = w
Lapses(w) == syncLock = w /\ run[w].at \notin Inside
LockLapses(w) ==
    /\ Lapses(w) /\ syncLock' = "free"
    /\ UNCHANGED <<open, messages, run, jobVars, countVars, trouble>>

AllOver == started = Jobs /\ messages = {} /\ Held = {} /\ UNCHANGED syncVars

WorkOn(w) ==
    \/ TakeMessage(w) \/ AcquireLock(w) \/ RetryLater(w) \/ SelectVideos(w)
    \/ SyncChunk(w) \/ Respawn(w) \/ ReleaseLock(w) \/ EndDay(w)
    \/ ContinueChain(w) \/ NotifyBroken(w) \/ Acknowledge(w)
SyncNext ==
    \/ \E j \in Jobs : StartJob(j)
    \/ \E w \in Runners :
           WorkOn(w) \/ HitSoftLimit(w) \/ BreakOff(w) \/ CrashWorker(w)
               \/ LockLapses(w)
    \/ AllOver

\* Workers go on, and the lock of a dead one ends.
SyncFairness ==
    \A w \in Runners : WF_syncVars(WorkOn(w)) /\ WF_syncVars(LockLapses(w))
SyncSpec == SyncInit /\ [][SyncNext]_syncVars /\ SyncFairness

-----------------------------------------------------------------------------
(****************************************************************************)
(* Properties                                                               *)
(****************************************************************************)

\* The types; nobody works without the lock.
SyncTypeOK ==
    /\ \A d \in Days : open[d] \in 0..Load[d]
    /\ \A w \in Runners : run[w].at \in Places /\ run[w].todo \in Nat
    /\ \A m \in messages \cup Held :
           m.job \in started /\ m.day \in JobDays(m.job) /\ m.cap \in Nat
    /\ \A w \in Runners : run[w].at \in Inside \cup {"chunk"} => syncLock = w
    /\ ended \subseteq Jobs \X Days /\ notified \subseteq started

\* No day of a chain gets lost: a message or a run is on it and the days
\* before it are done, or all are done, or the break was reported.
DaysAccounted ==
    \A j \in started \ notified :
        \/ \A d \in JobDays(j) : <<j, d>> \in ended
        \/ \E m \in messages \cup Held :
               m.job = j /\ \A d \in First[j]..m.day - 1 : <<j, d>> \in ended

\* A day of a job stores as many classifications as the cap allows, over all
\* runs it takes.  Exempt are those of a chunk that the soft limit struck in,
\* which the continuation is not told of, and jobs of which a message came
\* back with the cap as it was.
CapKept ==
    \A j \in Jobs \ repeated, d \in Days : fetched[j][d] - excess[j][d] <= MaxVideos[j]

\* Every job comes to its end or is reported.
JobsEnd ==
    \A j \in Jobs : j \in started ~>
        j \in notified \/ \A d \in JobDays(j) : <<j, d>> \in ended
=============================================================================
