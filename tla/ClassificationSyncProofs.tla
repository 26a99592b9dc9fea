------------------------ MODULE ClassificationSyncProofs ------------------------
(****************************************************************************)
(* Proofs about ClassificationSync, for any days, videos, jobs, caps, batch *)
(* sizes and workers: the types with the lock that one run has, no day of a *)
(* chain is lost, and the cap holds over all runs of a day; and about       *)
(* Figures, for any videos, databases and workers: what the pages show is   *)
(* off by what was written while it was computed and no more.               *)
(****************************************************************************)
EXTENDS ClassificationSync, Figures, FiniteSetTheorems, TLAPS

USE DaysAssumption

-----------------------------------------------------------------------------
(****************************************************************************)
(* The types                                                                *)
(****************************************************************************)

\* A message about a day of a job that is in S: of one that was started.
MessageOK(m, S) == m.job \in S /\ m.day \in JobDays(m.job) /\ m.cap \in Nat
\* A run; what its message is does not matter for the record.
RecordOK(r) == r \in [at : Places, message : {r.message}, todo : Nat, done : Nat]
RunOK(r, S) == RecordOK(r) /\ (r.at # "idle" => MessageOK(r.message, S))
RunsOK ==
    /\ run \in [Runners -> {run[w] : w \in Runners}]
    /\ \A w \in Runners : RunOK(run[w], started)

JobsOK ==
    /\ started \subseteq Jobs /\ notified \subseteq started
    /\ ended \subseteq Jobs \X Days
    /\ \A m \in messages : MessageOK(m, started)
\* Who is inside has the lock, and its videos are still unclassified.
LockOK ==
    \A w \in Runners :
        /\ run[w].at \in Inside => syncLock = w
        /\ run[w].at = "chunk" => run[w].todo <= open[run[w].message.day]
OpenOK == open \in [Days -> Nat] /\ \A d \in Days : open[d] <= Load[d]
TypeInv == RunsOK /\ JobsOK /\ LockOK /\ OpenOK

LEMMA SetRun ==
    ASSUME RunsOK, NEW w \in Runners, NEW q, run' = [run EXCEPT ![w] = q]
    PROVE  run'[w] = q /\ \A v \in Runners \ {w} : run'[v] = run[v]
  BY DEF RunsOK

LEMMA SetRunOK ==
    ASSUME RunsOK, NEW w \in Runners, NEW q, run' = [run EXCEPT ![w] = q],
           started \subseteq started', RunOK(q, started')
    PROVE  RunsOK'
<1>1. run'[w] = q /\ \A v \in Runners \ {w} : run'[v] = run[v]
  BY SetRun
<1>2. run' \in [Runners -> {run'[v] : v \in Runners}]
  BY DEF RunsOK
<1>3. \A v \in Runners : RunOK(run[v], started')
  BY DEF RunsOK, RunOK, MessageOK
<1>4. QED
  BY <1>1, <1>2, <1>3 DEF RunsOK

\* One message more in the queue.
LEMMA PublishedOne ==
    ASSUME NEW j, NEW d, NEW cap
    PROVE  \E n : Published(j, d, cap) = messages \cup {Message(j, d, cap, n)}
  BY DEF Published

LEMMA MessageIs ==
    ASSUME NEW j, NEW d, NEW cap, NEW n
    PROVE  /\ Message(j, d, cap, n).job = j /\ Message(j, d, cap, n).day = d
           /\ Message(j, d, cap, n).cap = cap
  BY DEF Message

LEMMA JobDaysType ==
    ASSUME NEW j \in Jobs
    PROVE  /\ JobDays(j) \subseteq Days /\ First[j] \in JobDays(j)
           /\ \A d \in JobDays(j) : d < Last[j] => d + 1 \in JobDays(j)
<1>1. First[j] \in Nat /\ Last[j] \in Nat /\ First[j] <= Last[j]
  OBVIOUS
<1>2. JobDays(j) \subseteq Days
  BY DEF JobDays
<1>3. QED
  BY <1>1, <1>2 DEF JobDays

LEMMA JobDaysNumbers ==
    ASSUME NEW j \in Jobs, NEW d \in JobDays(j)
    PROVE  d \in Nat /\ First[j] \in Nat /\ Last[j] \in Nat /\ d \in First[j]..Last[j]
<1>1. d \in Days
  BY JobDaysType
<1>2. First[j] \in Days /\ Last[j] \in Days
  OBVIOUS
<1>3. QED
  BY <1>1, <1>2 DEF JobDays

LEMMA LastOrBefore ==
    ASSUME NEW a \in Int, NEW b \in Int
    PROVE  \A d \in a..b : d = b \/ d \in a..b - 1
  OBVIOUS

LEMMA ChunkSize ==
    ASSUME NEW w, run[w].todo \in Nat
    PROVE  Chunk(w) \in 0..run[w].todo
  BY DEF Chunk, Smaller

\* A run goes on, with its message; the other runs stay.
Becomes(w, at, todo, done) ==
    /\ run'[w].at = at /\ run'[w].todo = todo /\ run'[w].done = done
    /\ run'[w].message = run[w].message
    /\ \A v \in Runners \ {w} : run'[v] = run[v]

LEMMA Move ==
    ASSUME RunsOK, NEW w \in Runners, run[w].at # "idle", started \subseteq started',
           NEW at \in Places, NEW todo \in Nat, NEW done \in Nat,
           run' = [run EXCEPT ![w].at = at, ![w].todo = todo, ![w].done = done]
    PROVE  RunsOK' /\ Becomes(w, at, todo, done)
<1> DEFINE r == run[w]
           q == [r EXCEPT !.at = at, !.todo = todo, !.done = done]
<1>1. RecordOK(r) /\ MessageOK(r.message, started)
  BY DEF RunsOK, RunOK
<1>2. run' = [run EXCEPT ![w] = q]
  BY DEF RunsOK
<1>3. /\ q.at = at /\ q.todo = todo /\ q.done = done /\ q.message = r.message
      /\ RecordOK(q)
  BY <1>1 DEF RecordOK
<1>4. RunOK(q, started')
  BY <1>1, <1>3 DEF RunOK, MessageOK
<1>5. RunsOK'
  BY <1>2, <1>4, SetRunOK
<1>6. run'[w] = q /\ \A v \in Runners \ {w} : run'[v] = run[v]
  BY <1>2, SetRun
<1>7. QED
  BY <1>3, <1>5, <1>6 DEF Becomes

LEMMA MoveTo ==
    ASSUME RunsOK, NEW w \in Runners, run[w].at # "idle", started \subseteq started',
           NEW at \in Places, run' = [run EXCEPT ![w].at = at]
    PROVE  RunsOK' /\ Becomes(w, at, run[w].todo, run[w].done)
<1> DEFINE r == run[w]
           q == [r EXCEPT !.at = at]
<1>1. RecordOK(r) /\ MessageOK(r.message, started)
  BY DEF RunsOK, RunOK
<1>2. run' = [run EXCEPT ![w] = q]
  BY DEF RunsOK
<1>3. /\ q.at = at /\ q.todo = r.todo /\ q.done = r.done /\ q.message = r.message
      /\ RecordOK(q)
  BY <1>1 DEF RecordOK
<1>4. RunOK(q, started')
  BY <1>1, <1>3 DEF RunOK, MessageOK
<1>5. RunsOK'
  BY <1>2, <1>4, SetRunOK
<1>6. run'[w] = q /\ \A v \in Runners \ {w} : run'[v] = run[v]
  BY <1>2, SetRun
<1>7. QED
  BY <1>3, <1>5, <1>6 DEF Becomes

\* The steps of a run, seen from the run.
LEMMA PlainMoves ==
    ASSUME RunsOK, NEW w \in Runners
    PROVE  /\ AcquireLock(w) => /\ RunsOK'
                 /\ \E at \in {"select", "busy"} :
                        /\ Becomes(w, at, run[w].todo, run[w].done)
                        /\ at = "select" => syncLock = "free" /\ syncLock' = w
                        /\ at = "busy" => UNCHANGED syncLock
           /\ RetryLater(w) \/ ContinueChain(w) \/ NotifyBroken(w) \/ ReleaseLock(w)
                 => RunsOK' /\ Becomes(w, "ack", run[w].todo, run[w].done)
           /\ HitSoftLimit(w)
                 => RunsOK' /\ Becomes(w, "respawn", run[w].todo, run[w].done)
           /\ Respawn(w) => RunsOK' /\ Becomes(w, "release", 0, 0)
           /\ BreakOff(w) => RunsOK' /\ Becomes(w, "fail", 0, 0)
           /\ EndDay(w) => RunsOK' /\ Becomes(w, "succeed", 0, 0)
<1>p. {"select", "busy", "ack", "respawn", "release", "fail", "succeed"} \subseteq Places
  BY DEF Places
<1>1. AcquireLock(w) => /\ RunsOK'
                 /\ \E at \in {"select", "busy"} :
                        /\ Becomes(w, at, run[w].todo, run[w].done)
                        /\ at = "select" => syncLock = "free" /\ syncLock' = w
                        /\ at = "busy" => UNCHANGED syncLock
  <2> SUFFICES ASSUME AcquireLock(w)
               PROVE  RunsOK' /\ \E at \in {"select", "busy"} :
                        /\ Becomes(w, at, run[w].todo, run[w].done)
                        /\ at = "select" => syncLock = "free" /\ syncLock' = w
                        /\ at = "busy" => UNCHANGED syncLock
    OBVIOUS
  <2>1. run[w].at # "idle" /\ UNCHANGED started
    BY DEF AcquireLock, jobVars
  <2>2. CASE syncLock = "free"
    <3>1. run' = [run EXCEPT ![w].at = "select"] /\ syncLock' = w
      BY <2>2 DEF AcquireLock
    <3>2. RunsOK' /\ Becomes(w, "select", run[w].todo, run[w].done)
      BY <1>p, <2>1, <3>1, MoveTo
    <3>3. QED
      BY <2>2, <3>1, <3>2
  <2>3. CASE syncLock # "free"
    <3>1. run' = [run EXCEPT ![w].at = "busy"] /\ UNCHANGED syncLock
      BY <2>3 DEF AcquireLock, WhenBusy
    <3>2. RunsOK' /\ Becomes(w, "busy", run[w].todo, run[w].done)
      BY <1>p, <2>1, <3>1, MoveTo
    <3>3. QED
      BY <3>1, <3>2
  <2>4. QED
    BY <2>2, <2>3
<1>2. ASSUME RetryLater(w) \/ ContinueChain(w) \/ NotifyBroken(w) \/ ReleaseLock(w)
      PROVE  RunsOK' /\ Becomes(w, "ack", run[w].todo, run[w].done)
  <2>1. run[w].at # "idle" /\ UNCHANGED started /\ run' = [run EXCEPT ![w].at = "ack"]
    BY <1>2 DEF RetryLater, ContinueChain, NotifyBroken, ReleaseLock, jobVars
  <2>2. QED
    BY <1>p, <2>1, MoveTo
<1>3. ASSUME HitSoftLimit(w)
      PROVE  RunsOK' /\ Becomes(w, "respawn", run[w].todo, run[w].done)
  <2>1. /\ run[w].at # "idle" /\ UNCHANGED started
        /\ run' = [run EXCEPT ![w].at = "respawn"]
    BY <1>3 DEF HitSoftLimit, jobVars
  <2>2. QED
    BY <1>p, <2>1, MoveTo
<1>4. ASSUME Respawn(w) PROVE RunsOK' /\ Becomes(w, "release", 0, 0)
  <2>1. /\ run[w].at # "idle" /\ UNCHANGED started
        /\ run' = [run EXCEPT ![w].at = "release", ![w].todo = 0, ![w].done = 0]
    BY <1>4 DEF Respawn, jobVars
  <2>2. QED
    BY <1>p, <2>1, Move
<1>5. ASSUME BreakOff(w) PROVE RunsOK' /\ Becomes(w, "fail", 0, 0)
  <2>1. /\ run[w].at # "idle" /\ UNCHANGED started
        /\ run' = [run EXCEPT ![w].at = "fail", ![w].todo = 0, ![w].done = 0]
    BY <1>5 DEF BreakOff, jobVars
  <2>2. QED
    BY <1>p, <2>1, Move
<1>6. ASSUME EndDay(w) PROVE RunsOK' /\ Becomes(w, "succeed", 0, 0)
  <2>1. run[w].at # "idle" /\ UNCHANGED started
    BY <1>6 DEF EndDay
  <2>2. RecordOK(run[w]) /\ run[w].todo = 0
    BY <1>6 DEF RunsOK, RunOK, EndDay
  <2>3. run' = [run EXCEPT ![w].at = "succeed", ![w].todo = 0, ![w].done = 0]
    BY <1>6, <2>2 DEF RecordOK, RunsOK, EndDay
  <2>4. QED
    BY <1>p, <2>1, <2>3, Move
<1>7. QED
  BY <1>1, <1>2, <1>3, <1>4, <1>5, <1>6

LEMMA ChunkMoves ==
    ASSUME TypeInv, NEW w \in Runners
    PROVE  /\ SelectVideos(w) =>
                 /\ RunsOK'
                 /\ \E n \in Nat :
                        /\ n <= open[run[w].message.day] /\ n <= run[w].message.cap
                        /\ Becomes(w, "chunk", n, run[w].done)
           /\ SyncChunk(w) =>
                 /\ RunsOK'
                 /\ \E n \in Nat, k \in Nat, at \in {"chunk", "respawn"} :
                        /\ k <= n /\ n <= run[w].todo /\ Store(w, k)
                        /\ Becomes(w, at, run[w].todo - n, run[w].done + n)
<1> DEFINE r == run[w]
<1>a. RunsOK /\ OpenOK /\ RunOK(r, started)
  BY DEF TypeInv, RunsOK
<1>1. ASSUME SelectVideos(w)
      PROVE  /\ RunsOK'
             /\ \E n \in Nat : /\ n <= open[r.message.day] /\ n <= r.message.cap
                               /\ Becomes(w, "chunk", n, r.done)
  <2> DEFINE n == Smaller(open[r.message.day], r.message.cap)
  <2>1. r.at = "select" /\ UNCHANGED started
    BY <1>1 DEF SelectVideos, jobVars
  <2>2. r.message.job \in Jobs /\ r.message.day \in Days /\ r.message.cap \in Nat
    <3>1. MessageOK(r.message, started) /\ started \subseteq Jobs
      BY <1>a, <2>1 DEF RunOK, TypeInv, JobsOK
    <3>2. QED
      BY <3>1, JobDaysType DEF MessageOK
  <2>3. n \in Nat /\ n <= open[r.message.day] /\ n <= r.message.cap
    <3>1. open[r.message.day] \in Nat
      BY <1>a, <2>2 DEF OpenOK
    <3>2. QED
      BY <2>2, <3>1 DEF Smaller
  <2>4. "chunk" \in Places /\ r.done \in Nat
    BY <1>a DEF Places, RunOK, RecordOK
  <2>5. run' = [run EXCEPT ![w].todo = n, ![w].at = "chunk"]
    BY <1>1 DEF SelectVideos
  <2>6. run' = [run EXCEPT ![w].at = "chunk", ![w].todo = n, ![w].done = r.done]
    BY <1>a, <2>5 DEF RunsOK, RunOK, RecordOK
  <2>7. RunsOK' /\ Becomes(w, "chunk", n, r.done)
    BY <1>a, <2>1, <2>3, <2>4, <2>6, Move
  <2>8. QED
    BY <2>3, <2>7
<1>2. ASSUME SyncChunk(w)
      PROVE  /\ RunsOK'
             /\ \E n \in Nat, k \in Nat, at \in {"chunk", "respawn"} :
                    /\ k <= n /\ n <= r.todo /\ Store(w, k)
                    /\ Becomes(w, at, r.todo - n, r.done + n)
  <2>1. PICK late \in BOOLEAN, failed \in 0..Chunk(w) :
            /\ Store(w, Chunk(w) - failed)
            /\ run' = [run EXCEPT ![w].todo = @ - Chunk(w), ![w].done = @ + Chunk(w),
                                  ![w].at = IF late THEN "respawn" ELSE "chunk"]
    BY <1>2 DEF SyncChunk
  <2>2. r.at = "chunk" /\ UNCHANGED started
    BY <1>2 DEF SyncChunk, jobVars
  <2>3. r.todo \in Nat /\ r.done \in Nat
    BY <1>a DEF RunOK, RecordOK
  <2> DEFINE n == Chunk(w)
             k == n - failed
             at == IF late THEN "respawn" ELSE "chunk"
  <2>4. n \in Nat /\ n <= r.todo
    BY <2>3, ChunkSize
  <2>5. k \in Nat /\ k <= n /\ r.todo - n \in Nat /\ r.done + n \in Nat
    BY <2>1, <2>3, <2>4
  <2>6. at \in {"chunk", "respawn"} /\ at \in Places
    BY DEF Places
  <2>7. run' = [run EXCEPT ![w].at = at, ![w].todo = r.todo - n, ![w].done = r.done + n]
    <3>1. run' = [run EXCEPT ![w] = [r EXCEPT !.todo = r.todo - n, !.done = r.done + n,
                                              !.at = at]]
      BY <1>a, <2>1 DEF RunsOK, RunOK, RecordOK
    <3>2. [r EXCEPT !.todo = r.todo - n, !.done = r.done + n, !.at = at]
              = [r EXCEPT !.at = at, !.todo = r.todo - n, !.done = r.done + n]
      BY <1>a DEF RunOK, RecordOK
    <3>3. QED
      BY <1>a, <3>1, <3>2 DEF RunsOK
  <2>8. RunsOK' /\ Becomes(w, at, r.todo - n, r.done + n)
    BY <1>a, <2>2, <2>5, <2>6, <2>7, Move
  <2>9. Store(w, k)
    BY <2>1
  <2>10. QED
    BY <2>4, <2>5, <2>6, <2>8, <2>9
<1>3. QED
  BY <1>1, <1>2

\* A worker that takes a message, or rests.
LEMMA TakeMoves ==
    ASSUME RunsOK, JobsOK, NEW w \in Runners, NEW m \in messages, UNCHANGED started,
           run' = [run EXCEPT ![w] = [Resting EXCEPT !.at = "lock", !.message = m]]
    PROVE  /\ RunsOK' /\ run'[w].at = "lock" /\ run'[w].message = m /\ run'[w].done = 0
           /\ \A v \in Runners \ {w} : run'[v] = run[v]
<1> DEFINE q == [Resting EXCEPT !.at = "lock", !.message = m]
<1>1. q.at = "lock" /\ q.message = m /\ q.todo = 0 /\ q.done = 0 /\ RecordOK(q)
  BY DEF Resting, RecordOK, Places
<1>2. RunOK(q, started')
  BY <1>1 DEF RunOK, JobsOK
<1>3. QED
  BY <1>1, <1>2, SetRun, SetRunOK

LEMMA RestMoves ==
    ASSUME RunsOK, NEW w \in Runners, UNCHANGED started,
           run' = [run EXCEPT ![w] = Resting]
    PROVE  /\ RunsOK' /\ run'[w].at = "idle"
           /\ \A v \in Runners \ {w} : run'[v] = run[v]
<1>1. Resting.at = "idle" /\ RecordOK(Resting)
  BY DEF Resting, RecordOK, Places
<1>2. RunOK(Resting, started')
  BY <1>1 DEF RunOK
<1>3. QED
  BY <1>1, <1>2, SetRun, SetRunOK

LEMMA RunsStep ==
    ASSUME TypeInv, [SyncNext]_syncVars
    PROVE  RunsOK'
<1>a. RunsOK /\ JobsOK
  BY DEF TypeInv
<1>0. ASSUME UNCHANGED run, started \subseteq started' PROVE RunsOK'
  BY <1>a, <1>0 DEF RunsOK, RunOK, MessageOK
<1>1. ASSUME NEW w \in Runners, WorkOn(w) PROVE RunsOK'
  <2>1. CASE TakeMessage(w)
    BY <1>a, <2>1, TakeMoves DEF TakeMessage, jobVars
  <2>2. CASE Acknowledge(w)
    BY <1>a, <2>2, RestMoves DEF Acknowledge, jobVars
  <2>3. CASE SelectVideos(w) \/ SyncChunk(w)
    BY <2>3, ChunkMoves
  <2>4. QED
    BY <1>1, <1>a, <2>1, <2>2, <2>3, PlainMoves DEF WorkOn
<1>2. ASSUME NEW w \in Runners, HitSoftLimit(w) \/ BreakOff(w) PROVE RunsOK'
  BY <1>2, <1>a, PlainMoves
<1>3. ASSUME NEW w \in Runners, CrashWorker(w) PROVE RunsOK'
  BY <1>3, <1>a, RestMoves DEF CrashWorker, jobVars
<1>4. ASSUME \/ \E j \in Jobs : StartJob(j)
             \/ \E w \in Runners : LockLapses(w)
             \/ AllOver \/ UNCHANGED syncVars
      PROVE  RunsOK'
  <2>1. UNCHANGED run /\ started \subseteq started'
    BY <1>4 DEF StartJob, LockLapses, AllOver, syncVars, jobVars
  <2>2. QED
    BY <1>0, <2>1
<1>5. QED
  BY <1>1, <1>2, <1>3, <1>4 DEF SyncNext

\* A message that is published is about a day of a job.
LEMMA PublishedOK ==
    ASSUME \A m \in messages : MessageOK(m, started), started \subseteq started',
           NEW j \in started', NEW d \in JobDays(j), NEW cap \in Nat,
           messages' = Published(j, d, cap)
    PROVE  \A m \in messages' : MessageOK(m, started')
<1>1. PICK n : messages' = messages \cup {Message(j, d, cap, n)}
  BY PublishedOne
<1>2. MessageOK(Message(j, d, cap, n), started')
  BY MessageIs DEF MessageOK
<1>3. QED
  BY <1>1, <1>2 DEF MessageOK

LEMMA JobsStep ==
    ASSUME TypeInv, [SyncNext]_syncVars
    PROVE  JobsOK'
<1>a. RunsOK /\ JobsOK
  BY DEF TypeInv
<1>b. \A w \in Runners : run[w].at # "idle" =>
          /\ MessageOK(run[w].message, started) /\ run[w].message.job \in Jobs
          /\ run[w].message.job \in started /\ run[w].message.cap \in Nat
          /\ run[w].message.day \in JobDays(run[w].message.job)
          /\ run[w].message.day \in Days /\ run[w].done \in Nat
  BY <1>a, JobDaysType DEF RunsOK, RunOK, MessageOK, JobsOK, RecordOK
<1>0. ASSUME messages' \subseteq messages, UNCHANGED jobVars PROVE JobsOK'
  BY <1>a, <1>0 DEF JobsOK, jobVars
<1>c. ASSUME NEW j \in started, NEW d \in JobDays(j), NEW cap \in Nat,
             messages' = Published(j, d, cap), UNCHANGED jobVars
      PROVE  JobsOK'
  <2>1. \A m \in messages' : MessageOK(m, started')
    BY <1>a, <1>c, PublishedOK DEF JobsOK, jobVars
  <2>2. QED
    BY <1>a, <1>c, <2>1 DEF JobsOK, jobVars
<1>1. ASSUME NEW w \in Runners, RetryLater(w) PROVE JobsOK'
  BY <1>1, <1>b, <1>c DEF RetryLater
<1>2. ASSUME NEW w \in Runners, Respawn(w) PROVE JobsOK'
  <2>1. run[w].at # "idle" /\ UNCHANGED jobVars
        /\ messages' = Published(run[w].message.job, run[w].message.day, Rest(w))
    BY <1>2 DEF Respawn
  <2>2. Rest(w) \in Nat
    BY <1>b, <2>1 DEF Rest
  <2>3. QED
    BY <1>b, <1>c, <2>1, <2>2
<1>3. ASSUME NEW w \in Runners, ContinueChain(w) PROVE JobsOK'
  <2> DEFINE m == run[w].message
  <2>1. run[w].at # "idle" /\ UNCHANGED jobVars
    BY <1>3 DEF ContinueChain
  <2>2. CASE m.day < Last[m.job]
    <3>1. messages' = Published(m.job, m.day + 1, MaxVideos[m.job])
      BY <1>3, <2>2 DEF ContinueChain
    <3>2. m.day + 1 \in JobDays(m.job) /\ MaxVideos[m.job] \in Nat
      BY <1>b, <2>1, <2>2, JobDaysType
    <3>3. QED
      BY <1>b, <1>c, <2>1, <3>1, <3>2
  <2>3. CASE ~(m.day < Last[m.job])
    BY <1>0, <1>3, <2>1, <2>3 DEF ContinueChain
  <2>4. QED
    BY <2>2, <2>3
<1>4. ASSUME NEW w \in Runners, EndDay(w) PROVE JobsOK'
  BY <1>4, <1>a, <1>b DEF EndDay, JobsOK
<1>5. ASSUME NEW w \in Runners, NotifyBroken(w) PROVE JobsOK'
  BY <1>5, <1>a, <1>b DEF NotifyBroken, JobsOK
<1>6. ASSUME NEW w \in Runners, CrashWorker(w) PROVE JobsOK'
  BY <1>6, <1>a, <1>b DEF CrashWorker, JobsOK, jobVars
<1>7. ASSUME NEW j \in Jobs, StartJob(j) PROVE JobsOK'
  <2>1. /\ started' = started \cup {j} /\ UNCHANGED <<ended, notified>>
        /\ messages' = Published(j, First[j], MaxVideos[j])
    BY <1>7 DEF StartJob
  <2>2. First[j] \in JobDays(j) /\ MaxVideos[j] \in Nat
    BY JobDaysType
  <2>3. \A m \in messages' : MessageOK(m, started')
    BY <1>a, <2>1, <2>2, PublishedOK DEF JobsOK
  <2>4. QED
    BY <1>a, <2>1, <2>3 DEF JobsOK
<1>8. ASSUME NEW w \in Runners,
             \/ TakeMessage(w) \/ AcquireLock(w) \/ SelectVideos(w) \/ SyncChunk(w)
             \/ HitSoftLimit(w) \/ ReleaseLock(w) \/ BreakOff(w) \/ Acknowledge(w)
             \/ LockLapses(w)
      PROVE  JobsOK'
  BY <1>0, <1>8 DEF TakeMessage, AcquireLock, SelectVideos, SyncChunk, HitSoftLimit,
                    ReleaseLock, BreakOff, Acknowledge, LockLapses
<1>9. CASE AllOver \/ UNCHANGED syncVars
  BY <1>0, <1>9 DEF AllOver, syncVars, jobVars
<1>10. QED
  BY <1>1, <1>2, <1>3, <1>4, <1>5, <1>6, <1>7, <1>8, <1>9 DEF SyncNext, WorkOn

LEMMA StoreOpen ==
    ASSUME OpenOK, NEW w, run[w].message.day \in Days, NEW n \in Nat,
           n <= open[run[w].message.day], Store(w, n)
    PROVE  /\ OpenOK'
           /\ open'[run[w].message.day] = open[run[w].message.day] - n
<1>1. open[run[w].message.day] - n \in Nat
  <2>1. open[run[w].message.day] \in Nat
    BY DEF OpenOK
  <2>2. QED
    BY <2>1
<1>2. open' = [open EXCEPT ![run[w].message.day] = open[run[w].message.day] - n]
  BY DEF Store
<1>3. open' \in [Days -> Nat]
  BY <1>1, <1>2 DEF OpenOK
<1>4. \A d \in Days : open'[d] <= open[d] /\ open[d] \in Nat /\ Load[d] \in Nat
  BY <1>1, <1>2 DEF OpenOK
<1>5. \A d \in Days : open'[d] <= Load[d]
  BY <1>3, <1>4 DEF OpenOK
<1>6. QED
  BY <1>2, <1>3, <1>5 DEF OpenOK

\* The lock, the videos that are left, and what is left to ask for.
LEMMA LockStep ==
    ASSUME TypeInv, [SyncNext]_syncVars
    PROVE  LockOK' /\ OpenOK'
<1>a. RunsOK /\ JobsOK /\ LockOK /\ OpenOK
  BY DEF TypeInv
<1>b. "idle" \notin Inside /\ "lock" \notin Inside /\ "busy" \notin Inside
      /\ "succeed" \notin Inside /\ "fail" \notin Inside /\ "ack" \notin Inside
  BY DEF Inside
<1>0. ASSUME UNCHANGED open PROVE OpenOK'
  BY <1>a, <1>0 DEF OpenOK
\* Some run leaves the inside, or stays outside; who is inside keeps the lock.
<1>c. ASSUME NEW w \in Runners, UNCHANGED open, run'[w].at \notin Inside,
             \A v \in Runners \ {w} : run'[v] = run[v],
             syncLock' = syncLock \/ syncLock = w
      PROVE  LockOK' /\ OpenOK'
  <2>1. ASSUME NEW v \in Runners
        PROVE  /\ run'[v].at \in Inside => syncLock' = v
               /\ run'[v].at = "chunk" => run'[v].todo <= open'[run'[v].message.day]
    <3>1. CASE v = w
      BY <1>c, <3>1 DEF Inside
    <3>2. CASE v # w
      BY <1>a, <1>c, <3>2 DEF LockOK
    <3>3. QED
      BY <3>1, <3>2
  <2>2. QED
    BY <1>0, <1>c, <2>1 DEF LockOK
\* A run that has the lock works on.
<1>d. ASSUME NEW w \in Runners, syncLock' = w, run[w].at \in Inside \/ syncLock = "free",
             OpenOK',
             \A v \in Runners \ {w} : run'[v] = run[v],
             run'[w].at = "chunk" => run'[w].todo <= open'[run'[w].message.day]
      PROVE  LockOK'
  <2>1. \A v \in Runners \ {w} : run[v].at \notin Inside
    BY <1>a, <1>d DEF LockOK
  <2>2. QED
    BY <1>d, <2>1 DEF LockOK, Inside
<1>e. \A w \in Runners : run[w].at # "idle" =>
          /\ run[w].message.day \in Days /\ run[w].todo \in Nat
          /\ open[run[w].message.day] \in Nat
  BY <1>a, JobDaysType DEF RunsOK, RunOK, RecordOK, MessageOK, JobsOK, OpenOK
<1>1. ASSUME NEW w \in Runners, AcquireLock(w) PROVE LockOK' /\ OpenOK'
  <2>1. UNCHANGED open
    BY <1>1 DEF AcquireLock
  <2>2. PICK at \in {"select", "busy"} :
            /\ Becomes(w, at, run[w].todo, run[w].done)
            /\ at = "select" => syncLock = "free" /\ syncLock' = w
            /\ at = "busy" => UNCHANGED syncLock
    BY <1>1, <1>a, PlainMoves
  <2>3. CASE at = "select"
    BY <1>0, <1>d, <2>1, <2>2, <2>3 DEF Becomes
  <2>4. CASE at = "busy"
    BY <1>b, <1>c, <2>1, <2>2, <2>4 DEF Becomes
  <2>5. QED
    BY <2>3, <2>4
<1>2. ASSUME NEW w \in Runners, SelectVideos(w) PROVE LockOK' /\ OpenOK'
  <2>1. UNCHANGED <<open, syncLock>> /\ run[w].at = "select"
    BY <1>2 DEF SelectVideos
  <2>2. syncLock = w
    BY <1>a, <2>1 DEF LockOK, Inside
  <2>3. PICK n \in Nat : /\ n <= open[run[w].message.day]
                         /\ Becomes(w, "chunk", n, run[w].done)
    BY <1>2, ChunkMoves
  <2>4. QED
    BY <1>0, <1>d, <2>1, <2>2, <2>3 DEF Becomes, Inside
<1>3. ASSUME NEW w \in Runners, SyncChunk(w) PROVE LockOK' /\ OpenOK'
  <2>1. UNCHANGED syncLock /\ run[w].at = "chunk"
    BY <1>3 DEF SyncChunk
  <2>2. syncLock = w /\ run[w].todo <= open[run[w].message.day]
    BY <1>a, <2>1 DEF LockOK, Inside
  <2>3. PICK n \in Nat, k \in Nat, at \in {"chunk", "respawn"} :
            /\ k <= n /\ n <= run[w].todo /\ Store(w, k)
            /\ Becomes(w, at, run[w].todo - n, run[w].done + n)
    BY <1>3, ChunkMoves
  <2>4. k <= open[run[w].message.day]
    BY <1>e, <2>1, <2>2, <2>3
  <2>5. OpenOK' /\ open'[run[w].message.day] = open[run[w].message.day] - k
    BY <1>a, <1>e, <2>1, <2>3, <2>4, StoreOpen
  <2>6. run[w].todo - n <= open[run[w].message.day] - k
    BY <1>e, <2>1, <2>2, <2>3
  <2>7. run'[w].todo <= open'[run'[w].message.day]
    BY <2>3, <2>5, <2>6 DEF Becomes
  <2>8. QED
    BY <1>d, <2>1, <2>2, <2>3, <2>5, <2>7 DEF Becomes, Inside
<1>4. ASSUME NEW w \in Runners, HitSoftLimit(w) PROVE LockOK' /\ OpenOK'
  <2>1. UNCHANGED syncLock /\ run[w].at = "chunk"
    BY <1>4 DEF HitSoftLimit
  <2>2. syncLock = w /\ run[w].todo <= open[run[w].message.day]
    BY <1>a, <2>1 DEF LockOK, Inside
  <2>3. PICK n \in {0, Chunk(w)} : Store(w, n)
    BY <1>4 DEF HitSoftLimit
  <2>4. n \in Nat /\ n <= open[run[w].message.day]
    BY <1>e, <2>1, <2>2, <2>3, ChunkSize
  <2>5. OpenOK'
    BY <1>a, <1>e, <2>1, <2>3, <2>4, StoreOpen
  <2>6. Becomes(w, "respawn", run[w].todo, run[w].done)
    BY <1>4, <1>a, PlainMoves
  <2>7. QED
    BY <1>d, <2>1, <2>2, <2>5, <2>6 DEF Becomes, Inside
<1>5. ASSUME NEW w \in Runners, Respawn(w) PROVE LockOK' /\ OpenOK'
  <2>1. UNCHANGED <<open, syncLock>> /\ run[w].at = "respawn"
    BY <1>5 DEF Respawn
  <2>2. syncLock = w
    BY <1>a, <2>1 DEF LockOK, Inside
  <2>3. Becomes(w, "release", 0, 0)
    BY <1>5, <1>a, PlainMoves
  <2>4. QED
    BY <1>0, <1>d, <2>1, <2>2, <2>3 DEF Becomes, Inside
<1>6. ASSUME NEW w \in Runners,
             ReleaseLock(w) \/ EndDay(w) \/ BreakOff(w) \/ RetryLater(w)
                 \/ ContinueChain(w) \/ NotifyBroken(w)
      PROVE  LockOK' /\ OpenOK'
  <2>1. UNCHANGED open /\ (syncLock' = syncLock \/ syncLock = w)
    BY <1>6 DEF ReleaseLock, EndDay, BreakOff, RetryLater, ContinueChain, NotifyBroken,
                Unlock, Freed
  <2>2. \E at \in {"ack", "succeed", "fail"} : \E todo, done : Becomes(w, at, todo, done)
    BY <1>6, <1>a, PlainMoves
  <2>3. QED
    BY <1>b, <1>c, <2>1, <2>2 DEF Becomes
<1>7. ASSUME NEW w \in Runners, TakeMessage(w) \/ Acknowledge(w) \/ CrashWorker(w)
      PROVE  LockOK' /\ OpenOK'
  <2>1. UNCHANGED <<open, syncLock>>
    BY <1>7 DEF TakeMessage, Acknowledge, CrashWorker
  <2>2. /\ run'[w].at \in {"lock", "idle"}
        /\ \A v \in Runners \ {w} : run'[v] = run[v]
    BY <1>7, <1>a, TakeMoves, RestMoves DEF TakeMessage, Acknowledge, CrashWorker,
                                            jobVars
  <2>3. QED
    BY <1>b, <1>c, <2>1, <2>2
<1>8. ASSUME NEW w \in Runners, LockLapses(w) PROVE LockOK' /\ OpenOK'
  BY <1>8, <1>c DEF LockLapses, Lapses
<1>9. CASE (\E j \in Jobs : StartJob(j)) \/ AllOver \/ UNCHANGED syncVars
  <2>1. UNCHANGED <<open, run, syncLock>>
    BY <1>9 DEF StartJob, AllOver, syncVars
  <2>2. QED
    BY <1>0, <1>a, <2>1 DEF LockOK
<1>10. QED
  BY <1>1, <1>2, <1>3, <1>4, <1>5, <1>6, <1>7, <1>8, <1>9 DEF SyncNext, WorkOn

LEMMA TypeStep == TypeInv /\ [SyncNext]_syncVars => TypeInv'
<1>1. ASSUME TypeInv, [SyncNext]_syncVars PROVE TypeInv'
  BY <1>1, RunsStep, JobsStep, LockStep DEF TypeInv
<1>2. QED
  BY <1>1

LEMMA TypeInit == SyncInit => TypeInv
<1> SUFFICES ASSUME SyncInit PROVE TypeInv
  OBVIOUS
<1>1. Resting.at = "idle" /\ RecordOK(Resting)
  BY DEF Resting, RecordOK, Places
<1>2. RunsOK
  <2>1. run = [w \in Runners |-> Resting]
    BY DEF SyncInit
  <2>2. \A w \in Runners : run[w] = Resting
    BY <2>1
  <2>3. run \in [Runners -> {run[w] : w \in Runners}]
    BY <2>1, <2>2
  <2>4. QED
    BY <1>1, <2>2, <2>3 DEF RunsOK, RunOK
<1>3. JobsOK
  BY DEF SyncInit, JobsOK
<1>4. LockOK
  BY <1>1 DEF SyncInit, LockOK, Inside
<1>5. OpenOK
  BY DEF SyncInit, OpenOK
<1>6. QED
  BY <1>2, <1>3, <1>4, <1>5 DEF TypeInv

LEMMA TypeHolds == SyncSpec => []TypeInv
  BY TypeInit, TypeStep, PTL DEF SyncSpec

\* The types; nobody works without the lock, and a day loses no more videos
\* than it has.
THEOREM ClassificationTyped == SyncSpec => []SyncTypeOK
<1>1. ASSUME TypeInv PROVE SyncTypeOK
  <2>1. \A d \in Days : open[d] \in 0..Load[d]
    BY <1>1 DEF TypeInv, OpenOK
  <2>2. \A w \in Runners : run[w].at \in Places /\ run[w].todo \in Nat
    BY <1>1 DEF TypeInv, RunsOK, RunOK, RecordOK
  <2>3. \A m \in messages \cup Held :
           m.job \in started /\ m.day \in JobDays(m.job) /\ m.cap \in Nat
    BY <1>1 DEF TypeInv, RunsOK, RunOK, JobsOK, MessageOK, Held
  <2>4. \A w \in Runners : run[w].at \in Inside \cup {"chunk"} => syncLock = w
    BY <1>1 DEF TypeInv, LockOK, Inside
  <2>5. ended \subseteq Jobs \X Days /\ notified \subseteq started
    BY <1>1 DEF TypeInv, JobsOK
  <2>6. QED
    BY <2>1, <2>2, <2>3, <2>4, <2>5 DEF SyncTypeOK
<1>2. QED
  BY <1>1, TypeHolds, PTL

-----------------------------------------------------------------------------
(****************************************************************************)
(* No day of a chain gets lost                                              *)
(****************************************************************************)

\* A message goes on in the queue, or in a run that did not hand it on yet.
Over == {"idle", "release", "ack"}
Live == messages \cup {run[w].message : w \in {x \in Runners : run[x].at \notin Over}}
Reached(m, j) == m.job = j /\ \A d \in First[j]..m.day - 1 : <<j, d>> \in ended
AllEnded(j) == \A d \in JobDays(j) : <<j, d>> \in ended
SucceedEnded ==
    \A w \in Runners : run[w].at = "succeed" =>
        <<run[w].message.job, run[w].message.day>> \in ended
ChainInv ==
    /\ SucceedEnded
    /\ \A j \in started \ notified : AllEnded(j) \/ \E m \in Live : Reached(m, j)

\* What is live stays so, or is followed by its like, or its job is notified.
LEMMA ChainKept ==
    ASSUME ChainInv, SucceedEnded', ended \subseteq ended', notified \subseteq notified',
           UNCHANGED started,
           \A m \in Live : \/ \E n \in Live' : n.job = m.job /\ n.day = m.day
                           \/ m.job \in notified'
    PROVE  ChainInv'
<1> SUFFICES ASSUME NEW j \in started \ notified', ~AllEnded(j)'
             PROVE  \E n \in Live' : Reached(n, j)'
  BY DEF ChainInv
<1>1. PICK m \in Live : Reached(m, j)
  BY DEF ChainInv, AllEnded
<1>2. PICK n \in Live' : n.job = m.job /\ n.day = m.day
  BY <1>1 DEF Reached
<1>3. Reached(n, j)'
  BY <1>1, <1>2 DEF Reached
<1>4. QED
  BY <1>3

LEMMA ChainStep ==
    ASSUME TypeInv, ChainInv, [SyncNext]_syncVars
    PROVE  ChainInv'
<1>a. RunsOK /\ JobsOK
  BY DEF TypeInv
<1>b. \A w \in Runners : run[w].at # "idle" =>
          /\ run[w].message.job \in started /\ run[w].message.job \in Jobs
          /\ run[w].message.day \in JobDays(run[w].message.job)
  BY <1>a DEF RunsOK, RunOK, MessageOK, JobsOK
\* The other runs, while one goes on with its message.
<1>c. ASSUME NEW w \in Runners, \A v \in Runners \ {w} : run'[v] = run[v],
             messages \subseteq messages'
      PROVE  Live \subseteq Live' \cup {run[w].message}
  BY <1>c DEF Live
<1>d. ASSUME NEW w \in Runners, \A v \in Runners \ {w} : run'[v] = run[v],
             ended \subseteq ended',
             run'[w].at = "succeed" => <<run'[w].message.job, run'[w].message.day>> \in ended'
      PROVE  SucceedEnded'
  BY <1>d DEF ChainInv, SucceedEnded
<1>1. ASSUME NEW w \in Runners, NEW at \in Places \ Over, NEW todo, NEW done,
             Becomes(w, at, todo, done), UNCHANGED messages, ended \subseteq ended',
             notified \subseteq notified', UNCHANGED started,
             at = "succeed" => <<run[w].message.job, run[w].message.day>> \in ended'
      PROVE  ChainInv'
  <2>1. SucceedEnded'
    BY <1>1, <1>d DEF Becomes
  <2>2. run[w].message \in Live'
    BY <1>1 DEF Becomes, Live
  <2>3. Live \subseteq Live'
    BY <1>1, <1>c, <2>2 DEF Becomes
  <2>4. QED
    BY <1>1, <2>1, <2>3, ChainKept
<1>p. {"select", "busy", "chunk", "respawn", "fail", "succeed"} \subseteq Places \ Over
  BY DEF Places, Over
<1>2. ASSUME NEW w \in Runners,
             AcquireLock(w) \/ SelectVideos(w) \/ SyncChunk(w) \/ HitSoftLimit(w)
                 \/ BreakOff(w) \/ EndDay(w)
      PROVE  ChainInv'
  <2>1. /\ UNCHANGED <<messages, started, notified>> /\ ended \subseteq ended'
        /\ EndDay(w) => <<run[w].message.job, run[w].message.day>> \in ended'
    BY <1>2 DEF AcquireLock, SelectVideos, SyncChunk, HitSoftLimit, BreakOff, EndDay,
                jobVars
  <2>2. CASE AcquireLock(w)
    BY <1>1, <1>a, <1>p, <2>1, <2>2, PlainMoves
  <2>3. CASE SelectVideos(w)
    BY <1>1, <1>p, <2>1, <2>3, ChunkMoves
  <2>4. CASE SyncChunk(w)
    BY <1>1, <1>p, <2>1, <2>4, ChunkMoves
  <2>5. CASE HitSoftLimit(w)
    BY <1>1, <1>a, <1>p, <2>1, <2>5, PlainMoves
  <2>6. CASE BreakOff(w)
    BY <1>1, <1>a, <1>p, <2>1, <2>6, PlainMoves
  <2>7. CASE EndDay(w)
    BY <1>1, <1>a, <1>p, <2>1, <2>7, PlainMoves
  <2>8. QED
    BY <1>2, <2>2, <2>3, <2>4, <2>5, <2>6, <2>7
\* The message is followed by its like.
<1>3. ASSUME NEW w \in Runners, RetryLater(w) \/ Respawn(w) PROVE ChainInv'
  <2>1. UNCHANGED jobVars /\ \E cap : messages' =
            Published(run[w].message.job, run[w].message.day, cap)
    BY <1>3 DEF RetryLater, Respawn
  <2>2. PICK n : /\ messages \subseteq messages' /\ n \in messages'
                 /\ n.job = run[w].message.job /\ n.day = run[w].message.day
    BY <2>1, PublishedOne, MessageIs
  <2>3. \E at \in Over : \E todo, done : Becomes(w, at, todo, done)
    BY <1>3, <1>a, PlainMoves DEF Over
  <2>4. SucceedEnded'
    BY <1>d, <2>1, <2>3 DEF Becomes, Over, jobVars
  <2>5. Live \subseteq Live' \cup {run[w].message} /\ n \in Live'
    BY <1>c, <2>2, <2>3 DEF Becomes, Live
  <2>6. \A m \in Live : \E k \in Live' : k.job = m.job /\ k.day = m.day
    BY <2>2, <2>5
  <2>7. QED
    BY <2>1, <2>4, <2>6, ChainKept DEF jobVars
<1>4. ASSUME NEW w \in Runners, ContinueChain(w) PROVE ChainInv'
  <2> DEFINE m == run[w].message
  <2>1. UNCHANGED jobVars /\ run[w].at = "succeed"
    BY <1>4 DEF ContinueChain
  <2>2. m.job \in Jobs /\ m.day \in JobDays(m.job) /\ <<m.job, m.day>> \in ended
    BY <1>b, <2>1 DEF ChainInv, SucceedEnded
  <2>3. \E todo, done : Becomes(w, "ack", todo, done)
    BY <1>4, <1>a, PlainMoves
  <2>4. SucceedEnded'
    BY <1>d, <2>1, <2>3 DEF Becomes, jobVars
  <2>5. messages \subseteq messages'
    BY <1>4, PublishedOne DEF ContinueChain
  <2>6. Live \subseteq Live' \cup {m}
    BY <1>c, <2>3, <2>5 DEF Becomes
  <2>7. ASSUME NEW j \in started \ notified, Reached(m, j)
        PROVE  AllEnded(j) \/ \E n \in Live' : Reached(n, j)
    <3>1. m.job = j /\ \A d \in First[j]..m.day : <<j, d>> \in ended
      <4>1. m.job = j /\ \A d \in First[j]..m.day - 1 : <<j, d>> \in ended
        BY <2>7 DEF Reached
      <4>2. m.day \in Int /\ First[j] \in Int
        BY <2>2, <4>1, JobDaysNumbers
      <4>3. \A d \in First[j]..m.day : d = m.day \/ d \in First[j]..m.day - 1
        BY <4>2, LastOrBefore
      <4>4. QED
        BY <2>2, <4>1, <4>3
    <3>2. CASE m.day < Last[j]
      <4>1. PICK n : n \in messages' /\ n.job = j /\ n.day = m.day + 1
        BY <1>4, <3>1, <3>2, PublishedOne, MessageIs DEF ContinueChain
      <4>2. First[j]..n.day - 1 = First[j]..m.day
        BY <2>2, <3>1, <4>1 DEF JobDays
      <4>3. Reached(n, j)
        BY <3>1, <4>1, <4>2 DEF Reached
      <4>4. QED
        BY <4>1, <4>3 DEF Live
    <3>3. CASE ~(m.day < Last[j])
      <4>1. /\ m.day \in Nat /\ First[j] \in Nat /\ Last[j] \in Nat
            /\ m.day \in First[j]..Last[j]
        BY <2>2, <3>1, JobDaysNumbers
      <4>2. JobDays(j) \subseteq First[j]..m.day
        BY <3>3, <3>1, <4>1 DEF JobDays
      <4>3. QED
        BY <3>1, <4>2 DEF AllEnded
    <3>4. QED
      BY <3>2, <3>3
  <2>8. \A j \in started \ notified : AllEnded(j) \/ \E n \in Live' : Reached(n, j)
    BY <2>6, <2>7 DEF ChainInv
  <2>9. QED
    BY <2>1, <2>4, <2>8 DEF ChainInv, AllEnded, Reached, jobVars
<1>5. ASSUME NEW w \in Runners, NotifyBroken(w) PROVE ChainInv'
  <2>1. /\ UNCHANGED <<messages, started, ended>>
        /\ notified' = notified \cup {run[w].message.job}
    BY <1>5 DEF NotifyBroken
  <2>2. \E todo, done : Becomes(w, "ack", todo, done)
    BY <1>5, <1>a, PlainMoves
  <2>3. SucceedEnded'
    BY <1>d, <2>1, <2>2 DEF Becomes
  <2>4. Live \subseteq Live' \cup {run[w].message}
    BY <1>c, <2>1, <2>2 DEF Becomes
  <2>5. QED
    BY <2>1, <2>3, <2>4, ChainKept
<1>6. ASSUME NEW w \in Runners, ReleaseLock(w) \/ Acknowledge(w) PROVE ChainInv'
  <2>1. /\ UNCHANGED <<messages, jobVars>> /\ run[w].at \in Over
        /\ run'[w].at \in Over /\ \A v \in Runners \ {w} : run'[v] = run[v]
    BY <1>6, <1>a, PlainMoves, RestMoves DEF ReleaseLock, Acknowledge, Becomes, Over,
                                            jobVars
  <2>2. SucceedEnded'
    BY <1>d, <2>1 DEF Over, jobVars
  <2>3. Live \subseteq Live'
    BY <2>1 DEF Live
  <2>4. QED
    BY <2>1, <2>2, <2>3, ChainKept DEF jobVars
<1>7. ASSUME NEW w \in Runners, TakeMessage(w) PROVE ChainInv'
  <2>1. PICK m \in messages :
            /\ messages' = messages \ {m}
            /\ run' = [run EXCEPT ![w] = [Resting EXCEPT !.at = "lock", !.message = m]]
    BY <1>7 DEF TakeMessage
  <2>2. run[w].at = "idle" /\ UNCHANGED jobVars
    BY <1>7 DEF TakeMessage
  <2>3. /\ run'[w].at = "lock" /\ run'[w].message = m
        /\ \A v \in Runners \ {w} : run'[v] = run[v]
    BY <1>a, <2>1, <2>2, TakeMoves DEF jobVars
  <2>4. SucceedEnded'
    BY <1>d, <2>2, <2>3 DEF jobVars
  <2>5. Live \subseteq Live'
    BY <2>1, <2>2, <2>3 DEF Live, Over
  <2>6. QED
    BY <2>2, <2>4, <2>5, ChainKept DEF jobVars
<1>8. ASSUME NEW w \in Runners, CrashWorker(w) PROVE ChainInv'
  <2>1. /\ UNCHANGED jobVars /\ messages' = messages \cup {run[w].message}
        /\ run'[w].at = "idle" /\ \A v \in Runners \ {w} : run'[v] = run[v]
    BY <1>8, <1>a, RestMoves DEF CrashWorker, jobVars
  <2>2. SucceedEnded'
    BY <1>d, <2>1 DEF jobVars
  <2>3. Live \subseteq Live'
    BY <2>1 DEF Live
  <2>4. QED
    BY <2>1, <2>2, <2>3, ChainKept DEF jobVars
<1>9. ASSUME NEW j \in Jobs, StartJob(j) PROVE ChainInv'
  <2>1. /\ started' = started \cup {j} /\ UNCHANGED <<run, ended, notified>>
    BY <1>9 DEF StartJob
  <2>2. PICK n : n \in messages' /\ messages \subseteq messages' /\ n.job = j
                 /\ n.day = First[j]
    BY <1>9, PublishedOne, MessageIs DEF StartJob
  <2>3. SucceedEnded'
    BY <2>1 DEF ChainInv, SucceedEnded
  <2>4. Live \subseteq Live' /\ n \in Live'
    BY <2>1, <2>2 DEF Live
  <2>5. First[j]..n.day - 1 = {}
    <3>1. First[j] \in Nat
      BY JobDaysType, JobDaysNumbers
    <3>2. QED
      BY <2>2, <3>1
  <2>6. Reached(n, j)'
    BY <2>2, <2>5 DEF Reached
  <2>7. QED
    BY <2>1, <2>3, <2>4, <2>6 DEF ChainInv, AllEnded, Reached
<1>10. CASE (\E w \in Runners : LockLapses(w)) \/ AllOver \/ UNCHANGED syncVars
  <2>1. UNCHANGED <<run, messages, jobVars>>
    BY <1>10 DEF LockLapses, AllOver, syncVars, jobVars
  <2>2. UNCHANGED Live /\ SucceedEnded'
    BY <2>1 DEF Live, ChainInv, SucceedEnded, jobVars
  <2>3. QED
    BY <2>1, <2>2, ChainKept DEF jobVars
<1>11. QED
  BY <1>2, <1>3, <1>4, <1>5, <1>6, <1>7, <1>8, <1>9, <1>10 DEF SyncNext, WorkOn

\* No day of a chain gets lost: a message or a run is on it, or the chain has
\* ended, or its break was reported.
THEOREM ChainsAccounted == SyncSpec => []DaysAccounted
<1>1. SyncInit => ChainInv
  BY DEF SyncInit, ChainInv, SucceedEnded, Resting
<1>2. TypeInv /\ ChainInv /\ [SyncNext]_syncVars => ChainInv'
  BY ChainStep
<1>3. ChainInv => DaysAccounted
  <2>1. Live \subseteq messages \cup Held
    BY DEF Live, Held, Over
  <2>2. QED
    BY <2>1 DEF ChainInv, DaysAccounted, AllEnded, Reached
<1>4. QED
  BY <1>1, <1>2, <1>3, TypeHolds, PTL DEF SyncSpec

-----------------------------------------------------------------------------
(****************************************************************************)
(* The cap                                                                  *)
(****************************************************************************)

\* What a job has stored of a day, as far as it knows.
Net(j, d) == fetched[j][d] - excess[j][d]
CountsOK == {fetched, excess} \subseteq [Jobs -> [Days -> Nat]]

\* With this much more on day d the job keeps to its cap, and the days to
\* come are untouched.
Budget(j, d, more) ==
    Net(j, d) + more <= MaxVideos[j] /\ \A e \in Days : e > d => Net(j, e) <= 0
LiveOf(w, j) == run[w].at \notin Over /\ run[w].message.job = j
RunBudget(r, j) ==
    /\ Budget(j, r.message.day,
              IF r.at \in {"succeed", "fail"} THEN 0 ELSE r.message.cap - r.done)
    /\ r.at \in {"lock", "busy", "select"} => r.done = 0
    /\ r.at = "chunk" => r.todo + r.done <= r.message.cap
    /\ r.at = "respawn" => r.done <= r.message.cap
Single(j) ==
    /\ \A m, n \in messages : m.job = j /\ n.job = j => m = n
    /\ \A m \in messages, w \in Runners : m.job = j => ~LiveOf(w, j)
    /\ \A v, w \in Runners : LiveOf(v, j) /\ LiveOf(w, j) => v = w
JobInv(j) ==
    /\ \A d \in Days : Net(j, d) <= MaxVideos[j]
    /\ j \notin started => \A d \in Days : Net(j, d) <= 0
    /\ \A m \in messages : m.job = j => Budget(j, m.day, m.cap)
    /\ \A w \in Runners : LiveOf(w, j) => RunBudget(run[w], j)
    /\ Single(j)
CapInv == CountsOK /\ \A j \in Jobs \ repeated : JobInv(j)

LEMMA CountsType ==
    ASSUME CountsOK, NEW j \in Jobs, NEW d \in Days
    PROVE  fetched[j][d] \in Nat /\ excess[j][d] \in Nat /\ Net(j, d) \in Int
<1>1. fetched \in [Jobs -> [Days -> Nat]] /\ excess \in [Jobs -> [Days -> Nat]]
  BY DEF CountsOK
<1>2. fetched[j][d] \in Nat /\ excess[j][d] \in Nat
  BY <1>1
<1>3. QED
  BY <1>2 DEF Net

LEMMA SumNat ==
    ASSUME NEW a \in Nat, NEW b \in Nat
    PROVE  a + b \in Nat
  OBVIOUS

LEMMA StoreNet ==
    ASSUME CountsOK, NEW w, run[w].message.job \in Jobs, run[w].message.day \in Days,
           NEW n \in Nat, Store(w, n), UNCHANGED excess
    PROVE  /\ CountsOK'
           /\ \A j \in Jobs, d \in Days : Net(j, d)' =
                  IF j = run[w].message.job /\ d = run[w].message.day
                  THEN Net(j, d) + n ELSE Net(j, d)
<1> DEFINE i == run[w].message.job  e == run[w].message.day
<1>1. fetched' = [fetched EXCEPT ![i][e] = fetched[i][e] + n]
  BY DEF Store, CountsOK
<1>0. \A j \in Jobs, d \in Days : fetched[j][d] \in Nat /\ excess[j][d] \in Nat
  BY CountsType
<1>2. fetched[i][e] + n \in Nat
  <2>1. fetched[i][e] \in Nat
    BY <1>0
  <2>2. QED
    BY <2>1, SumNat
<1>3. fetched' \in [Jobs -> [Days -> Nat]]
  BY <1>1, <1>2 DEF CountsOK
<1>4. \A j \in Jobs, d \in Days :
          fetched'[j][d] = IF j = i /\ d = e THEN fetched[j][d] + n ELSE fetched[j][d]
  BY <1>1 DEF CountsOK
<1>6. \A j \in Jobs, d \in Days :
          Net(j, d)' = IF j = i /\ d = e THEN Net(j, d) + n ELSE Net(j, d)
  BY <1>0, <1>4 DEF Net
<1>7. QED
  BY <1>3, <1>6 DEF CountsOK

\* What the limit strikes in is counted twice, and so not at all.
LEMMA StruckNet ==
    ASSUME CountsOK, NEW w, run[w].message.job \in Jobs, run[w].message.day \in Days,
           NEW n \in Nat, Store(w, n),
           excess' = [excess EXCEPT ![run[w].message.job][run[w].message.day] = @ + n]
    PROVE  CountsOK' /\ \A j \in Jobs, d \in Days : Net(j, d)' = Net(j, d)
<1> DEFINE i == run[w].message.job  e == run[w].message.day
<1>1. /\ fetched' = [fetched EXCEPT ![i][e] = fetched[i][e] + n]
      /\ excess' = [excess EXCEPT ![i][e] = excess[i][e] + n]
  BY DEF Store, CountsOK
<1>2. fetched[i][e] + n \in Nat /\ excess[i][e] + n \in Nat
  <2>1. fetched[i][e] \in Nat /\ excess[i][e] \in Nat
    BY CountsType
  <2>2. QED
    BY <2>1
<1>3. {fetched', excess'} \subseteq [Jobs -> [Days -> Nat]]
  BY <1>1, <1>2 DEF CountsOK
<1>4. \A j \in Jobs, d \in Days :
          /\ fetched'[j][d] = IF j = i /\ d = e THEN fetched[j][d] + n ELSE fetched[j][d]
          /\ excess'[j][d] = IF j = i /\ d = e THEN excess[j][d] + n ELSE excess[j][d]
  BY <1>1 DEF CountsOK
<1>5. \A j \in Jobs, d \in Days : fetched[j][d] \in Nat /\ excess[j][d] \in Nat
  BY CountsType
<1>6. \A j \in Jobs, d \in Days : Net(j, d)' = Net(j, d)
  BY <1>4, <1>5 DEF Net
<1>7. QED
  BY <1>3, <1>6 DEF CountsOK

\* A step that is none of a job's business.
LEMMA OtherJob ==
    ASSUME NEW j \in Jobs, JobInv(j), \A d \in Days : Net(j, d)' = Net(j, d),
           \A m \in messages' : m.job = j => m \in messages /\ m.day \in Days,
           \A v \in Runners : LiveOf(v, j)' =>
               LiveOf(v, j) /\ run'[v] = run[v] /\ run[v].message.day \in Days,
           started \subseteq started'
    PROVE  JobInv(j)'
<1>1. \A d \in Days : \A more : Budget(j, d, more) => Budget(j, d, more)'
  BY DEF Budget
<1>2. \A m \in messages' : m.job = j => Budget(j, m.day, m.cap)'
  BY <1>1 DEF JobInv
<1>3. \A v \in Runners : LiveOf(v, j)' => RunBudget(run[v], j)'
  BY <1>1 DEF JobInv, RunBudget
<1>4. Single(j)'
  BY DEF JobInv, Single
<1>5. QED
  BY <1>2, <1>3, <1>4 DEF JobInv

\* The job's only run goes on with its message.
LEMMA RunGoesOn ==
    ASSUME RunsOK, NEW j \in Jobs, JobInv(j), NEW w \in Runners, LiveOf(w, j),
           NEW at, NEW todo, NEW done, Becomes(w, at, todo, done),
           UNCHANGED <<messages, started>>, RunBudget(run[w], j)',
           \A d \in Days : Net(j, d)' <= MaxVideos[j],
           j \in started
    PROVE  JobInv(j)'
<1>1. \A m \in messages : m.job # j
  BY DEF JobInv, Single
<1>2. \A v \in Runners : LiveOf(v, j)' => v = w
  BY DEF JobInv, Single, LiveOf, Becomes
<1>3. Single(j)'
  BY <1>1, <1>2 DEF Single
<1>4. QED
  BY <1>1, <1>2, <1>3 DEF JobInv

\* It hands its message on, and is over.
LEMMA RunHandsOn ==
    ASSUME RunsOK, NEW j \in Jobs, JobInv(j), NEW w \in Runners, LiveOf(w, j),
           NEW at \in Over, NEW todo, NEW done, Becomes(w, at, todo, done),
           \A d \in Days : Net(j, d)' = Net(j, d),
           NEW d \in Days, NEW cap, Budget(j, d, cap),
           messages' = Published(j, d, cap), UNCHANGED started, j \in started
    PROVE  JobInv(j)'
<1>1. PICK n : messages' = messages \cup {Message(j, d, cap, n)}
  BY PublishedOne
<1>2. \A m \in messages' : m.job = j => m = Message(j, d, cap, n)
  BY <1>1 DEF JobInv, Single
<1>3. \A v \in Runners : ~LiveOf(v, j)'
  BY DEF JobInv, Single, LiveOf, Becomes
<1>4. Budget(j, d, cap)'
  BY DEF Budget
<1>5. \A m \in messages' : m.job = j => Budget(j, m.day, m.cap)'
  BY <1>2, <1>4, MessageIs DEF Budget
<1>6. Single(j)'
  BY <1>2, <1>3 DEF Single
<1>7. QED
  BY <1>3, <1>5, <1>6 DEF JobInv

LEMMA CountsStep ==
    ASSUME TypeInv, CountsOK, [SyncNext]_syncVars
    PROVE  /\ CountsOK' /\ started \subseteq started' /\ repeated \subseteq repeated'
           /\ \/ UNCHANGED <<fetched, excess>>
              \/ \E w \in Runners : SyncChunk(w) \/ HitSoftLimit(w)
<1>0. ASSUME UNCHANGED <<fetched, excess>> PROVE CountsOK'
  BY <1>0 DEF CountsOK
<1>1. ASSUME NEW w \in Runners, SyncChunk(w) \/ HitSoftLimit(w)
      PROVE  CountsOK' /\ UNCHANGED <<started, repeated>>
  <2>1. /\ run[w].at = "chunk" /\ UNCHANGED <<started, repeated>>
    BY <1>1 DEF SyncChunk, HitSoftLimit, jobVars
  <2>2. /\ run[w].message.job \in Jobs /\ run[w].message.day \in Days
        /\ run[w].todo \in Nat
    BY <2>1, JobDaysType DEF TypeInv, RunsOK, RunOK, RecordOK, MessageOK, JobsOK
  <2>3. CASE SyncChunk(w)
    <3>1. \E k \in Nat : Store(w, k)
      BY <2>3, ChunkMoves
    <3>2. UNCHANGED excess
      BY <2>3 DEF SyncChunk
    <3>3. QED
      BY <2>1, <2>2, <3>1, <3>2, StoreNet
  <2>4. CASE HitSoftLimit(w)
    <3>1. PICK n \in {0, Chunk(w)} : /\ Store(w, n)
              /\ excess' = [excess EXCEPT ![run[w].message.job][run[w].message.day] = @ + n]
      BY <2>4 DEF HitSoftLimit
    <3>2. n \in Nat
      BY <2>2, ChunkSize
    <3>3. QED
      BY <2>1, <2>2, <3>1, <3>2, StruckNet
  <2>5. QED
    BY <1>1, <2>1, <2>3, <2>4
<1>2. ASSUME NEW w \in Runners,
             \/ TakeMessage(w) \/ AcquireLock(w) \/ RetryLater(w) \/ SelectVideos(w)
             \/ Respawn(w) \/ ReleaseLock(w) \/ EndDay(w) \/ ContinueChain(w)
             \/ NotifyBroken(w) \/ Acknowledge(w) \/ BreakOff(w) \/ CrashWorker(w)
             \/ LockLapses(w)
      PROVE  /\ UNCHANGED <<fetched, excess, started>> /\ repeated \subseteq repeated'
  BY <1>2 DEF TakeMessage, AcquireLock, RetryLater, SelectVideos, Respawn, ReleaseLock,
              EndDay, ContinueChain, NotifyBroken, Acknowledge, BreakOff, CrashWorker,
              LockLapses, countVars, jobVars
<1>3. CASE (\E j \in Jobs : StartJob(j)) \/ AllOver \/ UNCHANGED syncVars
  BY <1>0, <1>3 DEF StartJob, AllOver, syncVars, countVars
<1>4. QED
  BY <1>0, <1>1, <1>2, <1>3 DEF SyncNext, WorkOn

\* The steps of a run of the job itself, by which it works on.
LEMMA BudgetStep ==
    ASSUME TypeInv, CountsOK, NEW j \in Jobs, JobInv(j), NEW w \in Runners, LiveOf(w, j),
           \/ AcquireLock(w) \/ SelectVideos(w) \/ SyncChunk(w) \/ HitSoftLimit(w)
           \/ BreakOff(w) \/ EndDay(w)
    PROVE  JobInv(j)'
<1>0. PICK r, e : r = run[w] /\ e = r.message.day
  OBVIOUS
<1> USE <1>0
<1>1. /\ RunsOK /\ RecordOK(r) /\ MessageOK(r.message, started) /\ r.message.job = j
      /\ RunBudget(r, j)
  BY DEF TypeInv, RunsOK, RunOK, LiveOf, Over, JobInv
<1>2. /\ e \in Days /\ e \in Nat /\ r.message.cap \in Nat /\ r.done \in Nat /\ r.todo \in Nat
      /\ j \in started /\ MaxVideos[j] \in Nat
  BY <1>1, JobDaysType, JobDaysNumbers DEF MessageOK, RecordOK
<1>3. UNCHANGED <<messages, started>>
  BY DEF AcquireLock, SelectVideos, SyncChunk, HitSoftLimit, BreakOff, EndDay, jobVars
<1>4. \A d \in Days : Net(j, d) \in Int /\ Net(j, d) <= MaxVideos[j]
  BY CountsType DEF JobInv
\* Nothing is stored, as far as the job knows.
<1>5. ASSUME NEW at, NEW todo, NEW done, Becomes(w, at, todo, done),
             \A d \in Days : Net(j, d)' = Net(j, d), RunBudget(run[w], j)'
      PROVE  JobInv(j)'
  BY <1>1, <1>2, <1>3, <1>4, <1>5, RunGoesOn
<1>6. \A more : Budget(j, e, more) /\ (\A d \in Days : Net(j, d)' = Net(j, d))
          => Budget(j, e, more)'
  BY <1>2 DEF Budget
<1>14. ASSUME UNCHANGED <<fetched, excess>>
      PROVE  \A d \in Days : Net(j, d)' = Net(j, d)
  BY <1>14 DEF Net
<1>7. CASE AcquireLock(w)
  <2>1. PICK at \in {"select", "busy"} : Becomes(w, at, r.todo, r.done)
    BY <1>1, <1>7, PlainMoves
  <2>2. \A d \in Days : Net(j, d)' = Net(j, d)
    BY <1>7, <1>14 DEF AcquireLock, countVars
  <2>3. r.at = "lock"
    BY <1>7 DEF AcquireLock
  <2>4. RunBudget(run[w], j)'
    BY <1>1, <1>6, <2>1, <2>2, <2>3 DEF RunBudget, Becomes
  <2>5. QED
    BY <1>5, <2>1, <2>2, <2>4
<1>8. CASE SelectVideos(w)
  <2>1. PICK n \in Nat : n <= r.message.cap /\ Becomes(w, "chunk", n, r.done)
    BY <1>8, ChunkMoves
  <2>2. \A d \in Days : Net(j, d)' = Net(j, d)
    BY <1>8, <1>14 DEF SelectVideos, countVars
  <2>3. r.at = "select" /\ r.done = 0
    BY <1>1, <1>8 DEF SelectVideos, RunBudget
  <2>4. Budget(j, e, r.message.cap - r.done)'
    BY <1>1, <1>6, <2>2, <2>3 DEF RunBudget
  <2>5. n + r.done <= r.message.cap
    BY <1>2, <2>1, <2>3
  <2>6. RunBudget(run[w], j)'
    BY <2>1, <2>4, <2>5 DEF RunBudget, Becomes
  <2>7. QED
    BY <1>5, <2>1, <2>2, <2>6
<1>9. CASE SyncChunk(w)
  <2>1. PICK n \in Nat, k \in Nat, at \in {"chunk", "respawn"} :
            /\ k <= n /\ n <= r.todo /\ Store(w, k)
            /\ Becomes(w, at, r.todo - n, r.done + n)
    BY <1>9, ChunkMoves
  <2>2. \A d \in Days : Net(j, d)' = IF d = e THEN Net(j, d) + k ELSE Net(j, d)
    BY <1>1, <1>2, <1>9, <2>1, StoreNet DEF SyncChunk
  <2>3. r.at = "chunk" /\ r.todo + r.done <= r.message.cap
    BY <1>1, <1>9 DEF SyncChunk, RunBudget
  <2>4. Budget(j, e, r.message.cap - r.done)
    BY <1>1, <2>3 DEF RunBudget
  <2>5. Net(j, e) \in Int /\ Net(j, e) + (r.message.cap - r.done) <= MaxVideos[j]
    BY <1>2, <1>4, <2>4 DEF Budget
  <2>6. Net(j, e) + k + (r.message.cap - (r.done + n)) <= MaxVideos[j]
    BY <1>2, <2>1, <2>5
  <2>7. \A d \in Days : d > e => Net(j, d)' <= 0
    BY <1>2, <2>2, <2>4 DEF Budget
  <2>8. Budget(j, e, r.message.cap - (r.done + n))'
    BY <1>2, <2>2, <2>6, <2>7 DEF Budget
  <2>9. (r.todo - n) + (r.done + n) <= r.message.cap /\ r.done + n <= r.message.cap
    BY <1>2, <2>1, <2>3
  <2>10. RunBudget(run[w], j)'
    BY <2>1, <2>8, <2>9 DEF RunBudget, Becomes
  <2>11. \A d \in Days : Net(j, d)' <= MaxVideos[j]
    <3>1. Net(j, e) + k <= MaxVideos[j]
      BY <1>2, <2>1, <2>5, <2>6, <2>9
    <3>2. QED
      BY <1>4, <2>2, <3>1
  <2>12. QED
    BY <1>1, <1>2, <1>3, <2>1, <2>10, <2>11, RunGoesOn
<1>10. CASE HitSoftLimit(w)
  <2>1. Becomes(w, "respawn", r.todo, r.done)
    BY <1>1, <1>10, PlainMoves
  <2>2. \A d \in Days : Net(j, d)' = Net(j, d)
    <3>1. PICK n \in {0, Chunk(w)} : /\ Store(w, n)
              /\ excess' = [excess EXCEPT ![r.message.job][r.message.day] = @ + n]
      BY <1>10 DEF HitSoftLimit
    <3>2. n \in Nat
      BY <1>2, ChunkSize
    <3>3. QED
      BY <1>1, <1>2, <3>1, <3>2, StruckNet
  <2>3. r.at = "chunk" /\ r.done <= r.message.cap
    BY <1>1, <1>2, <1>10 DEF HitSoftLimit, RunBudget
  <2>4. Budget(j, e, r.message.cap - r.done)'
    BY <1>1, <1>6, <2>2, <2>3 DEF RunBudget
  <2>5. RunBudget(run[w], j)'
    BY <2>1, <2>3, <2>4 DEF RunBudget, Becomes
  <2>6. QED
    BY <1>5, <2>1, <2>2, <2>5
<1>11. CASE BreakOff(w) \/ EndDay(w)
  <2>1. PICK at \in {"fail", "succeed"} : Becomes(w, at, 0, 0)
    BY <1>1, <1>11, PlainMoves
  <2>2. \A d \in Days : Net(j, d)' = Net(j, d)
    BY <1>11, <1>14 DEF BreakOff, EndDay, countVars
  <2>3. r.at \in {"select", "chunk"}
    BY <1>11 DEF BreakOff, EndDay
  <2>4. Budget(j, e, r.message.cap - r.done)
    BY <1>1, <2>3 DEF RunBudget
  <2>5. Budget(j, e, 0)'
    <3>1. /\ Net(j, e) + (r.message.cap - r.done) <= MaxVideos[j]
          /\ \A d \in Days : d > e => Net(j, d) <= 0
      BY <2>4 DEF Budget
    <3>2. Net(j, e) + 0 <= MaxVideos[j]
      BY <1>2, <1>4, <3>1
    <3>3. Net(j, e)' = Net(j, e)
      BY <1>2, <2>2
    <3>4. QED
      BY <2>2, <3>1, <3>2, <3>3 DEF Budget
  <2>6. RunBudget(run[w], j)'
    BY <2>1, <2>5 DEF RunBudget, Becomes
  <2>7. QED
    BY <1>5, <2>1, <2>2, <2>6
<1>12. QED
  BY <1>7, <1>8, <1>9, <1>10, <1>11

\* The messages and runs of a job that has any are about days of it.
LEMMA MessageDays ==
    ASSUME TypeInv
    PROVE  /\ \A m \in messages : m.job \in started /\ m.job \in Jobs /\ m.day \in Days
           /\ \A w \in Runners : run[w].at # "idle" =>
                  /\ run[w].message.job \in started /\ run[w].message.job \in Jobs
                  /\ run[w].message.day \in JobDays(run[w].message.job)
                  /\ run[w].message.day \in Days /\ run[w].message.day \in Nat
                  /\ run[w].message.cap \in Nat /\ run[w].done \in Nat
<1>1. \A m \in messages : MessageOK(m, started)
  BY DEF TypeInv, JobsOK
<1>2. \A w \in Runners : run[w].at # "idle" => MessageOK(run[w].message, started)
  BY DEF TypeInv, RunsOK, RunOK
<1>3. started \subseteq Jobs /\ \A w \in Runners : run[w].done \in Nat
  BY DEF TypeInv, JobsOK, RunsOK, RunOK, RecordOK
<1>4. QED
  BY <1>1, <1>2, <1>3, JobDaysType, JobDaysNumbers DEF MessageOK

\* A run that queues a message and is over.
LEMMA HandOnStep ==
    ASSUME TypeInv, CountsOK, NEW j \in Jobs, JobInv(j), NEW w \in Runners, LiveOf(w, j),
           RetryLater(w) \/ Respawn(w) \/ ContinueChain(w) \/ NotifyBroken(w)
    PROVE  JobInv(j)'
<1>0. PICK r, e, cap, done : /\ r = run[w] /\ e = r.message.day /\ cap = r.message.cap
                             /\ done = r.done
  OBVIOUS
<1> USE <1>0
<1>1. /\ r.message.job = j /\ j \in started /\ e \in JobDays(j) /\ e \in Days /\ e \in Nat
      /\ cap \in Nat /\ done \in Nat /\ MaxVideos[j] \in Nat
  BY MessageDays DEF LiveOf, Over
<1>2. RunsOK /\ RunBudget(r, j)
  BY DEF TypeInv, JobInv
<1>3. UNCHANGED <<fetched, excess, started>>
  BY DEF RetryLater, Respawn, ContinueChain, NotifyBroken, jobVars, countVars
<1>4. \A d \in Days : Net(j, d)' = Net(j, d) /\ Net(j, d) \in Int
  BY <1>3, CountsType DEF Net
<1>5. ASSUME NEW at \in Over, NEW todo, NEW k, Becomes(w, at, todo, k),
             NEW d \in Days, NEW c, Budget(j, d, c), messages' = Published(j, d, c)
      PROVE  JobInv(j)'
  BY <1>1, <1>2, <1>3, <1>4, <1>5, RunHandsOn
<1>6. ASSUME NEW at \in Over, NEW todo, NEW k, Becomes(w, at, todo, k),
             UNCHANGED messages
      PROVE  JobInv(j)'
  <2>1. \A v \in Runners : LiveOf(v, j)' => LiveOf(v, j) /\ run'[v] = run[v]
    BY <1>6 DEF LiveOf, Becomes
  <2>2. \A v \in Runners : LiveOf(v, j) => run[v].message.day \in Days
    BY MessageDays DEF LiveOf, Over
  <2>3. \A m \in messages' : m \in messages /\ m.day \in Days
    BY <1>6, MessageDays
  <2>4. started \subseteq started'
    BY <1>3
  <2>5. QED
    BY <1>4, <2>1, <2>2, <2>3, <2>4, OtherJob
<1>7. CASE RetryLater(w)
  <2>1. /\ r.at = "busy" /\ messages' = Published(j, e, cap)
    BY <1>1, <1>7 DEF RetryLater
  <2>2. Budget(j, e, cap - done) /\ done = 0
    BY <1>2, <2>1 DEF RunBudget
  <2>3. cap - done = cap
    BY <1>1, <2>2
  <2>4. Budget(j, e, cap)
    BY <2>2, <2>3
  <2>5. \E todo, k : Becomes(w, "ack", todo, k) /\ "ack" \in Over
    BY <1>2, <1>7, PlainMoves DEF Over
  <2>6. QED
    BY <1>1, <1>5, <2>1, <2>4, <2>5
<1>8. CASE Respawn(w)
  <2>1. r.at = "respawn" /\ messages' = Published(j, e, Rest(w))
    BY <1>1, <1>8 DEF Respawn
  <2>2. Budget(j, e, cap - done) /\ done <= cap
    BY <1>2, <2>1 DEF RunBudget
  <2>3. Rest(w) = cap - done
    BY <1>1, <2>2 DEF Rest
  <2>4. PICK c : c = cap - done
    OBVIOUS
  <2>5. \E todo, k : Becomes(w, "release", todo, k) /\ "release" \in Over
    BY <1>2, <1>8, PlainMoves DEF Over
  <2>6. QED
    BY <1>1, <1>5, <2>1, <2>2, <2>3, <2>4, <2>5
<1>9. CASE ContinueChain(w)
  <2>1. r.at = "succeed"
    BY <1>9 DEF ContinueChain
  <2>2. Budget(j, e, 0)
    BY <1>2, <2>1 DEF RunBudget
  <2>3. \E todo, k : Becomes(w, "ack", todo, k) /\ "ack" \in Over
    BY <1>2, <1>9, PlainMoves DEF Over
  <2>4. CASE e < Last[j]
    <3>1. messages' = Published(j, e + 1, MaxVideos[j])
      BY <1>1, <1>9, <2>4 DEF ContinueChain
    <3>2. e + 1 \in Days
      BY <1>1, <2>4, JobDaysType
    <3>3. Budget(j, e + 1, MaxVideos[j])
      <4>1. \A d \in Days : d > e => Net(j, d) <= 0
        BY <2>2 DEF Budget
      <4>2. Days \subseteq Nat
        OBVIOUS
      <4>3. Net(j, e + 1) + MaxVideos[j] <= MaxVideos[j]
        BY <1>1, <1>4, <3>2, <4>1
      <4>4. ASSUME NEW d \in Days, d > e + 1 PROVE d > e
        <5>1. d \in Nat /\ e \in Nat
          BY <1>1, <4>2
        <5>2. QED
          BY <4>4, <5>1
      <4>5. QED
        BY <4>1, <4>3, <4>4 DEF Budget
    <3>4. QED
      BY <1>5, <2>3, <3>1, <3>2, <3>3
  <2>5. CASE ~(e < Last[j])
    <3>1. UNCHANGED messages
      BY <1>1, <1>9, <2>5 DEF ContinueChain
    <3>2. QED
      BY <1>6, <2>3, <3>1
  <2>6. QED
    BY <2>4, <2>5
<1>10. CASE NotifyBroken(w)
  <2>1. \E todo, k : Becomes(w, "ack", todo, k) /\ "ack" \in Over
    BY <1>2, <1>10, PlainMoves DEF Over
  <2>2. UNCHANGED messages
    BY <1>10 DEF NotifyBroken
  <2>3. QED
    BY <1>6, <2>1, <2>2
<1>11. QED
  BY <1>7, <1>8, <1>9, <1>10

LEMMA CapStep ==
    ASSUME TypeInv, CapInv, [SyncNext]_syncVars
    PROVE  CapInv'
<1>1. /\ CountsOK /\ CountsOK' /\ started \subseteq started' /\ repeated \subseteq repeated'
      /\ \/ UNCHANGED <<fetched, excess>>
         \/ \E w \in Runners : SyncChunk(w) \/ HitSoftLimit(w)
  BY CountsStep DEF CapInv
<1> SUFFICES ASSUME NEW j \in Jobs, j \notin repeated' PROVE JobInv(j)'
  BY <1>1 DEF CapInv
<1>2. JobInv(j)
  BY <1>1 DEF CapInv
<1>3. RunsOK /\ JobsOK
  BY DEF TypeInv
\* The step concerns another job, or a run of this one that is over.
<1>4. ASSUME \A d \in Days : Net(j, d)' = Net(j, d),
             \A m \in messages' : m.job = j => m \in messages,
             \A v \in Runners : LiveOf(v, j)' => LiveOf(v, j) /\ run'[v] = run[v]
      PROVE  JobInv(j)'
  <2>1. \A m \in messages' : m.job = j => m \in messages /\ m.day \in Days
    BY <1>4, MessageDays
  <2>2. \A v \in Runners : LiveOf(v, j)' =>
            LiveOf(v, j) /\ run'[v] = run[v] /\ run[v].message.day \in Days
    BY <1>4, MessageDays DEF LiveOf, Over
  <2>3. QED
    BY <1>1, <1>2, <1>4, <2>1, <2>2, OtherJob
<1>14. ASSUME UNCHANGED <<fetched, excess>>
      PROVE  \A d \in Days : Net(j, d)' = Net(j, d)
  BY <1>14 DEF Net
<1>5. ASSUME NEW w \in Runners,
             \/ AcquireLock(w) \/ SelectVideos(w) \/ SyncChunk(w) \/ HitSoftLimit(w)
             \/ BreakOff(w) \/ EndDay(w) \/ RetryLater(w) \/ Respawn(w)
             \/ ContinueChain(w) \/ NotifyBroken(w)
      PROVE  JobInv(j)'
  <2>1. CASE LiveOf(w, j)
    BY <1>1, <1>2, <1>5, <2>1, BudgetStep, HandOnStep
  <2>2. CASE ~LiveOf(w, j)
    <3>1. run[w].at \notin Over
      BY <1>5 DEF AcquireLock, SelectVideos, SyncChunk, HitSoftLimit, BreakOff, EndDay,
                  RetryLater, Respawn, ContinueChain, NotifyBroken, Over
    <3>2. /\ run[w].message.job # j /\ run[w].message.job \in Jobs
          /\ run[w].message.day \in Days
      BY <2>2, <3>1, MessageDays DEF LiveOf, Over
    <3>3. \E at, todo, done : Becomes(w, at, todo, done)
      BY <1>3, <1>5, PlainMoves, ChunkMoves
    <3>4. \A v \in Runners : LiveOf(v, j)' => LiveOf(v, j) /\ run'[v] = run[v]
      BY <3>2, <3>3 DEF LiveOf, Becomes
    <3>5. \A m \in messages' : m.job = j => m \in messages
      <4>1. CASE UNCHANGED messages
        BY <4>1
      <4>2. CASE \E d, cap : messages' = Published(run[w].message.job, d, cap)
        BY <3>2, <4>2, PublishedOne, MessageIs
      <4>3. QED
        BY <1>5, <4>1, <4>2 DEF AcquireLock, SelectVideos, SyncChunk, HitSoftLimit,
                  BreakOff, EndDay, RetryLater, Respawn, ContinueChain, NotifyBroken
    <3>6. \A d \in Days : Net(j, d)' = Net(j, d)
      <4>1. CASE SyncChunk(w)
        <5>1. PICK k \in Nat : Store(w, k)
          BY <4>1, ChunkMoves
        <5>2. UNCHANGED excess
          BY <4>1 DEF SyncChunk
        <5>3. QED
          BY <1>1, <3>2, <5>1, <5>2, StoreNet
      <4>2. CASE HitSoftLimit(w)
        <5>1. PICK n \in {0, Chunk(w)} : /\ Store(w, n)
                  /\ excess' = [excess EXCEPT ![run[w].message.job][run[w].message.day] = @ + n]
          BY <4>2 DEF HitSoftLimit
        <5>2. run[w].todo \in Nat
          BY <1>3 DEF RunsOK, RunOK, RecordOK
        <5>3. n \in Nat
          BY <5>2, ChunkSize
        <5>4. QED
          BY <1>1, <3>2, <5>1, <5>3, StruckNet
      <4>3. QED
        BY <1>5, <1>14, <4>1, <4>2 DEF AcquireLock, SelectVideos, BreakOff, EndDay,
                  RetryLater, Respawn, ContinueChain, NotifyBroken, countVars
    <3>7. QED
      BY <1>4, <3>4, <3>5, <3>6
  <2>3. QED
    BY <2>1, <2>2
<1>6. ASSUME NEW w \in Runners, TakeMessage(w) PROVE JobInv(j)'
  <2>1. PICK m \in messages :
            /\ messages' = messages \ {m}
            /\ run' = [run EXCEPT ![w] = [Resting EXCEPT !.at = "lock", !.message = m]]
    BY <1>6 DEF TakeMessage
  <2>2. UNCHANGED <<fetched, excess, started>> /\ run[w].at = "idle"
    BY <1>6 DEF TakeMessage, jobVars, countVars
  <2>3. /\ run'[w].at = "lock" /\ run'[w].message = m /\ run'[w].done = 0
        /\ \A v \in Runners \ {w} : run'[v] = run[v]
    BY <1>3, <2>1, <2>2, TakeMoves
  <2>4. CASE m.job # j
    <3>1. \A v \in Runners : LiveOf(v, j)' => LiveOf(v, j) /\ run'[v] = run[v]
      BY <2>3, <2>4 DEF LiveOf
    <3>2. QED
      BY <1>4, <1>14, <2>1, <2>2, <3>1
  <2>5. CASE m.job = j
    <3>1. /\ \A n \in messages' : n.job # j
          /\ \A v \in Runners : LiveOf(v, j)' => v = w
      BY <1>2, <2>1, <2>3, <2>5 DEF JobInv, Single, LiveOf
    <3>2. m.cap \in Nat /\ m.day \in Days
      BY <1>3, MessageDays DEF JobsOK, MessageOK
    <3>3. Budget(j, m.day, m.cap) /\ m.cap - 0 = m.cap
      BY <1>2, <2>5, <3>2 DEF JobInv
    <3>4. \A d \in Days : Net(j, d)' = Net(j, d)
      BY <1>14, <2>2
    <3>5. Budget(j, m.day, m.cap - 0)'
      BY <3>2, <3>3, <3>4 DEF Budget
    <3>6. RunBudget(run[w], j)'
      BY <2>3, <3>5 DEF RunBudget
    <3>7. Single(j)'
      BY <3>1 DEF Single
    <3>8. j \in started'
      BY <2>2, <2>5, MessageDays
    <3>9. \A d \in Days : Net(j, d)' <= MaxVideos[j]
      BY <1>2, <3>4 DEF JobInv
    <3>10. QED
      BY <3>1, <3>6, <3>7, <3>8, <3>9 DEF JobInv
  <2>6. QED
    BY <2>4, <2>5
<1>7. ASSUME NEW w \in Runners, CrashWorker(w) PROVE JobInv(j)'
  <2>1. /\ run[w].message.job # j /\ messages' = messages \cup {run[w].message}
        /\ UNCHANGED <<fetched, excess, started>>
    BY <1>7 DEF CrashWorker, jobVars
  <2>2. run'[w].at = "idle" /\ \A v \in Runners \ {w} : run'[v] = run[v]
    BY <1>3, <1>7, <2>1, RestMoves DEF CrashWorker
  <2>3. \A v \in Runners : LiveOf(v, j)' => LiveOf(v, j) /\ run'[v] = run[v]
    BY <2>2 DEF LiveOf, Over
  <2>4. QED
    BY <1>4, <1>14, <2>1, <2>3
<1>8. ASSUME NEW w \in Runners, ReleaseLock(w) \/ Acknowledge(w) PROVE JobInv(j)'
  <2>1. /\ UNCHANGED <<messages, fetched, excess>> /\ run'[w].at \in Over
        /\ \A v \in Runners \ {w} : run'[v] = run[v]
    BY <1>8, <1>3, PlainMoves, RestMoves DEF ReleaseLock, Acknowledge, Becomes, Over,
                                             jobVars, countVars
  <2>2. \A v \in Runners : LiveOf(v, j)' => LiveOf(v, j) /\ run'[v] = run[v]
    BY <2>1 DEF LiveOf
  <2>3. QED
    BY <1>4, <1>14, <2>1, <2>2
<1>9. ASSUME NEW i \in Jobs, StartJob(i) PROVE JobInv(j)'
  <2>1. /\ i \notin started /\ started' = started \cup {i}
        /\ messages' = Published(i, First[i], MaxVideos[i])
        /\ UNCHANGED <<run, fetched, excess>>
    BY <1>9 DEF StartJob, countVars
  <2>2. PICK n : messages' = messages \cup {Message(i, First[i], MaxVideos[i], n)}
    BY <2>1, PublishedOne
  <2>3. CASE i # j
    <3>1. \A m \in messages' : m.job = j => m \in messages
      BY <2>2, <2>3, MessageIs
    <3>2. \A v \in Runners : LiveOf(v, j)' => LiveOf(v, j) /\ run'[v] = run[v]
      BY <2>1 DEF LiveOf
    <3>3. QED
      BY <1>4, <1>14, <2>1, <3>1, <3>2
  <2>4. CASE i = j
    <3>1. /\ \A m \in messages : m.job # j
          /\ \A v \in Runners : ~LiveOf(v, j)
      BY <2>1, <2>4, MessageDays DEF LiveOf, Over
    <3>2. \A m \in messages' : m.job = j => m = Message(j, First[j], MaxVideos[j], n)
      BY <2>2, <2>4, <3>1
    <3>3. \A v \in Runners : ~LiveOf(v, j)'
      BY <2>1, <3>1 DEF LiveOf
    <3>4. \A d \in Days : Net(j, d)' = Net(j, d) /\ Net(j, d) <= 0 /\ Net(j, d) \in Int
      BY <1>1, <1>2, <1>14, <2>1, <2>4, CountsType DEF JobInv
    <3>5. Budget(j, First[j], MaxVideos[j])'
      <4>1. First[j] \in Days /\ MaxVideos[j] \in Nat
        OBVIOUS
      <4>2. PICK x : x = Net(j, First[j])' /\ x \in Int /\ x <= 0
        BY <3>4, <4>1
      <4>3. x + MaxVideos[j] <= MaxVideos[j]
        BY <4>1, <4>2
      <4>4. QED
        BY <3>4, <4>2, <4>3 DEF Budget
    <3>6. \A m \in messages' : m.job = j => Budget(j, m.day, m.cap)'
      BY <3>2, <3>5, MessageIs DEF Budget
    <3>7. Single(j)'
      BY <3>2, <3>3 DEF Single
    <3>8. \A d \in Days : Net(j, d)' <= MaxVideos[j]
      BY <1>2, <3>4 DEF JobInv
    <3>9. j \in started'
      BY <2>1, <2>4
    <3>10. QED
      BY <3>3, <3>6, <3>7, <3>8, <3>9 DEF JobInv
  <2>5. QED
    BY <2>3, <2>4
<1>10. CASE (\E w \in Runners : LockLapses(w)) \/ AllOver \/ UNCHANGED syncVars
  <2>1. UNCHANGED <<run, messages, fetched, excess>>
    BY <1>10 DEF LockLapses, AllOver, syncVars, countVars
  <2>2. \A v \in Runners : LiveOf(v, j)' => LiveOf(v, j) /\ run'[v] = run[v]
    BY <2>1 DEF LiveOf
  <2>3. QED
    BY <1>4, <1>14, <2>1, <2>2
<1>11. QED
  BY <1>5, <1>6, <1>7, <1>8, <1>9, <1>10 DEF SyncNext, WorkOn

LEMMA CapInit == SyncInit => CapInv
<1> SUFFICES ASSUME SyncInit PROVE CapInv
  OBVIOUS
<1>1. /\ messages = {} /\ started = {} /\ \A w \in Runners : run[w].at = "idle"
  BY DEF SyncInit, Resting
<1>2. \A j \in Jobs, d \in Days : fetched[j][d] = 0 /\ excess[j][d] = 0
  BY DEF SyncInit
<1>3. CountsOK
  BY DEF SyncInit, CountsOK
<1>4. \A j \in Jobs, d \in Days : Net(j, d) = 0 /\ MaxVideos[j] \in Nat
  BY <1>2 DEF Net
<1>5. \A j \in Jobs, d \in Days : Net(j, d) <= 0 /\ Net(j, d) <= MaxVideos[j]
  BY <1>4
<1>6. \A j \in Jobs : JobInv(j)
  BY <1>1, <1>5 DEF JobInv, Single, LiveOf, Over
<1>7. QED
  BY <1>3, <1>6 DEF CapInv

\* However many runs a day of a job takes, with as many continuations, they
\* store no more classifications than its cap allows.  Not counted are those
\* of a chunk that the soft limit struck in, not covered jobs of which a
\* message was delivered again: there the cap can be exceeded.
THEOREM CapHolds == SyncSpec => []CapKept
<1>1. TypeInv /\ CapInv /\ [SyncNext]_syncVars => CapInv'
  BY CapStep
<1>2. CapInv => CapKept
  BY DEF CapInv, JobInv, Net, CapKept
<1>3. QED
  BY <1>1, <1>2, CapInit, TypeHolds, PTL DEF SyncSpec

HIDE DaysAssumption

-----------------------------------------------------------------------------
(****************************************************************************)
(* The figures of the pages (Figures)                                       *)
(*                                                                          *)
(* A refresh that goes on would show, if nothing were written any more, a   *)
(* figure that has moved by one at most with every write since it began:    *)
(* what was read stays, what is still to be read is counted as it is now.   *)
(****************************************************************************)

\* What a query selects a video by, the state of its donation, and its source.
Counts(d, query) ==
    /\ d \cap Origins # {}
    /\ CASE query \in {"totals", "everything"} -> TRUE
         [] query \in {"with_api_info", "api", "dated"} -> "api" \in d
         [] query \in {"api_classified", "dated_classified"} ->
                "api" \in d /\ "classified" \in d
         [] query = "scraped" -> "scraped" \in d /\ "api" \notin d
         [] query = "scraped_classified" ->
                "scraped" \in d /\ "api" \notin d /\ "classified" \in d
         [] query = "classified_only" ->
                "classified" \in d /\ "api" \notin d /\ "scraped" \notin d
StateOf(d) ==
    IF "listed" \in d THEN "datapods"
    ELSE IF "donated" \notin d THEN "none"
    ELSE IF "in_window" \in d THEN "inside" ELSE "outside"
SourceOf(d) == CHOOSE o \in Origins : o \in d

\* The videos a query counts in some states, or of a source.
Pick(f, query, states) ==
    {v \in Videos : Counts(f[v], query) /\ StateOf(f[v]) \in states}
From(f, query, origin) == {v \in Videos : Counts(f[v], query) /\ SourceOf(f[v]) = origin}

\* What a query contributes: what it found, or what it would find.
Nothing == [read |-> 0, of |-> {}, unread |-> FALSE]
Part(read, f, j, states) ==
    IF j \in 1..Len(read)
    THEN [read |-> Sum(read[j], states), of |-> {}, unread |-> FALSE]
    ELSE [read |-> 0, of |-> Pick(f, Queries[j], states), unread |-> TRUE]
PartFrom(read, f, j, origin) ==
    IF j \in 1..Len(read)
    THEN [read |-> read[j][origin], of |-> {}, unread |-> FALSE]
    ELSE [read |-> 0, of |-> From(f, Queries[j], origin), unread |-> TRUE]

\* The figure that is the first less the three others, which are parts of it
\* and are read after it.
Total(t) == t.read + Cardinality(t.of)
Shown(p, a, b, c) == Total(p) - Total(a) - Total(b) - Total(c)

PartOK(t) == t.read \in Int /\ IsFiniteSet(t.of) /\ (~t.unread => t.of = {})
PartsOK(p, a, b, c) ==
    /\ PartOK(p) /\ PartOK(a) /\ PartOK(b) /\ PartOK(c)
    /\ a.of \cap b.of = {} /\ a.of \cap c.of = {} /\ b.of \cap c.of = {}
    /\ p.unread => a.of \cup b.of \cup c.of \subseteq p.of

\* The states of the donation that make up a row of the card.
StatesOf == <<{"outside", "inside", "datapods"}, {"inside"}, {"datapods"}, {"none"},
              {"none", "outside"}>>

\* The rows of the card and of the split, n writes after the refresh began.
ApiRow(read, f, states, actual, n) ==
    /\ Near(Shown(Part(read, f, 5, states), Nothing, Nothing, Nothing), actual["classified"], n)
    /\ Near(Shown(Part(read, f, 4, states), Part(read, f, 5, states), Nothing, Nothing),
            actual["metadata_only"], n)
    /\ actual["waiting"] = 0 /\ actual["classified_without_metadata"] = 0
OtherRow(read, f, states, actual, n) ==
    /\ Near(Shown(Part(read, f, 7, states), Nothing, Nothing, Nothing), actual["classified"], n)
    /\ Near(Shown(Part(read, f, 6, states), Part(read, f, 7, states), Nothing, Nothing),
            actual["metadata_only"], n)
    /\ Near(Shown(Part(read, f, 8, states), Nothing, Nothing, Nothing),
            actual["classified_without_metadata"], n)
    /\ Near(Shown(Part(read, f, 3, states), Part(read, f, 4, states),
                  Part(read, f, 6, states), Part(read, f, 8, states)),
            actual["waiting"], n)
OriginRow(read, f, origin, actual, n) ==
    /\ Near(Shown(PartFrom(read, f, 2, origin), Nothing, Nothing, Nothing),
            actual["with_api_info"], n)
    /\ Near(Shown(PartFrom(read, f, 1, origin), PartFrom(read, f, 2, origin),
                  Nothing, Nothing),
            actual["without_api_info"], n)
\* The classified videos of a day are not more than its videos.
DatedRow(read, f, n) ==
    -n <= Shown(Part(read, f, 9, States), Part(read, f, 10, States), Nothing, Nothing)

AllFacts == [Videos -> SUBSET Facts]
ReadOK(read) ==
    /\ read \in Seq([Origins -> Nat] \cup [States -> Nat]) /\ Len(read) \in 0..10
    /\ \A j \in 1..Len(read) : read[j] \in IF j <= 2 THEN [Origins -> Nat] ELSE [States -> Nat]
TruthOK(actual) ==
    /\ \A i \in 1..5, c \in Columns : actual.priority[i][c] \in Nat
    /\ \A o \in Origins, c \in {"with_api_info", "without_api_info"} :
           actual.origin[o][c] \in Nat

RowsInv(read, f, actual, n) ==
    /\ \A i \in {1, 4} : ApiRow(read, f, StatesOf[i], actual.priority[i], n)
    /\ \A i \in {2, 3, 5} : OtherRow(read, f, StatesOf[i], actual.priority[i], n)
    /\ \A o \in Origins : OriginRow(read, f, o, actual.origin[o], n)
    /\ DatedRow(read, f, n)

RefreshInv(one, f, now) ==
    /\ one \in [computed_at : {one.computed_at}, truth : {one.truth}, read : {one.read}]
    /\ one.computed_at \in Nat /\ now - one.computed_at \in Nat
    /\ ReadOK(one.read) /\ TruthOK(one.truth)
    /\ RowsInv(one.read, f, one.truth, now - one.computed_at)

FactsInv ==
    /\ facts \in AllFacts /\ writes \in Nat
    /\ \A v \in Videos : "in_window" \in facts[v] => "donated" \in facts[v]
BoardInv ==
    /\ refresh \in [Refreshes -> {refresh[w] : w \in Refreshes}]
    /\ \A w \in Refreshes : \A one \in refresh[w] : RefreshInv(one, facts, writes)

\* A count that was read is off by the writes since.
PostedIn(f) == {v \in Videos : f[v] \cap Origins # {} /\ "api" \in f[v] /\ "author" \in f[v]}
ReadingInv(step, f, tried, now) ==
    /\ step.stage \in {"attempts", "add"} =>
           /\ step.since \in Nat /\ now - step.since \in Nat /\ step.found \in Nat
           /\ Near(step.found, Cardinality(PostedIn(f)), now - step.since)
    /\ step.stage = "add" /\ step.seen => tried
PostsInv ==
    /\ reading \in [Askers -> {reading[a] : a \in Askers}]
    /\ \A a \in Askers : ReadingInv(reading[a], facts, attempted, writes)
FiguresInv == FactsInv /\ BoardInv /\ PostsInv /\ FiguresHonest

-----------------------------------------------------------------------------
\* Sets of which one video at most has changed.
LEMMA CloseSets ==
    ASSUME NEW S, NEW T, NEW v, IsFiniteSet(S), IsFiniteSet(T), S \ {v} = T \ {v}
    PROVE  Cardinality(T) - Cardinality(S) \in -1..1
<1>1. Cardinality(S \ {v}) = IF v \in S THEN Cardinality(S) - 1 ELSE Cardinality(S)
  BY FS_RemoveElement
<1>2. Cardinality(T \ {v}) = IF v \in T THEN Cardinality(T) - 1 ELSE Cardinality(T)
  BY FS_RemoveElement
<1>3. Cardinality(S) \in Nat /\ Cardinality(T) \in Nat
  BY FS_CardinalityType
<1>4. QED
  BY <1>1, <1>2, <1>3

LEMMA LessOne ==
    ASSUME NEW A, NEW B, IsFiniteSet(A), B \subseteq A
    PROVE  IsFiniteSet(A \ B) /\ Cardinality(A \ B) = Cardinality(A) - Cardinality(B)
<1>1. /\ IsFiniteSet(A \ B)
      /\ Cardinality(A \ B) = Cardinality(A) - Cardinality(A \cap B)
  BY FS_Difference
<1>2. A \cap B = B
  OBVIOUS
<1>3. QED
  BY <1>1, <1>2

\* The videos of three groups that have none in common.
Separate(A, B, C) ==
    /\ IsFiniteSet(A) /\ IsFiniteSet(B) /\ IsFiniteSet(C)
    /\ A \cap B = {} /\ A \cap C = {} /\ B \cap C = {}

LEMMA ThreeGroups ==
    ASSUME NEW A, NEW B, NEW C, Separate(A, B, C), NEW S, S = A \cup B \cup C
    PROVE  /\ IsFiniteSet(S)
           /\ Cardinality(S) = Cardinality(A) + Cardinality(B) + Cardinality(C)
           /\ Cardinality(A) \in Nat /\ Cardinality(B) \in Nat /\ Cardinality(C) \in Nat
<1>1. /\ IsFiniteSet(A) /\ IsFiniteSet(B) /\ IsFiniteSet(C)
      /\ A \cap B = {} /\ (A \cup B) \cap C = {}
  BY DEF Separate
<1>2. /\ IsFiniteSet(A \cup B)
      /\ Cardinality(A \cup B) = Cardinality(A) + Cardinality(B) - Cardinality(A \cap B)
  BY <1>1, FS_Union
<1>3. /\ IsFiniteSet((A \cup B) \cup C)
      /\ Cardinality((A \cup B) \cup C)
             = Cardinality(A \cup B) + Cardinality(C) - Cardinality((A \cup B) \cap C)
  BY <1>1, <1>2, FS_Union
<1>4. Cardinality(A \cap B) = 0 /\ Cardinality((A \cup B) \cap C) = 0
  BY <1>1, FS_EmptySet
<1>5. Cardinality(A) \in Nat /\ Cardinality(B) \in Nat /\ Cardinality(C) \in Nat
  BY <1>1, FS_CardinalityType
<1>6. QED
  BY <1>2, <1>3, <1>4, <1>5

LEMMA TotalIsNumber ==
    ASSUME NEW t, PartOK(t)
    PROVE  Total(t) \in Int
<1>1. Cardinality(t.of) \in Nat
  BY FS_CardinalityType DEF PartOK
<1>2. QED
  BY <1>1 DEF PartOK, Total

LEMMA ShownIsNumber ==
    ASSUME NEW p, NEW a, NEW b, NEW c, PartsOK(p, a, b, c)
    PROVE  Shown(p, a, b, c) \in Int
<1>1. Total(p) \in Int /\ Total(a) \in Int /\ Total(b) \in Int /\ Total(c) \in Int
  BY TotalIsNumber DEF PartsOK
<1>2. QED
  BY <1>1 DEF Shown

-----------------------------------------------------------------------------
\* A write changes one video: a figure moves by one, however many of its parts
\* the video enters or leaves.
Moved(t, u, v) ==
    u.read = t.read /\ u.unread = t.unread /\ t.of \ {v} = u.of \ {v}

LEMMA ShownMoves ==
    ASSUME NEW v, NEW p, NEW a, NEW b, NEW c, PartsOK(p, a, b, c),
           NEW p2, NEW a2, NEW b2, NEW c2, PartsOK(p2, a2, b2, c2),
           Moved(p, p2, v), Moved(a, a2, v), Moved(b, b2, v), Moved(c, c2, v)
    PROVE  Shown(p2, a2, b2, c2) - Shown(p, a, b, c) \in -1..1
<1> DEFINE U == a.of \cup b.of \cup c.of
           U2 == a2.of \cup b2.of \cup c2.of
           rest == p.read - a.read - b.read - c.read
<1>1. /\ IsFiniteSet(U) /\ IsFiniteSet(p.of)
      /\ Cardinality(U) = Cardinality(a.of) + Cardinality(b.of) + Cardinality(c.of)
      /\ Cardinality(a.of) \in Nat /\ Cardinality(b.of) \in Nat /\ Cardinality(c.of) \in Nat
  <2>1. IsFiniteSet(p.of) /\ Separate(a.of, b.of, c.of)
    BY DEF PartsOK, PartOK, Separate
  <2>2. U = a.of \cup b.of \cup c.of
    OBVIOUS
  <2> HIDE DEF U
  <2>3. QED
    BY <2>1, <2>2, ThreeGroups
<1>2. /\ IsFiniteSet(U2) /\ IsFiniteSet(p2.of)
      /\ Cardinality(U2) = Cardinality(a2.of) + Cardinality(b2.of) + Cardinality(c2.of)
      /\ Cardinality(a2.of) \in Nat /\ Cardinality(b2.of) \in Nat /\ Cardinality(c2.of) \in Nat
  <2>1. IsFiniteSet(p2.of) /\ Separate(a2.of, b2.of, c2.of)
    BY DEF PartsOK, PartOK, Separate
  <2>2. U2 = a2.of \cup b2.of \cup c2.of
    OBVIOUS
  <2> HIDE DEF U2
  <2>3. QED
    BY <2>1, <2>2, ThreeGroups
<1>3. /\ p.read \in Int /\ a.read \in Int /\ b.read \in Int /\ c.read \in Int
      /\ p2.read = p.read /\ a2.read = a.read /\ b2.read = b.read /\ c2.read = c.read
  BY DEF PartsOK, PartOK, Moved
<1>4. /\ Cardinality(p.of) \in Nat /\ Cardinality(p2.of) \in Nat
      /\ Cardinality(U) \in Nat /\ Cardinality(U2) \in Nat
  BY <1>1, <1>2, FS_CardinalityType
<1>5. /\ Shown(p, a, b, c) = rest + (Cardinality(p.of) - Cardinality(U))
      /\ Shown(p2, a2, b2, c2) = rest + (Cardinality(p2.of) - Cardinality(U2))
      /\ rest \in Int
  BY <1>1, <1>2, <1>3, <1>4 DEF Shown, Total
<1>6. (Cardinality(p2.of) - Cardinality(U2)) - (Cardinality(p.of) - Cardinality(U)) \in -1..1
  <2>1. U \ {v} = U2 \ {v} /\ p.of \ {v} = p2.of \ {v} /\ p2.unread = p.unread
    BY DEF Moved
  <2>2. CASE p.unread
    <3>1. U \subseteq p.of /\ U2 \subseteq p2.of
      BY <2>1, <2>2 DEF PartsOK
    <3>2. /\ IsFiniteSet(p.of \ U)
          /\ Cardinality(p.of \ U) = Cardinality(p.of) - Cardinality(U)
      BY <1>1, <3>1, LessOne
    <3>3. /\ IsFiniteSet(p2.of \ U2)
          /\ Cardinality(p2.of \ U2) = Cardinality(p2.of) - Cardinality(U2)
      BY <1>2, <3>1, LessOne
    <3>4. (p.of \ U) \ {v} = (p2.of \ U2) \ {v}
      BY <2>1
    <3> HIDE DEF U, U2
    <3>5. Cardinality(p2.of \ U2) - Cardinality(p.of \ U) \in -1..1
      BY <3>2, <3>3, <3>4, CloseSets
    <3>6. QED
      BY <3>2, <3>3, <3>5
  <2>3. CASE ~p.unread
    <3>1. p.of = {} /\ p2.of = {}
      BY <2>1, <2>3 DEF PartsOK, PartOK
    <3> HIDE DEF U, U2
    <3>2. Cardinality(U2) - Cardinality(U) \in -1..1
      BY <1>1, <1>2, <2>1, CloseSets
    <3>3. QED
      BY <1>4, <3>1, <3>2
  <2>4. QED
    BY <2>2, <2>3
<1> HIDE DEF U, U2, rest
<1>7. QED
  BY <1>4, <1>5, <1>6

LEMMA NearMoves ==
    ASSUME NEW x \in Int, NEW y \in Int, NEW actual \in Int, NEW n \in Nat,
           Near(x, actual, n), y - x \in -1..1
    PROVE  Near(y, actual, n + 1)
  BY DEF Near

-----------------------------------------------------------------------------
\* The sets the queries count, and how they lie in each other.
LEMMA PickIsFinite ==
    ASSUME NEW f, NEW query, NEW states
    PROVE  /\ IsFiniteSet(Pick(f, query, states))
           /\ Cardinality(Pick(f, query, states)) \in Nat
<1>1. IsFiniteSet(Videos) /\ Pick(f, query, states) \in SUBSET Videos
  BY FiguresAssumption DEF Pick
<1>2. QED
  BY <1>1, FS_Subset, FS_CardinalityType

LEMMA FromIsFinite ==
    ASSUME NEW f, NEW query, NEW origin
    PROVE  /\ IsFiniteSet(From(f, query, origin))
           /\ Cardinality(From(f, query, origin)) \in Nat
<1>1. IsFiniteSet(Videos) /\ From(f, query, origin) \in SUBSET Videos
  BY FiguresAssumption DEF From
<1>2. QED
  BY <1>1, FS_Subset, FS_CardinalityType

LEMMA QueryNames ==
    /\ Len(Queries) = 10
    /\ Queries[1] = "totals" /\ Queries[2] = "with_api_info" /\ Queries[3] = "everything"
    /\ Queries[4] = "api" /\ Queries[5] = "api_classified" /\ Queries[6] = "scraped"
    /\ Queries[7] = "scraped_classified" /\ Queries[8] = "classified_only"
    /\ Queries[9] = "dated" /\ Queries[10] = "dated_classified"
  BY DEF Queries

LEMMA PicksNest ==
    ASSUME NEW f, NEW states
    PROVE  /\ Pick(f, Queries[5], states) \subseteq Pick(f, Queries[4], states)
           /\ Pick(f, Queries[7], states) \subseteq Pick(f, Queries[6], states)
           /\ Pick(f, Queries[10], states) \subseteq Pick(f, Queries[9], states)
           /\ Pick(f, Queries[4], states) \subseteq Pick(f, Queries[3], states)
           /\ Pick(f, Queries[6], states) \subseteq Pick(f, Queries[3], states)
           /\ Pick(f, Queries[8], states) \subseteq Pick(f, Queries[3], states)
  BY QueryNames DEF Pick, Counts

LEMMA PicksApart ==
    ASSUME NEW f, NEW states
    PROVE  /\ Pick(f, Queries[4], states) \cap Pick(f, Queries[6], states) = {}
           /\ Pick(f, Queries[4], states) \cap Pick(f, Queries[8], states) = {}
           /\ Pick(f, Queries[6], states) \cap Pick(f, Queries[8], states) = {}
  BY QueryNames DEF Pick, Counts

LEMMA FromNest ==
    ASSUME NEW f, NEW origin
    PROVE  From(f, Queries[2], origin) \subseteq From(f, Queries[1], origin)
  BY QueryNames DEF From, Counts

LEMMA SumIsNumber ==
    ASSUME NEW counts \in [States -> Nat], NEW states
    PROVE  Sum(counts, states) \in Nat
  BY DEF Sum, States

LEMMA PartFields ==
    ASSUME NEW read, ReadOK(read), NEW f, NEW states, NEW j \in 3..10
    PROVE  /\ PartOK(Part(read, f, j, states))
           /\ Part(read, f, j, states).unread <=> j > Len(read)
           /\ Part(read, f, j, states).of \subseteq Pick(f, Queries[j], states)
           /\ j > Len(read) => Part(read, f, j, states).of = Pick(f, Queries[j], states)
<1>1. Len(read) \in Nat
  BY DEF ReadOK
<1>2. CASE j \in 1..Len(read)
  <2>1. Sum(read[j], states) \in Nat
    BY <1>2, SumIsNumber DEF ReadOK
  <2>2. IsFiniteSet({})
    BY FS_EmptySet
  <2>3. QED
    BY <1>1, <1>2, <2>1, <2>2 DEF Part, PartOK
<1>3. CASE j \notin 1..Len(read)
  BY <1>1, <1>3, PickIsFinite DEF Part, PartOK
<1>4. QED
  BY <1>2, <1>3

LEMMA PartFromFields ==
    ASSUME NEW read, ReadOK(read), NEW f, NEW o \in Origins, NEW j \in 1..2
    PROVE  /\ PartOK(PartFrom(read, f, j, o))
           /\ PartFrom(read, f, j, o).unread <=> j > Len(read)
           /\ PartFrom(read, f, j, o).of \subseteq From(f, Queries[j], o)
           /\ j > Len(read) => PartFrom(read, f, j, o).of = From(f, Queries[j], o)
<1>1. Len(read) \in Nat
  BY DEF ReadOK
<1>2. CASE j \in 1..Len(read)
  <2>1. read[j][o] \in Nat
    BY <1>2 DEF ReadOK
  <2>2. IsFiniteSet({})
    BY FS_EmptySet
  <2>3. QED
    BY <1>1, <1>2, <2>1, <2>2 DEF PartFrom, PartOK
<1>3. CASE j \notin 1..Len(read)
  BY <1>1, <1>3, FromIsFinite DEF PartFrom, PartOK
<1>4. QED
  BY <1>2, <1>3

LEMMA NothingFields ==
    /\ PartOK(Nothing) /\ Nothing.of = {} /\ Nothing.read = 0 /\ Total(Nothing) = 0
  BY FS_EmptySet DEF Nothing, PartOK, Total

\* Each figure is made of parts that fit.
RowPartsOK(read, f, states) ==
    LET part(j) == Part(read, f, j, states)
    IN /\ PartsOK(part(5), Nothing, Nothing, Nothing)
       /\ PartsOK(part(7), Nothing, Nothing, Nothing)
       /\ PartsOK(part(8), Nothing, Nothing, Nothing)
       /\ PartsOK(part(4), part(5), Nothing, Nothing)
       /\ PartsOK(part(6), part(7), Nothing, Nothing)
       /\ PartsOK(part(9), part(10), Nothing, Nothing)
       /\ PartsOK(part(3), part(4), part(6), part(8))
OriginPartsOK(read, f, o) ==
    /\ PartsOK(PartFrom(read, f, 2, o), Nothing, Nothing, Nothing)
    /\ PartsOK(PartFrom(read, f, 1, o), PartFrom(read, f, 2, o), Nothing, Nothing)

LEMMA RowParts ==
    ASSUME NEW read, ReadOK(read), NEW f, NEW states
    PROVE  RowPartsOK(read, f, states)
<1> DEFINE part(j) == Part(read, f, j, states)
<1>1. \A j \in 3..10 :
          /\ PartOK(part(j))
          /\ part(j).unread <=> j > Len(read)
          /\ part(j).of \subseteq Pick(f, Queries[j], states)
          /\ j > Len(read) => part(j).of = Pick(f, Queries[j], states)
  BY PartFields
<1>2. Len(read) \in Nat
  BY DEF ReadOK
<1> HIDE DEF part
<1>3. /\ PartsOK(part(5), Nothing, Nothing, Nothing)
      /\ PartsOK(part(7), Nothing, Nothing, Nothing)
      /\ PartsOK(part(8), Nothing, Nothing, Nothing)
  BY <1>1, NothingFields DEF PartsOK
<1>4. PartsOK(part(4), part(5), Nothing, Nothing)
  BY <1>1, <1>2, PicksNest, NothingFields DEF PartsOK
<1>5. PartsOK(part(6), part(7), Nothing, Nothing)
  BY <1>1, <1>2, PicksNest, NothingFields DEF PartsOK
<1>6. PartsOK(part(9), part(10), Nothing, Nothing)
  BY <1>1, <1>2, PicksNest, NothingFields DEF PartsOK
<1>7. PartsOK(part(3), part(4), part(6), part(8))
  <2>1. /\ part(4).of \cap part(6).of = {} /\ part(4).of \cap part(8).of = {}
        /\ part(6).of \cap part(8).of = {}
    <3>1. /\ part(4).of \subseteq Pick(f, Queries[4], states)
          /\ part(6).of \subseteq Pick(f, Queries[6], states)
          /\ part(8).of \subseteq Pick(f, Queries[8], states)
      BY <1>1
    <3>2. QED
      BY <3>1, PicksApart
  <2>2. part(3).unread => part(4).of \cup part(6).of \cup part(8).of \subseteq part(3).of
    <3>1. ASSUME part(3).unread PROVE part(3).of = Pick(f, Queries[3], states)
      BY <1>1, <3>1
    <3>2. /\ part(4).of \subseteq Pick(f, Queries[3], states)
          /\ part(6).of \subseteq Pick(f, Queries[3], states)
          /\ part(8).of \subseteq Pick(f, Queries[3], states)
      BY <1>1, PicksNest
    <3>3. QED
      BY <3>1, <3>2
  <2>3. QED
    BY <1>1, <2>1, <2>2 DEF PartsOK
<1>8. QED
  BY <1>3, <1>4, <1>5, <1>6, <1>7 DEF RowPartsOK, part

LEMMA OriginParts ==
    ASSUME NEW read, ReadOK(read), NEW f, NEW o \in Origins
    PROVE  OriginPartsOK(read, f, o)
<1> DEFINE part(j) == PartFrom(read, f, j, o)
<1>1. \A j \in 1..2 :
          /\ PartOK(part(j))
          /\ part(j).unread <=> j > Len(read)
          /\ part(j).of \subseteq From(f, Queries[j], o)
          /\ j > Len(read) => part(j).of = From(f, Queries[j], o)
  BY PartFromFields
<1>2. Len(read) \in Nat
  BY DEF ReadOK
<1> HIDE DEF part
<1>3. PartsOK(part(2), Nothing, Nothing, Nothing)
  BY <1>1, NothingFields DEF PartsOK
<1>4. PartsOK(part(1), part(2), Nothing, Nothing)
  BY <1>1, <1>2, FromNest, NothingFields DEF PartsOK
<1>5. QED
  BY <1>3, <1>4 DEF OriginPartsOK, part

-----------------------------------------------------------------------------
\* One video at most is stored differently.
Differ(f, g, v) == \A u \in Videos \ {v} : g[u] = f[u]

LEMMA PartsMove ==
    ASSUME NEW f, NEW g, NEW v, Differ(f, g, v), NEW read, NEW j, NEW states, NEW origin
    PROVE  /\ Moved(Part(read, f, j, states), Part(read, g, j, states), v)
           /\ Moved(PartFrom(read, f, j, origin), PartFrom(read, g, j, origin), v)
           /\ Moved(Nothing, Nothing, v)
<1>1. Pick(f, Queries[j], states) \ {v} = Pick(g, Queries[j], states) \ {v}
  BY DEF Differ, Pick
<1>2. From(f, Queries[j], origin) \ {v} = From(g, Queries[j], origin) \ {v}
  BY DEF Differ, From
<1>3. Moved(Part(read, f, j, states), Part(read, g, j, states), v)
  BY <1>1 DEF Part, Moved
<1>4. Moved(PartFrom(read, f, j, origin), PartFrom(read, g, j, origin), v)
  BY <1>2 DEF PartFrom, Moved
<1>5. QED
  BY <1>3, <1>4 DEF Moved

LEMMA FigureMoves ==
    ASSUME NEW v, NEW p, NEW a, NEW b, NEW c, PartsOK(p, a, b, c),
           NEW p2, NEW a2, NEW b2, NEW c2, PartsOK(p2, a2, b2, c2),
           Moved(p, p2, v), Moved(a, a2, v), Moved(b, b2, v), Moved(c, c2, v),
           NEW actual \in Int, NEW n \in Nat, Near(Shown(p, a, b, c), actual, n)
    PROVE  Near(Shown(p2, a2, b2, c2), actual, n + 1)
  BY ShownIsNumber, ShownMoves, NearMoves

LEMMA RowsMove ==
    ASSUME NEW f, NEW g, NEW v, Differ(f, g, v), NEW read, ReadOK(read), NEW states,
           NEW actual, \A c \in Columns : actual[c] \in Nat, NEW n \in Nat
    PROVE  /\ ApiRow(read, f, states, actual, n) => ApiRow(read, g, states, actual, n + 1)
           /\ OtherRow(read, f, states, actual, n) => OtherRow(read, g, states, actual, n + 1)
<1> DEFINE x(j) == Part(read, f, j, states)
           y(j) == Part(read, g, j, states)
<1>1. \A j : Moved(x(j), y(j), v) /\ Moved(Nothing, Nothing, v)
  BY PartsMove
<1>2. RowPartsOK(read, f, states) /\ RowPartsOK(read, g, states)
  BY RowParts
<1>3. /\ actual["classified"] \in Int /\ actual["metadata_only"] \in Int
      /\ actual["waiting"] \in Int /\ actual["classified_without_metadata"] \in Int
  BY DEF Columns
<1>4. \A j \in {5, 7, 8}, m \in Int :
          Near(Shown(x(j), Nothing, Nothing, Nothing), m, n) =>
              Near(Shown(y(j), Nothing, Nothing, Nothing), m, n + 1)
  <2>1. \A j \in {5, 7, 8} :
            /\ PartsOK(x(j), Nothing, Nothing, Nothing)
            /\ PartsOK(y(j), Nothing, Nothing, Nothing)
    BY <1>2 DEF RowPartsOK
  <2> HIDE DEF x, y
  <2>2. QED
    BY <1>1, <2>1, FigureMoves
<1>5. \A m \in Int :
          /\ Near(Shown(x(4), x(5), Nothing, Nothing), m, n) =>
                 Near(Shown(y(4), y(5), Nothing, Nothing), m, n + 1)
          /\ Near(Shown(x(6), x(7), Nothing, Nothing), m, n) =>
                 Near(Shown(y(6), y(7), Nothing, Nothing), m, n + 1)
  <2>1. /\ PartsOK(x(4), x(5), Nothing, Nothing) /\ PartsOK(y(4), y(5), Nothing, Nothing)
        /\ PartsOK(x(6), x(7), Nothing, Nothing) /\ PartsOK(y(6), y(7), Nothing, Nothing)
    BY <1>2 DEF RowPartsOK
  <2> HIDE DEF x, y
  <2>2. QED
    BY <1>1, <2>1, FigureMoves
<1>6. \A m \in Int :
          Near(Shown(x(3), x(4), x(6), x(8)), m, n) =>
              Near(Shown(y(3), y(4), y(6), y(8)), m, n + 1)
  <2>1. PartsOK(x(3), x(4), x(6), x(8)) /\ PartsOK(y(3), y(4), y(6), y(8))
    BY <1>2 DEF RowPartsOK
  <2> HIDE DEF x, y
  <2>2. QED
    BY <1>1, <2>1, FigureMoves
<1> HIDE DEF x, y
<1>8. ASSUME Near(Shown(x(5), Nothing, Nothing, Nothing), actual["classified"], n),
             Near(Shown(x(4), x(5), Nothing, Nothing), actual["metadata_only"], n)
      PROVE  /\ Near(Shown(y(5), Nothing, Nothing, Nothing), actual["classified"], n + 1)
             /\ Near(Shown(y(4), y(5), Nothing, Nothing), actual["metadata_only"], n + 1)
  BY <1>3, <1>4, <1>5, <1>8
<1>9. ASSUME Near(Shown(x(7), Nothing, Nothing, Nothing), actual["classified"], n),
             Near(Shown(x(6), x(7), Nothing, Nothing), actual["metadata_only"], n),
             Near(Shown(x(8), Nothing, Nothing, Nothing),
                  actual["classified_without_metadata"], n),
             Near(Shown(x(3), x(4), x(6), x(8)), actual["waiting"], n)
      PROVE  /\ Near(Shown(y(7), Nothing, Nothing, Nothing), actual["classified"], n + 1)
             /\ Near(Shown(y(6), y(7), Nothing, Nothing), actual["metadata_only"], n + 1)
             /\ Near(Shown(y(8), Nothing, Nothing, Nothing),
                     actual["classified_without_metadata"], n + 1)
             /\ Near(Shown(y(3), y(4), y(6), y(8)), actual["waiting"], n + 1)
  BY <1>3, <1>4, <1>5, <1>6, <1>9
<1>10. QED
  BY <1>8, <1>9 DEF ApiRow, OtherRow, x, y

LEMMA OriginRowMoves ==
    ASSUME NEW f, NEW g, NEW v, Differ(f, g, v), NEW read, ReadOK(read),
           NEW o \in Origins, NEW actual,
           actual["with_api_info"] \in Nat, actual["without_api_info"] \in Nat, NEW n \in Nat,
           OriginRow(read, f, o, actual, n)
    PROVE  OriginRow(read, g, o, actual, n + 1)
<1> DEFINE x(j) == PartFrom(read, f, j, o)
           y(j) == PartFrom(read, g, j, o)
<1>1. \A j : Moved(x(j), y(j), v) /\ Moved(Nothing, Nothing, v)
  BY PartsMove
<1>2. OriginPartsOK(read, f, o) /\ OriginPartsOK(read, g, o)
  BY OriginParts
<1>3. /\ PartsOK(x(2), Nothing, Nothing, Nothing) /\ PartsOK(y(2), Nothing, Nothing, Nothing)
      /\ PartsOK(x(1), x(2), Nothing, Nothing) /\ PartsOK(y(1), y(2), Nothing, Nothing)
  BY <1>2 DEF OriginPartsOK
<1>4. /\ Near(Shown(x(2), Nothing, Nothing, Nothing), actual["with_api_info"], n)
      /\ Near(Shown(x(1), x(2), Nothing, Nothing), actual["without_api_info"], n)
  BY DEF OriginRow
<1>5. actual["with_api_info"] \in Int /\ actual["without_api_info"] \in Int
  OBVIOUS
<1> HIDE DEF x, y
<1>6. Near(Shown(y(2), Nothing, Nothing, Nothing), actual["with_api_info"], n + 1)
  BY <1>1, <1>3, <1>4, <1>5, FigureMoves
<1>7. Near(Shown(y(1), y(2), Nothing, Nothing), actual["without_api_info"], n + 1)
  BY <1>1, <1>3, <1>4, <1>5, FigureMoves
<1>8. QED
  BY <1>6, <1>7 DEF OriginRow, y

LEMMA DatedRowMoves ==
    ASSUME NEW f, NEW g, NEW v, Differ(f, g, v), NEW read, ReadOK(read), NEW n \in Nat,
           DatedRow(read, f, n)
    PROVE  DatedRow(read, g, n + 1)
<1> DEFINE x(j) == Part(read, f, j, States)
           y(j) == Part(read, g, j, States)
<1>1. \A j : Moved(x(j), y(j), v) /\ Moved(Nothing, Nothing, v)
  BY PartsMove
<1>2. RowPartsOK(read, f, States) /\ RowPartsOK(read, g, States)
  BY RowParts
<1>3. PartsOK(x(9), x(10), Nothing, Nothing) /\ PartsOK(y(9), y(10), Nothing, Nothing)
  BY <1>2 DEF RowPartsOK
<1>4. -n <= Shown(x(9), x(10), Nothing, Nothing)
  BY DEF DatedRow
<1> HIDE DEF x, y
<1>5. Shown(y(9), y(10), Nothing, Nothing) - Shown(x(9), x(10), Nothing, Nothing) \in -1..1
  BY <1>1, <1>3, ShownMoves
<1>6. /\ Shown(y(9), y(10), Nothing, Nothing) \in Int
      /\ Shown(x(9), x(10), Nothing, Nothing) \in Int
  BY <1>3, ShownIsNumber
<1>7. -(n + 1) <= Shown(y(9), y(10), Nothing, Nothing)
  BY <1>4, <1>5, <1>6
<1>8. QED
  BY <1>7 DEF DatedRow, y

LEMMA AllRowsMove ==
    ASSUME NEW f, NEW g, NEW v, Differ(f, g, v), NEW read, ReadOK(read),
           NEW actual, TruthOK(actual), NEW n \in Nat, RowsInv(read, f, actual, n)
    PROVE  RowsInv(read, g, actual, n + 1)
<1>1. \A i \in 1..5, c \in Columns : actual.priority[i][c] \in Nat
  BY DEF TruthOK
<1>2. ASSUME NEW i \in {1, 4}
      PROVE  ApiRow(read, g, StatesOf[i], actual.priority[i], n + 1)
  <2>1. ApiRow(read, f, StatesOf[i], actual.priority[i], n)
    BY DEF RowsInv
  <2>2. \A c \in Columns : actual.priority[i][c] \in Nat
    BY <1>1
  <2>3. QED
    BY <2>1, <2>2, RowsMove
<1>3. ASSUME NEW i \in {2, 3, 5}
      PROVE  OtherRow(read, g, StatesOf[i], actual.priority[i], n + 1)
  <2>1. OtherRow(read, f, StatesOf[i], actual.priority[i], n)
    BY DEF RowsInv
  <2>2. \A c \in Columns : actual.priority[i][c] \in Nat
    BY <1>1
  <2>3. QED
    BY <2>1, <2>2, RowsMove
<1>4. ASSUME NEW o \in Origins
      PROVE  OriginRow(read, g, o, actual.origin[o], n + 1)
  <2>1. OriginRow(read, f, o, actual.origin[o], n)
    BY DEF RowsInv
  <2>2. /\ actual.origin[o]["with_api_info"] \in Nat
        /\ actual.origin[o]["without_api_info"] \in Nat
    BY DEF TruthOK
  <2>3. QED
    BY <2>1, <2>2, OriginRowMoves
<1>5. DatedRow(read, g, n + 1)
  BY DatedRowMoves DEF RowsInv
<1>6. QED
  BY <1>2, <1>3, <1>4, <1>5 DEF RowsInv

-----------------------------------------------------------------------------
\* What a query finds is what it would have found: the figures stay.
Answer(f, j, count) ==
    IF j <= 2
    THEN /\ count \in [Origins -> Nat]
         /\ \A o \in Origins : count[o] = Cardinality(From(f, Queries[j], o))
    ELSE /\ count \in [States -> Nat]
         /\ \A states \in SUBSET States :
                Sum(count, states) = Cardinality(Pick(f, Queries[j], states))

LEMMA ReadMore ==
    ASSUME NEW read, ReadOK(read), Len(read) < 10, NEW f, NEW count,
           Answer(f, Len(read) + 1, count)
    PROVE  /\ ReadOK(Append(read, count))
           /\ Len(Append(read, count)) = Len(read) + 1
           /\ \A j \in 1..Len(read) : Append(read, count)[j] = read[j]
           /\ Append(read, count)[Len(read) + 1] = count
<1> DEFINE K == [Origins -> Nat] \cup [States -> Nat]
<1>1. Len(read) \in Nat /\ read \in Seq(K)
  BY DEF ReadOK
<1>2. count \in IF Len(read) + 1 <= 2 THEN [Origins -> Nat] ELSE [States -> Nat]
  BY DEF Answer
<1>3. count \in K
  BY <1>2
<1>4. \A j \in 1..Len(read) :
          read[j] \in IF j <= 2 THEN [Origins -> Nat] ELSE [States -> Nat]
  BY DEF ReadOK
<1> HIDE DEF K
<1>5. /\ Append(read, count) \in Seq(K)
      /\ Len(Append(read, count)) = Len(read) + 1
      /\ \A j \in 1..Len(read) : Append(read, count)[j] = read[j]
      /\ Append(read, count)[Len(read) + 1] = count
  BY <1>1, <1>3
<1>6. \A j \in 1..Len(read) + 1 :
          Append(read, count)[j] \in IF j <= 2 THEN [Origins -> Nat] ELSE [States -> Nat]
  <2>1. TAKE j \in 1..Len(read) + 1
  <2>2. CASE j = Len(read) + 1
    BY <1>2, <1>5, <2>2
  <2>3. CASE j # Len(read) + 1
    <3>1. j \in 1..Len(read)
      BY <1>1, <2>3
    <3>2. QED
      BY <1>4, <1>5, <3>1
  <2>4. QED
    BY <2>2, <2>3
<1>7. Len(read) + 1 \in 0..10
  BY <1>1
<1>8. QED
  BY <1>5, <1>6, <1>7 DEF ReadOK, K

LEMMA PartAsked ==
    ASSUME NEW read, ReadOK(read), Len(read) < 10, NEW f, NEW count,
           Answer(f, Len(read) + 1, count),
           NEW j \in 3..10, NEW states \in SUBSET States
    PROVE  Total(Part(Append(read, count), f, j, states)) = Total(Part(read, f, j, states))
<1> DEFINE more == Append(read, count)
<1>1. /\ ReadOK(more) /\ Len(more) = Len(read) + 1 /\ Len(read) \in Nat
      /\ \A k \in 1..Len(read) : more[k] = read[k]
      /\ more[Len(read) + 1] = count
  <2>1. Len(read) \in Nat
    BY DEF ReadOK
  <2>2. QED
    BY <2>1, ReadMore
<1> HIDE DEF more
<1>2. CASE j < Len(read) + 1
  <2>1. j \in 1..Len(read) /\ j \in 1..Len(more)
    BY <1>1, <1>2
  <2>2. QED
    BY <1>1, <2>1 DEF Part, more
<1>3. CASE j = Len(read) + 1
  <2>1. j \notin 1..Len(read) /\ j \in 1..Len(more)
    BY <1>1, <1>3
  <2>2. Sum(count, states) = Cardinality(Pick(f, Queries[j], states))
    BY <1>3 DEF Answer
  <2>3. Cardinality(Pick(f, Queries[j], states)) \in Nat
    BY PickIsFinite
  <2>4. Cardinality({}) = 0
    BY FS_EmptySet
  <2>5. /\ Total(Part(more, f, j, states)) = Sum(count, states) + Cardinality({})
        /\ Total(Part(read, f, j, states)) = 0 + Cardinality(Pick(f, Queries[j], states))
    BY <1>1, <1>3, <2>1 DEF Part, Total
  <2>6. QED
    BY <2>2, <2>3, <2>4, <2>5 DEF more
<1>4. CASE j > Len(read) + 1
  <2>1. j \notin 1..Len(read) /\ j \notin 1..Len(more)
    BY <1>1, <1>4
  <2>2. QED
    BY <2>1 DEF Part, more
<1>5. QED
  BY <1>1, <1>2, <1>3, <1>4

LEMMA PartFromAsked ==
    ASSUME NEW read, ReadOK(read), Len(read) < 10, NEW f, NEW count,
           Answer(f, Len(read) + 1, count), NEW j \in 1..2, NEW o \in Origins
    PROVE  Total(PartFrom(Append(read, count), f, j, o)) = Total(PartFrom(read, f, j, o))
<1> DEFINE more == Append(read, count)
<1>1. /\ ReadOK(more) /\ Len(more) = Len(read) + 1 /\ Len(read) \in Nat
      /\ \A k \in 1..Len(read) : more[k] = read[k]
      /\ more[Len(read) + 1] = count
  <2>1. Len(read) \in Nat
    BY DEF ReadOK
  <2>2. QED
    BY <2>1, ReadMore
<1> HIDE DEF more
<1>2. CASE j < Len(read) + 1
  <2>1. j \in 1..Len(read) /\ j \in 1..Len(more)
    BY <1>1, <1>2
  <2>2. QED
    BY <1>1, <2>1 DEF PartFrom, more
<1>3. CASE j = Len(read) + 1
  <2>1. j \notin 1..Len(read) /\ j \in 1..Len(more)
    BY <1>1, <1>3
  <2>2. count[o] = Cardinality(From(f, Queries[j], o))
    BY <1>3 DEF Answer
  <2>3. Cardinality(From(f, Queries[j], o)) \in Nat
    BY FromIsFinite
  <2>4. Cardinality({}) = 0
    BY FS_EmptySet
  <2>5. /\ Total(PartFrom(more, f, j, o)) = count[o] + Cardinality({})
        /\ Total(PartFrom(read, f, j, o)) = 0 + Cardinality(From(f, Queries[j], o))
    BY <1>1, <1>3, <2>1 DEF PartFrom, Total
  <2>6. QED
    BY <2>2, <2>3, <2>4, <2>5 DEF more
<1>4. CASE j > Len(read) + 1
  <2>1. j \notin 1..Len(read) /\ j \notin 1..Len(more)
    BY <1>1, <1>4
  <2>2. QED
    BY <2>1 DEF PartFrom, more
<1>5. QED
  BY <1>1, <1>2, <1>3, <1>4

LEMMA AllRowsAsked ==
    ASSUME NEW read, ReadOK(read), Len(read) < 10, NEW f, NEW count,
           Answer(f, Len(read) + 1, count), NEW actual, NEW n, RowsInv(read, f, actual, n)
    PROVE  RowsInv(Append(read, count), f, actual, n)
<1> DEFINE more == Append(read, count)
<1>1. \A i \in 1..5 : StatesOf[i] \in SUBSET States
  BY DEF StatesOf, States
<1>2. \A j \in 3..10, states \in SUBSET States :
          Total(Part(more, f, j, states)) = Total(Part(read, f, j, states))
  BY PartAsked
<1>3. \A j \in 1..2, o \in Origins :
          Total(PartFrom(more, f, j, o)) = Total(PartFrom(read, f, j, o))
  BY PartFromAsked
<1> HIDE DEF more
<1>4. ASSUME NEW i \in {1, 4}
      PROVE  ApiRow(more, f, StatesOf[i], actual.priority[i], n)
  <2>1. ApiRow(read, f, StatesOf[i], actual.priority[i], n)
    BY DEF RowsInv
  <2>2. StatesOf[i] \in SUBSET States
    BY <1>1
  <2>3. QED
    BY <1>2, <2>1, <2>2 DEF ApiRow, Shown
<1>5. ASSUME NEW i \in {2, 3, 5}
      PROVE  OtherRow(more, f, StatesOf[i], actual.priority[i], n)
  <2>1. OtherRow(read, f, StatesOf[i], actual.priority[i], n)
    BY DEF RowsInv
  <2>2. StatesOf[i] \in SUBSET States
    BY <1>1
  <2>3. QED
    BY <1>2, <2>1, <2>2 DEF OtherRow, Shown
<1>6. ASSUME NEW o \in Origins
      PROVE  OriginRow(more, f, o, actual.origin[o], n)
  <2>1. OriginRow(read, f, o, actual.origin[o], n)
    BY DEF RowsInv
  <2>2. QED
    BY <1>3, <2>1 DEF OriginRow, Shown
<1>7. DatedRow(more, f, n)
  <2>1. DatedRow(read, f, n)
    BY DEF RowsInv
  <2>2. QED
    BY <1>2, <2>1 DEF DatedRow, Shown
<1>8. QED
  BY <1>4, <1>5, <1>6, <1>7 DEF RowsInv, more

-----------------------------------------------------------------------------
\* What the queries find.
LEMMA SelectedIs ==
    ASSUME NEW j \in 1..10
    PROVE  /\ Selected(Queries[j]) = {v \in Videos : Counts(facts[v], Queries[j])}
           /\ Queries[j] \in ByOrigin <=> j <= 2
<1>1. \/ j = 1 \/ j = 2 \/ j = 3 \/ j = 4 \/ j = 5
      \/ j = 6 \/ j = 7 \/ j = 8 \/ j = 9 \/ j = 10
  OBVIOUS
<1>2. Selected(Queries[j]) = {v \in Videos : Counts(facts[v], Queries[j])}
  <2>1. CASE j \in {1, 2, 3, 4, 9}
    BY <2>1, QueryNames DEF Selected, Known, With, Counts
  <2>2. CASE j \in {5, 10}
    BY <2>2, QueryNames DEF Selected, Known, With, Counts
  <2>3. CASE j \in {6, 7}
    BY <2>3, QueryNames DEF Selected, Known, With, Counts
  <2>4. CASE j = 8
    BY <2>4, QueryNames DEF Selected, Known, With, Counts
  <2>5. QED
    BY <1>1, <2>1, <2>2, <2>3, <2>4
<1>3. Queries[j] \in ByOrigin <=> j <= 2
  BY <1>1, QueryNames DEF ByOrigin
<1>4. QED
  BY <1>2, <1>3

LEMMA FourGroups ==
    ASSUME NEW A, NEW B, NEW C, NEW D, Separate(A, B, C), IsFiniteSet(D),
           (A \cup B \cup C) \cap D = {}, NEW S, S = A \cup B \cup C \cup D
    PROVE  Cardinality(S) = Cardinality(A) + Cardinality(B) + Cardinality(C) + Cardinality(D)
<1> DEFINE T == A \cup B \cup C
<1>1. /\ IsFiniteSet(T)
      /\ Cardinality(T) = Cardinality(A) + Cardinality(B) + Cardinality(C)
      /\ Cardinality(A) \in Nat /\ Cardinality(B) \in Nat /\ Cardinality(C) \in Nat
  BY ThreeGroups
<1>2. S = T \cup D /\ T \cap D = {}
  OBVIOUS
<1> HIDE DEF T
<1>3. Cardinality(T \cup D) = Cardinality(T) + Cardinality(D) - Cardinality(T \cap D)
  BY <1>1, FS_Union
<1>4. Cardinality(T \cap D) = 0 /\ Cardinality(D) \in Nat
  BY <1>2, FS_EmptySet, FS_CardinalityType
<1>5. Cardinality(S) = Cardinality(T \cup D)
  BY <1>2, Zenon
<1>6. QED
  BY <1>1, <1>3, <1>4, <1>5

LEMMA SumOfStates ==
    ASSUME NEW f, NEW query, NEW count \in [States -> Nat], NEW states \in SUBSET States,
           \A s \in States : count[s] = Cardinality(Pick(f, query, {s}))
    PROVE  Sum(count, states) = Cardinality(Pick(f, query, states))
<1> DEFINE group(s) == IF s \in states THEN Pick(f, query, {s}) ELSE {}
           part(s) == IF s \in states THEN count[s] ELSE 0
<1>1. \A s \in States : IsFiniteSet(group(s)) /\ Cardinality(group(s)) = part(s)
  BY PickIsFinite, FS_EmptySet
<1>2. \A s, t : s # t => group(s) \cap group(t) = {}
  BY DEF Pick
<1>3. Pick(f, query, states) =
          group("datapods") \cup group("none") \cup group("outside") \cup group("inside")
  BY DEF Pick, States
<1>4. Sum(count, states) = part("datapods") + part("none") + part("outside") + part("inside")
  BY DEF Sum
<1> HIDE DEF group, part
<1>5. (group("datapods") \cup group("none") \cup group("outside")) \cap group("inside") = {}
  BY <1>2
<1>6. /\ group("datapods") \cap group("none") = {} /\ group("datapods") \cap group("outside") = {}
      /\ group("none") \cap group("outside") = {}
  BY <1>2
<1>7. /\ "datapods" \in States /\ "none" \in States
      /\ "outside" \in States /\ "inside" \in States
  BY DEF States
<1>8. Cardinality(Pick(f, query, states)) =
          Cardinality(group("datapods")) + Cardinality(group("none"))
              + Cardinality(group("outside")) + Cardinality(group("inside"))
  <2>1. /\ Separate(group("datapods"), group("none"), group("outside"))
        /\ IsFiniteSet(group("inside"))
    BY <1>1, <1>6, <1>7 DEF Separate
  <2>2. QED
    BY <1>3, <1>5, <2>1, FourGroups
<1>9. QED
  BY <1>1, <1>4, <1>7, <1>8

LEMMA CountedAnswers ==
    ASSUME NEW j \in 1..10
    PROVE  Answer(facts, j, Counted(Queries[j]))
<1> DEFINE query == Queries[j]
<1>1. /\ Selected(query) = {v \in Videos : Counts(facts[v], query)}
      /\ query \in ByOrigin <=> j <= 2
  BY SelectedIs
<1>2. \A v : OriginOf(v) = SourceOf(facts[v]) /\ DonationState(v) = StateOf(facts[v])
  BY DEF OriginOf, SourceOf, DonationState, StateOf
<1> HIDE DEF query
<1>3. CASE j <= 2
  <2>1. Counted(query) = [o \in Origins |-> Cardinality({v \in Selected(query) : OriginOf(v) = o})]
    BY <1>1, <1>3 DEF Counted
  <2>2. \A o \in Origins : {v \in Selected(query) : OriginOf(v) = o} = From(facts, query, o)
    BY <1>1, <1>2 DEF From
  <2>3. Counted(query) = [o \in Origins |-> Cardinality(From(facts, query, o))]
    BY <2>1, <2>2
  <2>4. \A o \in Origins : Cardinality(From(facts, query, o)) \in Nat
    BY FromIsFinite
  <2>5. QED
    BY <1>3, <2>3, <2>4 DEF Answer, query
<1>4. CASE ~(j <= 2)
  <2>1. Counted(query) =
            [s \in States |-> Cardinality({v \in Selected(query) : DonationState(v) = s})]
    BY <1>1, <1>4 DEF Counted
  <2>2. \A s \in States :
            {v \in Selected(query) : DonationState(v) = s} = Pick(facts, query, {s})
    BY <1>1, <1>2 DEF Pick
  <2>3. Counted(query) = [s \in States |-> Cardinality(Pick(facts, query, {s}))]
    BY <2>1, <2>2
  <2>4. \A s \in States : Cardinality(Pick(facts, query, {s})) \in Nat
    BY PickIsFinite
  <2>5. /\ Counted(query) \in [States -> Nat]
        /\ \A s \in States : Counted(query)[s] = Cardinality(Pick(facts, query, {s}))
    BY <2>3, <2>4
  <2>6. \A states \in SUBSET States :
            Sum(Counted(query), states) = Cardinality(Pick(facts, query, states))
    BY <2>5, SumOfStates
  <2>7. QED
    BY <1>4, <2>5, <2>6 DEF Answer, query
<1>5. QED
  BY <1>3, <1>4

-----------------------------------------------------------------------------
\* The beginning of a refresh: the figures are those of the rules.
Cell(i, c) == {v \in Known : RowOf(v) = i /\ ColumnOf(v) = c}

LEMMA CellsFinite ==
    ASSUME NEW S, S \subseteq Known
    PROVE  IsFiniteSet(S) /\ Cardinality(S) \in Nat
<1>1. IsFiniteSet(Videos)
  BY FiguresAssumption
<1>2. S \in SUBSET Videos
  BY DEF Known
<1>3. IsFiniteSet(S)
  BY <1>1, <1>2, FS_Subset
<1>4. QED
  BY <1>3, FS_CardinalityType

\* The rows of the card by the facts.
LEMMA RowIs ==
    ASSUME FactsInv, NEW v \in Videos
    PROVE  /\ "api" \in facts[v] =>
                  /\ RowOf(v) \in {1, 4}
                  /\ \A i \in {1, 4} : RowOf(v) = i <=> StateOf(facts[v]) \in StatesOf[i]
           /\ "api" \notin facts[v] =>
                  /\ RowOf(v) \in {2, 3, 5}
                  /\ \A i \in {2, 3, 5} : RowOf(v) = i <=> StateOf(facts[v]) \in StatesOf[i]
<1> DEFINE donated == facts[v] \cap {"donated", "listed"} # {}
<1>1. "in_window" \in facts[v] => "donated" \in facts[v]
  BY DEF FactsInv
<1>2. /\ StatesOf[1] = {"outside", "inside", "datapods"} /\ StatesOf[2] = {"inside"}
      /\ StatesOf[3] = {"datapods"} /\ StatesOf[4] = {"none"}
      /\ StatesOf[5] = {"none", "outside"}
  BY DEF StatesOf
<1>3. donated <=> "donated" \in facts[v] \/ "listed" \in facts[v]
  OBVIOUS
<1>4. RowOf(v) = CASE donated /\ "api" \in facts[v] -> 1
                   [] "listed" \in facts[v] /\ ~("api" \in facts[v]) -> 3
                   [] "in_window" \in facts[v] /\ ~("api" \in facts[v])
                          /\ "listed" \notin facts[v] -> 2
                   [] ~donated /\ "api" \in facts[v] -> 4
                   [] OTHER -> 5
  BY DEF RowOf
<1> HIDE DEF donated
<1>5. CASE "api" \in facts[v]
  <2>1. RowOf(v) = IF donated THEN 1 ELSE 4
    BY <1>4, <1>5
  <2>2. donated <=> StateOf(facts[v]) \in {"outside", "inside", "datapods"}
    BY <1>3 DEF StateOf
  <2>3. ~donated <=> StateOf(facts[v]) \in {"none"}
    BY <1>3 DEF StateOf
  <2>4. QED
    BY <1>2, <1>5, <2>1, <2>2, <2>3
<1>6. CASE "api" \notin facts[v]
  <2>1. RowOf(v) = IF "listed" \in facts[v] THEN 3
                   ELSE IF "in_window" \in facts[v] THEN 2 ELSE 5
    BY <1>4, <1>6
  <2>2. "listed" \in facts[v] <=> StateOf(facts[v]) \in {"datapods"}
    BY DEF StateOf
  <2>3. "listed" \notin facts[v] /\ "in_window" \in facts[v]
            <=> StateOf(facts[v]) \in {"inside"}
    BY <1>1 DEF StateOf
  <2>4. "listed" \notin facts[v] /\ "in_window" \notin facts[v]
            <=> StateOf(facts[v]) \in {"none", "outside"}
    BY <1>1 DEF StateOf
  <2>5. QED
    BY <1>2, <1>6, <2>1, <2>2, <2>3, <2>4
<1>7. QED
  BY <1>5, <1>6

LEMMA ColumnIs ==
    ASSUME NEW v
    PROVE  LET metadata == "api" \in facts[v] \/ "scraped" \in facts[v]
               classified == "classified" \in facts[v]
           IN /\ ColumnOf(v) = "classified" <=> metadata /\ classified
              /\ ColumnOf(v) = "metadata_only" <=> metadata /\ ~classified
              /\ ColumnOf(v) = "classified_without_metadata" <=> ~metadata /\ classified
              /\ ColumnOf(v) = "waiting" <=> ~metadata /\ ~classified
<1>1. facts[v] \cap {"api", "scraped"} # {} <=> "api" \in facts[v] \/ "scraped" \in facts[v]
  OBVIOUS
<1>2. QED
  BY <1>1 DEF ColumnOf

LEMMA CellIs ==
    ASSUME NEW i, NEW c, NEW v \in Videos
    PROVE  v \in Cell(i, c) <=> facts[v] \cap Origins # {} /\ RowOf(v) = i /\ ColumnOf(v) = c
  BY DEF Cell, Known

LEMMA ApiCells ==
    ASSUME FactsInv, NEW i \in {1, 4}
    PROVE  /\ Pick(facts, Queries[5], StatesOf[i]) = Cell(i, "classified")
           /\ Pick(facts, Queries[4], StatesOf[i]) \ Pick(facts, Queries[5], StatesOf[i])
                  = Cell(i, "metadata_only")
           /\ Cell(i, "waiting") = {} /\ Cell(i, "classified_without_metadata") = {}
<1> DEFINE states == StatesOf[i]
<1>1. \A c : Cell(i, c) \subseteq Videos
  BY DEF Cell, Known
<1>2. /\ Pick(facts, Queries[4], states) \subseteq Videos
      /\ Pick(facts, Queries[5], states) \subseteq Videos
  BY DEF Pick
<1>3. ASSUME NEW v \in Videos
      PROVE  /\ v \in Pick(facts, Queries[5], states) <=> v \in Cell(i, "classified")
             /\ v \in Pick(facts, Queries[4], states) \ Pick(facts, Queries[5], states)
                    <=> v \in Cell(i, "metadata_only")
             /\ v \notin Cell(i, "waiting") /\ v \notin Cell(i, "classified_without_metadata")
  <2>1. v \in Pick(facts, Queries[5], states) <=>
            /\ facts[v] \cap Origins # {} /\ "api" \in facts[v] /\ "classified" \in facts[v]
            /\ StateOf(facts[v]) \in states
    BY QueryNames DEF Pick, Counts
  <2>2. v \in Pick(facts, Queries[4], states) <=>
            facts[v] \cap Origins # {} /\ "api" \in facts[v] /\ StateOf(facts[v]) \in states
    BY QueryNames DEF Pick, Counts
  <2>3. RowOf(v) = i <=> "api" \in facts[v] /\ StateOf(facts[v]) \in states
    BY RowIs
  <2> HIDE DEF states
  <2>4. QED
    BY <2>1, <2>2, <2>3, CellIs, ColumnIs
<1> HIDE DEF states
<1>4. QED
  BY <1>1, <1>2, <1>3 DEF states

LEMMA OtherCells ==
    ASSUME FactsInv, NEW i \in {2, 3, 5}
    PROVE  LET pick(j) == Pick(facts, Queries[j], StatesOf[i])
           IN /\ pick(7) = Cell(i, "classified")
              /\ pick(6) \ pick(7) = Cell(i, "metadata_only")
              /\ pick(8) = Cell(i, "classified_without_metadata")
              /\ pick(3) \ (pick(4) \cup pick(6) \cup pick(8)) = Cell(i, "waiting")
<1> DEFINE states == StatesOf[i]
           pick(j) == Pick(facts, Queries[j], states)
<1>1. \A c : Cell(i, c) \subseteq Videos
  BY DEF Cell, Known
<1>2. \A j : pick(j) \subseteq Videos
  BY DEF Pick
<1>3. ASSUME NEW v \in Videos
      PROVE  /\ v \in pick(7) <=> v \in Cell(i, "classified")
             /\ v \in pick(6) \ pick(7) <=> v \in Cell(i, "metadata_only")
             /\ v \in pick(8) <=> v \in Cell(i, "classified_without_metadata")
             /\ v \in pick(3) \ (pick(4) \cup pick(6) \cup pick(8)) <=> v \in Cell(i, "waiting")
  <2> DEFINE known == facts[v] \cap Origins # {}
  <2>1. /\ v \in pick(3) <=> known /\ StateOf(facts[v]) \in states
        /\ v \in pick(4) <=> known /\ "api" \in facts[v] /\ StateOf(facts[v]) \in states
    BY QueryNames DEF Pick, Counts
  <2>2. /\ v \in pick(6) <=>
               /\ known /\ "scraped" \in facts[v] /\ "api" \notin facts[v]
               /\ StateOf(facts[v]) \in states
        /\ v \in pick(7) <=>
               /\ known /\ "scraped" \in facts[v] /\ "api" \notin facts[v]
               /\ "classified" \in facts[v] /\ StateOf(facts[v]) \in states
    BY QueryNames DEF Pick, Counts
  <2>3. v \in pick(8) <=>
            /\ known /\ "classified" \in facts[v]
            /\ "api" \notin facts[v] /\ "scraped" \notin facts[v]
            /\ StateOf(facts[v]) \in states
    BY QueryNames DEF Pick, Counts
  <2>4. RowOf(v) = i <=> "api" \notin facts[v] /\ StateOf(facts[v]) \in states
    BY RowIs
  <2>5. \A c : v \in Cell(i, c) <=> known /\ RowOf(v) = i /\ ColumnOf(v) = c
    BY CellIs
  <2> HIDE DEF states, pick, known
  <2>6. QED
    BY <2>1, <2>2, <2>3, <2>4, <2>5, ColumnIs
<1> HIDE DEF pick
<1>4. /\ pick(7) = Cell(i, "classified")
      /\ pick(6) \ pick(7) = Cell(i, "metadata_only")
      /\ pick(8) = Cell(i, "classified_without_metadata")
      /\ pick(3) \ (pick(4) \cup pick(6) \cup pick(8)) = Cell(i, "waiting")
  BY <1>1, <1>2, <1>3
<1>5. QED
  BY <1>4 DEF pick, states

LEMMA OriginCells ==
    ASSUME NEW o
    PROVE  /\ From(facts, Queries[2], o) = {v \in With("api") : OriginOf(v) = o}
           /\ From(facts, Queries[1], o) \ From(facts, Queries[2], o)
                  = {v \in Known \ With("api") : OriginOf(v) = o}
<1>1. \A v : OriginOf(v) = SourceOf(facts[v])
  BY DEF OriginOf, SourceOf
<1>2. From(facts, Queries[2], o) = {v \in With("api") : SourceOf(facts[v]) = o}
  BY QueryNames DEF From, Counts, With, Known
<1>3. From(facts, Queries[1], o) \ From(facts, Queries[2], o)
          = {v \in Known \ With("api") : SourceOf(facts[v]) = o}
  BY QueryNames DEF From, Counts, With, Known
<1>4. QED
  BY <1>1, <1>2, <1>3

LEMMA TruthIs ==
    /\ \A i \in 1..5, c \in Columns : Truth.priority[i][c] = Cardinality(Cell(i, c))
    /\ \A o \in Origins :
           /\ Truth.origin[o]["with_api_info"]
                  = Cardinality({v \in With("api") : OriginOf(v) = o})
           /\ Truth.origin[o]["without_api_info"]
                  = Cardinality({v \in Known \ With("api") : OriginOf(v) = o})
    /\ TruthOK(Truth)
<1>1. \A i \in 1..5, c \in Columns : Truth.priority[i][c] = Cardinality(Cell(i, c))
  BY DEF Truth, Cell
<1>2. \A o \in Origins :
          /\ Truth.origin[o]["with_api_info"]
                 = Cardinality({v \in With("api") : OriginOf(v) = o})
          /\ Truth.origin[o]["without_api_info"]
                 = Cardinality({v \in Known \ With("api") : OriginOf(v) = o})
  BY DEF Truth
<1>3. /\ \A i, c : Cell(i, c) \subseteq Known
      /\ \A o : /\ {v \in With("api") : OriginOf(v) = o} \subseteq Known
                /\ {v \in Known \ With("api") : OriginOf(v) = o} \subseteq Known
  BY DEF Cell, With
<1>4. \A i \in 1..5, c \in Columns : Truth.priority[i][c] \in Nat
  BY <1>1, <1>3, CellsFinite
<1>5. \A o \in Origins : /\ Truth.origin[o]["with_api_info"] \in Nat
                         /\ Truth.origin[o]["without_api_info"] \in Nat
  BY <1>2, <1>3, CellsFinite
<1>6. QED
  BY <1>1, <1>2, <1>4, <1>5 DEF TruthOK

\* Nothing is read yet.
LEMMA PartBefore ==
    ASSUME NEW f, NEW j \in 1..10, NEW states
    PROVE  Total(Part(<<>>, f, j, states)) = Cardinality(Pick(f, Queries[j], states))
<1>1. Cardinality(Pick(f, Queries[j], states)) \in Nat
  BY PickIsFinite
<1>2. j \notin 1..Len(<<>>)
  OBVIOUS
<1>3. Total(Part(<<>>, f, j, states)) = 0 + Cardinality(Pick(f, Queries[j], states))
  BY <1>2 DEF Part, Total
<1>4. QED
  BY <1>1, <1>3

LEMMA PartFromBefore ==
    ASSUME NEW f, NEW j \in 1..10, NEW origin
    PROVE  Total(PartFrom(<<>>, f, j, origin)) = Cardinality(From(f, Queries[j], origin))
<1>1. Cardinality(From(f, Queries[j], origin)) \in Nat
  BY FromIsFinite
<1>2. j \notin 1..Len(<<>>)
  OBVIOUS
<1>3. Total(PartFrom(<<>>, f, j, origin)) = 0 + Cardinality(From(f, Queries[j], origin))
  BY <1>2 DEF PartFrom, Total
<1>4. QED
  BY <1>1, <1>3

LEMMA LessThree ==
    ASSUME NEW A, NEW B, NEW C, NEW D, IsFiniteSet(A), B \subseteq A, C \subseteq A, D \subseteq A,
           B \cap C = {}, B \cap D = {}, C \cap D = {}
    PROVE  Cardinality(A) - Cardinality(B) - Cardinality(C) - Cardinality(D)
               = Cardinality(A \ (B \cup C \cup D))
<1> DEFINE S == B \cup C \cup D
<1>1. Separate(B, C, D) /\ S \subseteq A
  <2>1. B \in SUBSET A /\ C \in SUBSET A /\ D \in SUBSET A
    OBVIOUS
  <2>2. QED
    BY <2>1, FS_Subset DEF Separate
<1>2. /\ Cardinality(S) = Cardinality(B) + Cardinality(C) + Cardinality(D)
      /\ Cardinality(B) \in Nat /\ Cardinality(C) \in Nat /\ Cardinality(D) \in Nat
  BY <1>1, ThreeGroups
<1> HIDE DEF S
<1>3. Cardinality(A \ S) = Cardinality(A) - Cardinality(S)
  BY <1>1, LessOne
<1>4. Cardinality(A) \in Nat
  BY FS_CardinalityType
<1>5. QED
  BY <1>2, <1>3, <1>4 DEF S

LEMMA NearItself ==
    ASSUME NEW x \in Nat
    PROVE  Near(x, x, 0)
  BY DEF Near

LEMMA RowsBegin ==
    ASSUME FactsInv
    PROVE  RowsInv(<<>>, facts, Truth, 0)
<1>1. \A j \in 1..10 : \A states :
          /\ Total(Part(<<>>, facts, j, states)) = Cardinality(Pick(facts, Queries[j], states))
          /\ Cardinality(Pick(facts, Queries[j], states)) \in Nat
          /\ IsFiniteSet(Pick(facts, Queries[j], states))
  BY PartBefore, PickIsFinite
<1>2. \A j \in 1..10 : \A o :
          /\ Total(PartFrom(<<>>, facts, j, o)) = Cardinality(From(facts, Queries[j], o))
          /\ Cardinality(From(facts, Queries[j], o)) \in Nat
  BY PartFromBefore, FromIsFinite
<1>3. Total(Nothing) = 0
  BY NothingFields
<1>4. ASSUME NEW i \in {1, 4}
      PROVE  ApiRow(<<>>, facts, StatesOf[i], Truth.priority[i], 0)
  <2> DEFINE pick(j) == Pick(facts, Queries[j], StatesOf[i])
  <2>1. /\ Shown(Part(<<>>, facts, 5, StatesOf[i]), Nothing, Nothing, Nothing)
               = Cardinality(pick(5))
        /\ Shown(Part(<<>>, facts, 4, StatesOf[i]), Part(<<>>, facts, 5, StatesOf[i]),
                 Nothing, Nothing) = Cardinality(pick(4)) - Cardinality(pick(5))
    BY <1>1, <1>3 DEF Shown
  <2>2. Cardinality(pick(4)) - Cardinality(pick(5)) = Cardinality(pick(4) \ pick(5))
    BY PickIsFinite, PicksNest, LessOne
  <2>3. /\ pick(5) = Cell(i, "classified") /\ pick(4) \ pick(5) = Cell(i, "metadata_only")
        /\ Cell(i, "waiting") = {} /\ Cell(i, "classified_without_metadata") = {}
    BY ApiCells
  <2>4. \A c \in Columns : /\ Truth.priority[i][c] = Cardinality(Cell(i, c))
                           /\ Truth.priority[i][c] \in Nat
    BY TruthIs DEF TruthOK
  <2>5. Cardinality({}) = 0
    BY FS_EmptySet
  <2> HIDE DEF pick
  <2>6. /\ "classified" \in Columns /\ "metadata_only" \in Columns
        /\ "waiting" \in Columns /\ "classified_without_metadata" \in Columns
    BY DEF Columns
  <2>7. /\ Near(Cardinality(pick(5)), Truth.priority[i]["classified"], 0)
        /\ Near(Cardinality(pick(4) \ pick(5)), Truth.priority[i]["metadata_only"], 0)
        /\ Truth.priority[i]["waiting"] = 0
        /\ Truth.priority[i]["classified_without_metadata"] = 0
    BY <2>3, <2>4, <2>5, <2>6, NearItself
  <2>8. QED
    BY <2>1, <2>2, <2>7 DEF ApiRow
<1>5. ASSUME NEW i \in {2, 3, 5}
      PROVE  OtherRow(<<>>, facts, StatesOf[i], Truth.priority[i], 0)
  <2> DEFINE pick(j) == Pick(facts, Queries[j], StatesOf[i])
             part(j) == Part(<<>>, facts, j, StatesOf[i])
  <2>1. /\ Shown(part(7), Nothing, Nothing, Nothing) = Cardinality(pick(7))
        /\ Shown(part(8), Nothing, Nothing, Nothing) = Cardinality(pick(8))
        /\ Shown(part(6), part(7), Nothing, Nothing) = Cardinality(pick(6)) - Cardinality(pick(7))
        /\ Shown(part(3), part(4), part(6), part(8)) =
               Cardinality(pick(3)) - Cardinality(pick(4)) - Cardinality(pick(6))
                   - Cardinality(pick(8))
    <3>1. /\ Total(part(3)) = Cardinality(pick(3)) /\ Cardinality(pick(3)) \in Nat
          /\ Total(part(4)) = Cardinality(pick(4)) /\ Cardinality(pick(4)) \in Nat
          /\ Total(part(6)) = Cardinality(pick(6)) /\ Cardinality(pick(6)) \in Nat
          /\ Total(part(7)) = Cardinality(pick(7)) /\ Cardinality(pick(7)) \in Nat
          /\ Total(part(8)) = Cardinality(pick(8)) /\ Cardinality(pick(8)) \in Nat
      BY <1>1
    <3> HIDE DEF pick, part
    <3>2. QED
      BY <1>3, <3>1 DEF Shown
  <2>2. /\ Cardinality(pick(6)) - Cardinality(pick(7)) = Cardinality(pick(6) \ pick(7))
        /\ Cardinality(pick(3)) - Cardinality(pick(4)) - Cardinality(pick(6))
               - Cardinality(pick(8))
               = Cardinality(pick(3) \ (pick(4) \cup pick(6) \cup pick(8)))
    <3>1. /\ pick(7) \subseteq pick(6) /\ pick(4) \subseteq pick(3)
          /\ pick(6) \subseteq pick(3) /\ pick(8) \subseteq pick(3)
          /\ pick(4) \cap pick(6) = {} /\ pick(4) \cap pick(8) = {}
          /\ pick(6) \cap pick(8) = {}
      BY PicksNest, PicksApart
    <3>2. IsFiniteSet(pick(3)) /\ IsFiniteSet(pick(6))
      BY <1>1
    <3> HIDE DEF pick
    <3>3. QED
      BY <3>1, <3>2, LessOne, LessThree
  <2>3. /\ pick(7) = Cell(i, "classified") /\ pick(6) \ pick(7) = Cell(i, "metadata_only")
        /\ pick(8) = Cell(i, "classified_without_metadata")
        /\ pick(3) \ (pick(4) \cup pick(6) \cup pick(8)) = Cell(i, "waiting")
    BY OtherCells
  <2>4. \A c \in Columns : /\ Truth.priority[i][c] = Cardinality(Cell(i, c))
                           /\ Truth.priority[i][c] \in Nat
    BY TruthIs DEF TruthOK
  <2> HIDE DEF pick, part
  <2>5. /\ "classified" \in Columns /\ "metadata_only" \in Columns
        /\ "waiting" \in Columns /\ "classified_without_metadata" \in Columns
    BY DEF Columns
  <2>6. /\ Near(Cardinality(pick(7)), Truth.priority[i]["classified"], 0)
        /\ Near(Cardinality(pick(6) \ pick(7)), Truth.priority[i]["metadata_only"], 0)
        /\ Near(Cardinality(pick(8)), Truth.priority[i]["classified_without_metadata"], 0)
        /\ Near(Cardinality(pick(3) \ (pick(4) \cup pick(6) \cup pick(8))),
                Truth.priority[i]["waiting"], 0)
    BY <2>3, <2>4, <2>5, NearItself
  <2>7. QED
    BY <2>1, <2>2, <2>6 DEF OtherRow, part
<1>6. ASSUME NEW o \in Origins
      PROVE  OriginRow(<<>>, facts, o, Truth.origin[o], 0)
  <2> DEFINE of(j) == From(facts, Queries[j], o)
             part(j) == PartFrom(<<>>, facts, j, o)
  <2>1. /\ Shown(part(2), Nothing, Nothing, Nothing) = Cardinality(of(2))
        /\ Shown(part(1), part(2), Nothing, Nothing) = Cardinality(of(1)) - Cardinality(of(2))
    BY <1>2, <1>3 DEF Shown
  <2>2. Cardinality(of(1)) - Cardinality(of(2)) = Cardinality(of(1) \ of(2))
    BY FromIsFinite, FromNest, LessOne
  <2>3. /\ Truth.origin[o]["with_api_info"] = Cardinality(of(2))
        /\ Truth.origin[o]["without_api_info"] = Cardinality(of(1) \ of(2))
        /\ Truth.origin[o]["with_api_info"] \in Nat
        /\ Truth.origin[o]["without_api_info"] \in Nat
    BY TruthIs, OriginCells DEF TruthOK
  <2> HIDE DEF of, part
  <2>4. /\ Near(Cardinality(of(2)), Truth.origin[o]["with_api_info"], 0)
        /\ Near(Cardinality(of(1) \ of(2)), Truth.origin[o]["without_api_info"], 0)
    BY <2>3, NearItself
  <2>5. QED
    BY <2>1, <2>2, <2>4 DEF OriginRow, part
<1>7. DatedRow(<<>>, facts, 0)
  <2> DEFINE pick(j) == Pick(facts, Queries[j], States)
             part(j) == Part(<<>>, facts, j, States)
  <2>1. Shown(part(9), part(10), Nothing, Nothing) = Cardinality(pick(9)) - Cardinality(pick(10))
    BY <1>1, <1>3 DEF Shown
  <2>2. Cardinality(pick(10)) <= Cardinality(pick(9))
    <3>1. pick(10) \in SUBSET pick(9)
      BY PicksNest
    <3>2. IsFiniteSet(pick(9))
      BY <1>1
    <3>3. QED
      BY <3>1, <3>2, FS_Subset
  <2>3. Cardinality(pick(9)) \in Nat /\ Cardinality(pick(10)) \in Nat
    BY <1>1
  <2> HIDE DEF pick, part
  <2>4. -0 <= Shown(part(9), part(10), Nothing, Nothing)
    BY <2>1, <2>2, <2>3
  <2>5. QED
    BY <2>4 DEF DatedRow, part
<1>8. QED
  BY <1>4, <1>5, <1>6, <1>7 DEF RowsInv

-----------------------------------------------------------------------------
\* When all is read, what would be shown is what is shown.
LEMMA TotalsAfter ==
    ASSUME NEW read, ReadOK(read), Len(read) = 10, NEW f
    PROVE  /\ \A j \in 3..10 : \A states :
                  /\ Total(Part(read, f, j, states)) = Sum(read[j], states)
                  /\ Sum(read[j], states) \in Nat
           /\ \A j \in 1..2, o \in Origins :
                  /\ Total(PartFrom(read, f, j, o)) = read[j][o]
                  /\ read[j][o] \in Nat
<1>1. Cardinality({}) = 0
  BY FS_EmptySet
<1>2. ASSUME NEW j \in 3..10, NEW states
      PROVE  /\ Total(Part(read, f, j, states)) = Sum(read[j], states)
             /\ Sum(read[j], states) \in Nat
  <2>1. j \in 1..Len(read) /\ ~(j <= 2)
    OBVIOUS
  <2>2. Sum(read[j], states) \in Nat
    BY <2>1, SumIsNumber DEF ReadOK
  <2>3. Total(Part(read, f, j, states)) = Sum(read[j], states) + Cardinality({})
    BY <2>1 DEF Part, Total
  <2>4. QED
    BY <1>1, <2>2, <2>3
<1>3. ASSUME NEW j \in 1..2, NEW o \in Origins
      PROVE  Total(PartFrom(read, f, j, o)) = read[j][o] /\ read[j][o] \in Nat
  <2>1. j \in 1..Len(read) /\ j <= 2
    OBVIOUS
  <2>2. read[j][o] \in Nat
    BY <2>1 DEF ReadOK
  <2>3. Total(PartFrom(read, f, j, o)) = read[j][o] + Cardinality({})
    BY <2>1 DEF PartFrom, Total
  <2>4. QED
    BY <1>1, <2>2, <2>3
<1>4. QED
  BY <1>2, <1>3

\* The results by the names of their queries.
ByName(read) ==
    [q \in {Queries[i] : i \in 1..Len(Queries)} |->
        read[CHOOSE i \in 1..Len(Queries) : Queries[i] = q]]

LEMMA Named ==
    ASSUME NEW read, NEW j \in 1..10
    PROVE  ByName(read)[Queries[j]] = read[j]
<1>1. \A i \in 1..10 : Queries[i] = Queries[j] => i = j
  <2>1. \A i \in 1..10 : \/ i = 1 \/ i = 2 \/ i = 3 \/ i = 4 \/ i = 5
                         \/ i = 6 \/ i = 7 \/ i = 8 \/ i = 9 \/ i = 10
    OBVIOUS
  <2>2. QED
    BY <2>1, QueryNames
<1>2. (CHOOSE i \in 1..10 : Queries[i] = Queries[j]) = j
  BY <1>1
<1>3. Len(Queries) = 10
  BY QueryNames
<1>4. QED
  BY <1>2, <1>3 DEF ByName

RowNear(row, actual, n) == \A c \in Columns : Near(row[c], actual[c], n)

LEMMA ApiRowShown ==
    ASSUME NEW read, ReadOK(read), Len(read) = 10, NEW f, NEW states, NEW actual,
           NEW n \in Nat, ApiRow(read, f, states, actual, n)
    PROVE  RowNear(WithApiInfos(ByName(read), states), actual, n)
<1> DEFINE got == ByName(read)
           sum(j) == Sum(read[j], states)
<1>1. got["api"] = read[4] /\ got["api_classified"] = read[5]
  BY Named, QueryNames
<1>2. /\ Total(Part(read, f, 4, states)) = sum(4) /\ sum(4) \in Nat
      /\ Total(Part(read, f, 5, states)) = sum(5) /\ sum(5) \in Nat
  BY TotalsAfter
<1>3. Total(Nothing) = 0
  BY NothingFields
<1> HIDE DEF got, sum
<1>4. /\ Shown(Part(read, f, 5, states), Nothing, Nothing, Nothing) = sum(5)
      /\ Shown(Part(read, f, 4, states), Part(read, f, 5, states), Nothing, Nothing)
             = sum(4) - sum(5)
  BY <1>2, <1>3 DEF Shown
<1>5. /\ Near(sum(5), actual["classified"], n) /\ Near(sum(4) - sum(5), actual["metadata_only"], n)
      /\ actual["waiting"] = 0 /\ actual["classified_without_metadata"] = 0
  BY <1>4 DEF ApiRow
<1>6. Near(0, 0, n)
  BY DEF Near
<1>7. WithApiInfos(got, states) =
          [classified |-> sum(5), metadata_only |-> sum(4) - sum(5), waiting |-> 0,
           classified_without_metadata |-> 0]
  BY <1>1 DEF WithApiInfos, sum
<1>8. QED
  BY <1>5, <1>6, <1>7 DEF RowNear, Columns, got

LEMMA OtherRowShown ==
    ASSUME NEW read, ReadOK(read), Len(read) = 10, NEW f, NEW states, NEW actual,
           NEW n \in Nat, OtherRow(read, f, states, actual, n)
    PROVE  RowNear(WithoutApiInfos(ByName(read), states), actual, n)
<1> DEFINE got == ByName(read)
           sum(j) == Sum(read[j], states)
           part(j) == Part(read, f, j, states)
<1>1. /\ got["everything"] = read[3] /\ got["api"] = read[4] /\ got["scraped"] = read[6]
      /\ got["scraped_classified"] = read[7] /\ got["classified_only"] = read[8]
  BY Named, QueryNames
<1>2. \A j \in 3..10 : Total(part(j)) = sum(j) /\ sum(j) \in Nat
  BY TotalsAfter
<1>3. Total(Nothing) = 0
  BY NothingFields
<1>4. /\ Near(Shown(part(7), Nothing, Nothing, Nothing), actual["classified"], n)
      /\ Near(Shown(part(6), part(7), Nothing, Nothing), actual["metadata_only"], n)
      /\ Near(Shown(part(8), Nothing, Nothing, Nothing),
              actual["classified_without_metadata"], n)
      /\ Near(Shown(part(3), part(4), part(6), part(8)), actual["waiting"], n)
  BY DEF OtherRow
<1>5. WithoutApiInfos(got, states) =
          [classified |-> sum(7), metadata_only |-> sum(6) - sum(7),
           waiting |-> sum(3) - sum(4) - sum(6) - sum(8),
           classified_without_metadata |-> sum(8)]
  BY <1>1 DEF WithoutApiInfos, sum
<1> HIDE DEF got, sum, part
<1>6. /\ Shown(part(7), Nothing, Nothing, Nothing) = sum(7)
      /\ Shown(part(8), Nothing, Nothing, Nothing) = sum(8)
      /\ Shown(part(6), part(7), Nothing, Nothing) = sum(6) - sum(7)
      /\ Shown(part(3), part(4), part(6), part(8)) = sum(3) - sum(4) - sum(6) - sum(8)
  BY <1>2, <1>3 DEF Shown
<1>7. QED
  BY <1>4, <1>5, <1>6 DEF RowNear, Columns, got

LEMMA OriginRowShown ==
    ASSUME NEW read, ReadOK(read), Len(read) = 10, NEW f, NEW o \in Origins, NEW actual,
           NEW n \in Nat, OriginRow(read, f, o, actual, n)
    PROVE  \A c \in {"with_api_info", "without_api_info"} :
               Near(OriginCounts(ByName(read))[o][c], actual[c], n)
<1> DEFINE got == ByName(read)
<1>1. got["totals"] = read[1] /\ got["with_api_info"] = read[2]
  BY Named, QueryNames
<1>2. /\ Total(PartFrom(read, f, 1, o)) = read[1][o] /\ read[1][o] \in Nat
      /\ Total(PartFrom(read, f, 2, o)) = read[2][o] /\ read[2][o] \in Nat
  BY TotalsAfter
<1>3. Total(Nothing) = 0
  BY NothingFields
<1> HIDE DEF got
<1>4. /\ Shown(PartFrom(read, f, 2, o), Nothing, Nothing, Nothing) = read[2][o]
      /\ Shown(PartFrom(read, f, 1, o), PartFrom(read, f, 2, o), Nothing, Nothing)
             = read[1][o] - read[2][o]
  BY <1>2, <1>3 DEF Shown
<1>5. OriginCounts(got)[o] = [with_api_info |-> read[2][o],
                              without_api_info |-> read[1][o] - read[2][o]]
  BY <1>1 DEF OriginCounts
<1>6. /\ Near(read[2][o], actual["with_api_info"], n)
      /\ Near(read[1][o] - read[2][o], actual["without_api_info"], n)
  BY <1>4 DEF OriginRow
<1>7. QED
  BY <1>5, <1>6 DEF got

LEMMA DatedRowShown ==
    ASSUME NEW read, ReadOK(read), Len(read) = 10, NEW f, NEW n \in Nat, DatedRow(read, f, n)
    PROVE  ClassificationCounts(ByName(read)).classified
               <= ClassificationCounts(ByName(read)).total + n
<1> DEFINE got == ByName(read)
           sum(j) == Sum(read[j], States)
<1>1. got["dated"] = read[9] /\ got["dated_classified"] = read[10]
  BY Named, QueryNames
<1>2. /\ Total(Part(read, f, 9, States)) = sum(9) /\ sum(9) \in Nat
      /\ Total(Part(read, f, 10, States)) = sum(10) /\ sum(10) \in Nat
  BY TotalsAfter
<1>3. Total(Nothing) = 0
  BY NothingFields
<1>4. ClassificationCounts(got) = [total |-> sum(9), classified |-> sum(10)]
  BY <1>1 DEF ClassificationCounts
<1> HIDE DEF got, sum
<1>5. Shown(Part(read, f, 9, States), Part(read, f, 10, States), Nothing, Nothing)
          = sum(9) - sum(10)
  BY <1>2, <1>3 DEF Shown
<1>6. sum(10) <= sum(9) + n
  BY <1>2, <1>5 DEF DatedRow
<1>7. QED
  BY <1>4, <1>6 DEF got

\* What one snapshot promises.
Honest(s) ==
    /\ \A i \in 1..5, c \in Columns :
           Near(s.priority_counts[i][c], s.truth.priority[i][c], s.during)
    /\ \A o \in Origins, c \in {"with_api_info", "without_api_info"} :
           Near(s.origin_counts[o][c], s.truth.origin[o][c], s.during)
    /\ s.classification.classified <= s.classification.total + s.during

LEMMA RowsShown ==
    ASSUME NEW read, ReadOK(read), Len(read) = 10, NEW f, NEW actual, NEW n \in Nat,
           RowsInv(read, f, actual, n), NEW s,
           s = [priority_counts |-> PriorityCounts(ByName(read)),
                origin_counts |-> OriginCounts(ByName(read)),
                classification |-> ClassificationCounts(ByName(read)),
                truth |-> actual, during |-> n]
    PROVE  Honest(s)
<1> DEFINE got == ByName(read)
<1>1. /\ PriorityCounts(got)[1] = WithApiInfos(got, StatesOf[1])
      /\ PriorityCounts(got)[2] = WithoutApiInfos(got, StatesOf[2])
      /\ PriorityCounts(got)[3] = WithoutApiInfos(got, StatesOf[3])
      /\ PriorityCounts(got)[4] = WithApiInfos(got, StatesOf[4])
      /\ PriorityCounts(got)[5] = WithoutApiInfos(got, StatesOf[5])
  <2> HIDE DEF got
  <2>1. QED
    BY DEF PriorityCounts, StatesOf
<1>2. \A i \in {1, 4} : RowNear(WithApiInfos(got, StatesOf[i]), actual.priority[i], n)
  BY ApiRowShown DEF RowsInv
<1>3. \A i \in {2, 3, 5} : RowNear(WithoutApiInfos(got, StatesOf[i]), actual.priority[i], n)
  BY OtherRowShown DEF RowsInv
<1>4. \A o \in Origins, c \in {"with_api_info", "without_api_info"} :
          Near(OriginCounts(got)[o][c], actual.origin[o][c], n)
  BY OriginRowShown DEF RowsInv
<1>5. ClassificationCounts(got).classified <= ClassificationCounts(got).total + n
  BY DatedRowShown DEF RowsInv
<1> HIDE DEF got
<1>6. \A i \in 1..5 : RowNear(PriorityCounts(got)[i], actual.priority[i], n)
  <2>1. \A i \in 1..5 : i = 1 \/ i = 2 \/ i = 3 \/ i = 4 \/ i = 5
    OBVIOUS
  <2>2. /\ RowNear(PriorityCounts(got)[1], actual.priority[1], n)
        /\ RowNear(PriorityCounts(got)[2], actual.priority[2], n)
        /\ RowNear(PriorityCounts(got)[3], actual.priority[3], n)
        /\ RowNear(PriorityCounts(got)[4], actual.priority[4], n)
        /\ RowNear(PriorityCounts(got)[5], actual.priority[5], n)
    BY <1>1, <1>2, <1>3
  <2>3. QED
    BY <2>1, <2>2
<1>7. /\ s.priority_counts = PriorityCounts(got) /\ s.origin_counts = OriginCounts(got)
      /\ s.classification = ClassificationCounts(got) /\ s.truth = actual /\ s.during = n
  BY DEF got
<1>8. \A i \in 1..5, c \in Columns : Near(s.priority_counts[i][c], s.truth.priority[i][c], s.during)
  BY <1>6, <1>7 DEF RowNear
<1>9. QED
  BY <1>4, <1>5, <1>7, <1>8 DEF Honest

-----------------------------------------------------------------------------
(* The steps.                                                               *)

LEMMA SnapshotsAre == SnapshotHonest <=> \A s \in snapshot : Honest(s)
  BY DEF SnapshotHonest, Honest

\* What others write moves each figure by one.
LEMMA RefreshMoves ==
    ASSUME NEW f, NEW g, NEW v, Differ(f, g, v), NEW one, NEW now \in Nat,
           RefreshInv(one, f, now)
    PROVE  RefreshInv(one, g, now + 1)
<1>1. /\ one.computed_at \in Nat /\ now - one.computed_at \in Nat
      /\ ReadOK(one.read) /\ TruthOK(one.truth)
      /\ RowsInv(one.read, f, one.truth, now - one.computed_at)
  BY DEF RefreshInv
<1>2. RowsInv(one.read, g, one.truth, (now - one.computed_at) + 1)
  BY <1>1, AllRowsMove
<1>3. /\ (now + 1) - one.computed_at = (now - one.computed_at) + 1
      /\ (now + 1) - one.computed_at \in Nat
  BY <1>1
<1>4. RowsInv(one.read, g, one.truth, (now + 1) - one.computed_at)
  BY <1>2, <1>3
<1>5. QED
  BY <1>1, <1>3, <1>4 DEF RefreshInv

LEMMA ReadingMoves ==
    ASSUME NEW f, NEW g, NEW v, Differ(f, g, v), NEW step, NEW now \in Nat,
           NEW tried, NEW tried2, tried => tried2,
           ReadingInv(step, f, tried, now)
    PROVE  ReadingInv(step, g, tried2, now + 1)
<1>1. PostedIn(f) \ {v} = PostedIn(g) \ {v}
  BY DEF Differ, PostedIn
<1>2. IsFiniteSet(PostedIn(f)) /\ IsFiniteSet(PostedIn(g))
  <2>1. IsFiniteSet(Videos) /\ PostedIn(f) \in SUBSET Videos /\ PostedIn(g) \in SUBSET Videos
    BY FiguresAssumption DEF PostedIn
  <2>2. QED
    BY <2>1, FS_Subset
<1>3. /\ Cardinality(PostedIn(g)) - Cardinality(PostedIn(f)) \in -1..1
      /\ Cardinality(PostedIn(f)) \in Nat /\ Cardinality(PostedIn(g)) \in Nat
  BY <1>1, <1>2, CloseSets, FS_CardinalityType
<1>4. ASSUME step.stage \in {"attempts", "add"}
      PROVE  /\ step.since \in Nat /\ (now + 1) - step.since \in Nat /\ step.found \in Nat
             /\ Near(step.found, Cardinality(PostedIn(g)), (now + 1) - step.since)
  <2>1. /\ step.since \in Nat /\ now - step.since \in Nat /\ step.found \in Nat
        /\ Near(step.found, Cardinality(PostedIn(f)), now - step.since)
    BY <1>4 DEF ReadingInv
  <2>2. QED
    BY <1>3, <2>1 DEF Near
<1>5. step.stage = "add" /\ step.seen => tried2
  BY DEF ReadingInv
<1>6. QED
  BY <1>4, <1>5 DEF ReadingInv

LEMMA WriteKeeps ==
    ASSUME FiguresInv, FactsInv', NEW v, Differ(facts, facts', v), writes' = writes + 1,
           attempted => attempted', UNCHANGED <<figuresBoard, figuresPublic>>
    PROVE  FiguresInv'
<1>1. UNCHANGED <<refresh, snapshot, reading, posts, image>>
  BY DEF figuresBoard, figuresPublic
<1>2. writes \in Nat
  BY DEF FiguresInv, FactsInv
<1>3. ASSUME NEW w \in Refreshes, NEW one \in refresh[w]
      PROVE  RefreshInv(one, facts', writes')
  <2>1. RefreshInv(one, facts, writes)
    BY DEF FiguresInv, BoardInv
  <2>2. QED
    BY <1>2, <2>1, RefreshMoves
<1>4. BoardInv'
  <2>1. refresh \in [Refreshes -> {refresh[w] : w \in Refreshes}]
    BY DEF FiguresInv, BoardInv
  <2>2. QED
    BY <1>1, <1>3, <2>1 DEF BoardInv
<1>5. ASSUME NEW a \in Askers
      PROVE  ReadingInv(reading[a], facts', attempted', writes')
  <2>1. ReadingInv(reading[a], facts, attempted, writes)
    BY DEF FiguresInv, PostsInv
  <2>2. QED
    BY <1>2, <2>1, ReadingMoves
<1>6. PostsInv'
  <2>1. reading \in [Askers -> {reading[a] : a \in Askers}]
    BY DEF FiguresInv, PostsInv
  <2>2. QED
    BY <1>1, <1>5, <2>1 DEF PostsInv
<1>7. FiguresHonest'
  BY <1>1 DEF FiguresInv, FiguresHonest, SnapshotHonest, PostsHonest
<1>8. QED
  BY <1>4, <1>6, <1>7 DEF FiguresInv

\* The writes, and what they leave actual of the facts.
LEMMA WritesKeep ==
    ASSUME FiguresInv, DatabaseNext
    PROVE  FiguresInv'
<1>1. /\ facts \in AllFacts /\ writes \in Nat
      /\ \A u \in Videos : "in_window" \in facts[u] => "donated" \in facts[u]
  BY DEF FiguresInv, FactsInv
<1>2. UNCHANGED <<figuresBoard, figuresPublic>>
  BY DEF DatabaseNext
<1>3. ASSUME NEW v \in Videos, NEW new \in SUBSET Facts,
             facts' = [facts EXCEPT ![v] = new], writes' = writes + 1,
             "in_window" \in new => "donated" \in new, attempted' = attempted
      PROVE  FiguresInv'
  <2>1. /\ facts' \in AllFacts /\ facts'[v] = new
        /\ \A u \in Videos \ {v} : facts'[u] = facts[u]
    BY <1>1, <1>3 DEF AllFacts
  <2>2. \A u \in Videos : "in_window" \in facts'[u] => "donated" \in facts'[u]
    BY <1>1, <1>3, <2>1
  <2>3. FactsInv'
    BY <1>1, <1>3, <2>1, <2>2 DEF FactsInv
  <2>4. Differ(facts, facts', v)
    BY <2>1 DEF Differ
  <2>5. QED
    BY <1>2, <1>3, <2>3, <2>4, WriteKeeps
<1>4. CASE \E v \in Videos, o \in Origins : Register(v, o)
  <2>1. PICK v \in Videos, o \in Origins : Register(v, o)
    BY <1>4
  <2> DEFINE new == facts[v] \cup ({o} \cup IF o = "research_api" THEN {"author"} ELSE {})
  <2>2. /\ facts' = [facts EXCEPT ![v] = new] /\ writes' = writes + 1 /\ attempted' = attempted
    BY <2>1 DEF Register, Written, Stored
  <2>3. facts[v] \subseteq Facts
    BY <1>1 DEF AllFacts
  <2>4. new \in SUBSET Facts
    BY <2>3 DEF Facts
  <2>5. "in_window" \in new => "donated" \in new
    BY <1>1 DEF Origins
  <2> HIDE DEF new
  <2>6. QED
    BY <1>3, <2>2, <2>4, <2>5
<1>5. CASE \E v \in Videos, fact \in Facts : Learn(v, fact)
  <2>1. PICK v \in Videos, fact \in Facts : Learn(v, fact)
    BY <1>5
  <2> DEFINE new == facts[v] \cup ({fact} \cup IF fact = "scraped" THEN {"author"} ELSE {})
  <2>2. /\ facts' = [facts EXCEPT ![v] = new] /\ writes' = writes + 1 /\ attempted' = attempted
        /\ fact = "in_window" => "donated" \in facts[v]
    BY <2>1 DEF Learn, Written, Stored
  <2>3. facts[v] \subseteq Facts
    BY <1>1 DEF AllFacts
  <2>4. new \in SUBSET Facts
    BY <2>3 DEF Facts
  <2>5. "in_window" \in new => "donated" \in new
    BY <1>1, <2>2
  <2> HIDE DEF new
  <2>6. QED
    BY <1>3, <2>2, <2>4, <2>5
<1>6. CASE \E v \in Videos : Leave(v)
  <2>1. PICK v \in Videos : Leave(v)
    BY <1>6
  <2> DEFINE new == facts[v] \ {"in_window"}
  <2>2. /\ facts' = [facts EXCEPT ![v] = new] /\ writes' = writes + 1 /\ attempted' = attempted
    BY <2>1 DEF Leave, Written
  <2>3. new \in SUBSET Facts /\ "in_window" \notin new
    BY <1>1 DEF AllFacts
  <2> HIDE DEF new
  <2>4. QED
    BY <1>3, <2>2, <2>3
<1>7. CASE SyncSucceeds
  <2>1. facts' = facts /\ writes' = writes + 1 /\ attempted' = TRUE
    BY <1>7 DEF SyncSucceeds, Written
  <2>2. FactsInv'
    BY <1>1, <2>1 DEF FactsInv
  <2>3. \A v : Differ(facts, facts', v)
    BY <2>1 DEF Differ
  <2>4. QED
    BY <1>2, <2>1, <2>2, <2>3, WriteKeeps
<1>8. QED
  BY <1>4, <1>5, <1>6, <1>7 DEF DatabaseNext

-----------------------------------------------------------------------------
\* One worker's refresh is another one.
LEMMA SetRefresh ==
    ASSUME BoardInv, FactsInv, NEW w \in Refreshes, NEW q,
           refresh' = [refresh EXCEPT ![w] = q],
           \A one \in q : RefreshInv(one, facts, writes), UNCHANGED figuresDb
    PROVE  BoardInv'
<1>1. /\ refresh \in [Refreshes -> {refresh[x] : x \in Refreshes}]
      /\ UNCHANGED <<facts, writes>>
  BY DEF BoardInv, figuresDb
<1>2. refresh'[w] = q /\ \A x \in Refreshes \ {w} : refresh'[x] = refresh[x]
  BY <1>1
<1>3. refresh' \in [Refreshes -> {refresh'[x] : x \in Refreshes}]
  BY <1>1
<1>4. \A x \in Refreshes : \A one \in refresh'[x] : RefreshInv(one, facts, writes)
  BY <1>2 DEF BoardInv
<1>5. \A x \in Refreshes : \A one \in refresh'[x] : RefreshInv(one, facts', writes')
  BY <1>1, <1>4
<1>6. QED
  BY <1>3, <1>5 DEF BoardInv

LEMMA BoardStays ==
    ASSUME FiguresInv, UNCHANGED <<facts, writes, attempted, refresh, reading>>
    PROVE  FactsInv' /\ BoardInv' /\ PostsInv'
  BY DEF FiguresInv, FactsInv, BoardInv, PostsInv

LEMMA BoardKeeps ==
    ASSUME FiguresInv, DashboardNext
    PROVE  FiguresInv'
<1>1. /\ UNCHANGED <<figuresDb, figuresPublic>>
      /\ UNCHANGED <<facts, writes, attempted, reading, posts, image>>
      /\ FactsInv /\ BoardInv /\ PostsInv /\ writes \in Nat
      /\ SnapshotHonest /\ PostsHonest
  BY DEF DashboardNext, figuresDb, figuresPublic, FiguresInv, FactsInv, FiguresHonest
<1>2. FactsInv' /\ PostsInv' /\ PostsHonest'
  BY <1>1 DEF FactsInv, PostsInv, PostsHonest
<1>3. (\A s \in snapshot' : s \in snapshot) => SnapshotHonest'
  BY <1>1 DEF SnapshotHonest
<1>4. CASE RequestRefresh \/ BeatRefresh \/ BoardLapses
  <2>1. refresh' = refresh /\ \A s \in snapshot' : s \in snapshot
    BY <1>4 DEF RequestRefresh, BeatRefresh, BoardLapses
  <2>2. BoardInv'
    BY <1>1, <2>1 DEF BoardInv
  <2>3. QED
    BY <1>2, <1>3, <2>1, <2>2 DEF FiguresInv, FiguresHonest
<1>5. ASSUME NEW w \in Refreshes, StartRefresh(w)
      PROVE  FiguresInv'
  <2> DEFINE one == [computed_at |-> writes, truth |-> Truth, read |-> <<>>]
  <2>1. refresh' = [refresh EXCEPT ![w] = {one}] /\ snapshot' = snapshot
    BY <1>5 DEF StartRefresh
  <2>2. /\ one.computed_at = writes /\ one.truth = Truth /\ one.read = <<>>
        /\ one \in [computed_at : {one.computed_at}, truth : {one.truth}, read : {one.read}]
    OBVIOUS
  <2>3. ReadOK(<<>>)
    BY DEF ReadOK
  <2>4. RowsInv(<<>>, facts, Truth, 0) /\ TruthOK(Truth)
    BY <1>1, RowsBegin, TruthIs
  <2>5. writes - writes = 0
    BY <1>1
  <2> HIDE DEF one
  <2>6. RefreshInv(one, facts, writes)
    BY <1>1, <2>2, <2>3, <2>4, <2>5 DEF RefreshInv
  <2>7. BoardInv'
    BY <1>1, <2>1, <2>6, SetRefresh
  <2>8. QED
    BY <1>2, <1>3, <2>1, <2>7 DEF FiguresInv, FiguresHonest
<1>6. ASSUME NEW w \in Refreshes, RunQuery(w)
      PROVE  FiguresInv'
  <2>1. PICK one \in refresh[w] :
            /\ Len(one.read) < Len(Queries)
            /\ refresh' = [refresh EXCEPT ![w] =
                   {[one EXCEPT !.read = Append(@, Counted(Queries[Len(@) + 1]))]}]
    BY <1>6 DEF RunQuery
  <2>2. snapshot' = snapshot
    BY <1>6 DEF RunQuery
  <2> DEFINE count == Counted(Queries[Len(one.read) + 1])
             more == [one EXCEPT !.read = Append(one.read, count)]
  <2>3. RefreshInv(one, facts, writes)
    BY <1>1 DEF BoardInv
  <2>4. Len(one.read) < 10 /\ Len(one.read) \in Nat
    BY <2>1, <2>3, QueryNames DEF RefreshInv, ReadOK
  <2>5. Len(one.read) + 1 \in 1..10
    BY <2>4
  <2>6. Answer(facts, Len(one.read) + 1, count)
    BY <2>5, CountedAnswers
  <2>7. refresh' = [refresh EXCEPT ![w] = {more}]
    BY <2>1
  <2>8. /\ more.read = Append(one.read, count)
        /\ more.computed_at = one.computed_at /\ more.truth = one.truth
        /\ more \in [computed_at : {more.computed_at}, truth : {more.truth}, read : {more.read}]
    BY <2>3 DEF RefreshInv
  <2> HIDE DEF count, more
  <2>9. /\ ReadOK(more.read)
        /\ RowsInv(more.read, facts, one.truth, writes - one.computed_at)
    BY <2>3, <2>4, <2>6, <2>8, ReadMore, AllRowsAsked DEF RefreshInv
  <2>10. RefreshInv(more, facts, writes)
    BY <2>3, <2>8, <2>9 DEF RefreshInv
  <2>11. BoardInv'
    BY <1>1, <2>7, <2>10, SetRefresh
  <2>12. QED
    BY <1>2, <1>3, <2>2, <2>11 DEF FiguresInv, FiguresHonest
<1>7. ASSUME NEW w \in Refreshes, StoreSnapshot(w)
      PROVE  FiguresInv'
  <2>1. PICK one \in refresh[w] :
            /\ Len(one.read) = Len(Queries)
            /\ snapshot' = {[priority_counts |-> PriorityCounts(ByName(one.read)),
                             origin_counts |-> OriginCounts(ByName(one.read)),
                             classification |-> ClassificationCounts(ByName(one.read)),
                             truth |-> one.truth, during |-> writes - one.computed_at]}
    BY <1>7 DEF StoreSnapshot, ByName
  <2>2. refresh' = [refresh EXCEPT ![w] = {}]
    BY <1>7 DEF StoreSnapshot
  <2>3. /\ ReadOK(one.read) /\ writes - one.computed_at \in Nat
        /\ RowsInv(one.read, facts, one.truth, writes - one.computed_at)
    BY <1>1 DEF BoardInv, RefreshInv
  <2>4. Len(one.read) = 10
    BY <2>1, QueryNames
  <2>5. \A s \in snapshot' : Honest(s)
    BY <2>1, <2>3, <2>4, RowsShown
  <2>6. SnapshotHonest'
    BY <2>5 DEF SnapshotHonest, Honest
  <2>7. BoardInv'
    BY <1>1, <2>2, SetRefresh
  <2>8. QED
    BY <1>2, <2>6, <2>7 DEF FiguresInv, FiguresHonest
<1>8. ASSUME NEW w \in Refreshes, AbandonRefresh(w)
      PROVE  FiguresInv'
  <2>1. refresh' = [refresh EXCEPT ![w] = {}] /\ snapshot' = snapshot
    BY <1>8 DEF AbandonRefresh
  <2>2. BoardInv'
    BY <1>1, <2>1, SetRefresh
  <2>3. QED
    BY <1>2, <1>3, <2>1, <2>2 DEF FiguresInv, FiguresHonest
<1>9. QED
  BY <1>4, <1>5, <1>6, <1>7, <1>8 DEF DashboardNext

-----------------------------------------------------------------------------
LEMMA PostedIs == Posted = PostedIn(facts)
  BY DEF Posted, PostedIn, With, Known

LEMMA PostedInCount ==
    ASSUME NEW f
    PROVE  Cardinality(PostedIn(f)) \in Nat
<1>1. IsFiniteSet(Videos) /\ PostedIn(f) \in SUBSET Videos
  BY FiguresAssumption DEF PostedIn
<1>2. QED
  BY <1>1, FS_Subset, FS_CardinalityType

\* One that computes counts goes on.
LEMMA SetReading ==
    ASSUME PostsInv, NEW a \in Askers, NEW step, Goes(a, step),
           ReadingInv(step, facts, attempted, writes), UNCHANGED figuresDb
    PROVE  PostsInv'
<1>1. /\ reading \in [Askers -> {reading[x] : x \in Askers}]
      /\ UNCHANGED <<facts, writes, attempted>> /\ reading' = [reading EXCEPT ![a] = step]
  BY DEF PostsInv, figuresDb, Goes
<1>2. reading'[a] = step /\ \A x \in Askers \ {a} : reading'[x] = reading[x]
  BY <1>1
<1>3. reading' \in [Askers -> {reading'[x] : x \in Askers}]
  BY <1>1
<1>4. \A x \in Askers : ReadingInv(reading'[x], facts, attempted, writes)
  BY <1>2 DEF PostsInv
<1>5. QED
  BY <1>1, <1>3, <1>4 DEF PostsInv

\* What one count promises.
CountHonest(p) ==
    /\ p.count = {} => p.truth <= p.during
    /\ \A n \in p.count : Near(n, p.truth, p.during) /\ (n = 0 => p.synced)

LEMMA NothingCounted ==
    ASSUME NEW stage \in {"rest", "videos", "draw"}
    PROVE  ReadingInv(Stage(stage, 0, 0, FALSE), facts, attempted, writes)
  BY DEF ReadingInv, Stage

LEMMA PublicKeeps ==
    ASSUME FiguresInv, PublicNext
    PROVE  FiguresInv'
<1>1. /\ UNCHANGED <<figuresDb, figuresBoard>>
      /\ UNCHANGED <<facts, writes, attempted, refresh, snapshot>>
      /\ FactsInv /\ BoardInv /\ PostsInv /\ writes \in Nat
      /\ SnapshotHonest /\ PostsHonest
  BY DEF PublicNext, figuresDb, figuresBoard, FiguresInv, FactsInv, FiguresHonest
<1>2. FactsInv' /\ BoardInv' /\ SnapshotHonest'
  BY <1>1 DEF FactsInv, BoardInv, SnapshotHonest
<1>3. (\A p \in posts' \cup image' : p \in posts \cup image) => PostsHonest'
  BY <1>1 DEF PostsHonest
<1>4. AtRest = Stage("rest", 0, 0, FALSE)
  BY DEF AtRest
<1>5. ASSUME NEW a \in Askers, AskPosts(a)
      PROVE  FiguresInv'
  <2>1. /\ Goes(a, Stage("videos", 0, 0, FALSE)) /\ image' = image
        /\ \A p \in posts' : p \in posts
    BY <1>5 DEF AskPosts
  <2>2. PostsInv'
    BY <1>1, <2>1, NothingCounted, SetReading
  <2>3. QED
    BY <1>2, <1>3, <2>1, <2>2 DEF FiguresInv, FiguresHonest
<1>6. ASSUME NEW a \in Askers, CountVideos(a)
      PROVE  FiguresInv'
  <2> DEFINE step == Stage("attempts", Cardinality(PostedIn(facts)), writes, FALSE)
  <2>1. Goes(a, step) /\ posts' = posts /\ image' = image
    BY <1>6, PostedIs DEF CountVideos
  <2>2. ReadingInv(step, facts, attempted, writes)
    <3>1. Cardinality(PostedIn(facts)) \in Nat /\ writes - writes = 0
      BY <1>1, PostedInCount
    <3>2. /\ step.stage = "attempts" /\ step.found = Cardinality(PostedIn(facts))
          /\ step.since = writes /\ step.seen = FALSE
      BY DEF Stage
    <3> HIDE DEF step
    <3>3. QED
      BY <1>1, <3>1, <3>2, NearItself DEF ReadingInv
  <2> HIDE DEF step
  <2>3. PostsInv'
    BY <1>1, <2>1, <2>2, SetReading
  <2>4. QED
    BY <1>2, <1>3, <2>1, <2>3 DEF FiguresInv, FiguresHonest
<1>7. ASSUME NEW a \in Askers, ReadAttempts(a)
      PROVE  FiguresInv'
  <2> DEFINE step == Stage("add", reading[a].found, reading[a].since, attempted)
  <2>1. /\ reading[a].stage = "attempts"
        /\ Goes(a, step) /\ posts' = posts /\ image' = image
    BY <1>7 DEF ReadAttempts
  <2>2. ReadingInv(step, facts, attempted, writes)
    <3>1. /\ reading[a].since \in Nat /\ writes - reading[a].since \in Nat
          /\ reading[a].found \in Nat
          /\ Near(reading[a].found, Cardinality(PostedIn(facts)), writes - reading[a].since)
      BY <1>1, <2>1 DEF PostsInv, ReadingInv
    <3>2. /\ step.found = reading[a].found
          /\ step.since = reading[a].since /\ step.seen = attempted
      BY DEF Stage
    <3> HIDE DEF step
    <3>3. QED
      BY <3>1, <3>2 DEF ReadingInv
  <2> HIDE DEF step
  <2>3. PostsInv'
    BY <1>1, <2>1, <2>2, SetReading
  <2>4. QED
    BY <1>2, <1>3, <2>1, <2>3 DEF FiguresInv, FiguresHonest
<1>8. ASSUME NEW a \in Askers, AddPosts(a)
      PROVE  FiguresInv'
  <2> DEFINE new == [count |-> CountOf(reading[a].found, reading[a].seen),
                     synced |-> attempted, during |-> writes - reading[a].since,
                     truth |-> Cardinality(PostedIn(facts))]
  <2>1. /\ reading[a].stage = "add" /\ image' = image
        /\ posts' = IF posts # {} THEN posts ELSE {new}
        /\ Goes(a, IF a = "daily" THEN Stage("draw", 0, 0, FALSE) ELSE AtRest)
    BY <1>8, PostedIs DEF AddPosts
  <2>2. CountHonest(new)
    <3>1. /\ reading[a].since \in Nat /\ writes - reading[a].since \in Nat
          /\ reading[a].found \in Nat
          /\ Near(reading[a].found, Cardinality(PostedIn(facts)), writes - reading[a].since)
          /\ reading[a].seen => attempted
      BY <1>1, <2>1 DEF PostsInv, ReadingInv
    <3>2. /\ new.count = CountOf(reading[a].found, reading[a].seen)
          /\ new.synced = attempted /\ new.during = writes - reading[a].since
          /\ new.truth = Cardinality(PostedIn(facts))
      OBVIOUS
    <3>3. Cardinality(PostedIn(facts)) \in Nat
      BY PostedInCount
    <3> HIDE DEF new
    <3>4. CASE reading[a].found = 0 /\ ~reading[a].seen
      <4>1. new.count = {}
        BY <3>2, <3>4 DEF CountOf
      <4>2. Cardinality(PostedIn(facts)) <= writes - reading[a].since
        BY <3>1, <3>3, <3>4 DEF Near
      <4>3. QED
        BY <3>2, <4>1, <4>2 DEF CountHonest
    <3>5. CASE ~(reading[a].found = 0 /\ ~reading[a].seen)
      <4>1. new.count = {reading[a].found}
        BY <3>2, <3>5 DEF CountOf
      <4>2. reading[a].found = 0 => new.synced
        BY <3>1, <3>2, <3>5
      <4>3. QED
        BY <3>1, <3>2, <4>1, <4>2 DEF CountHonest
    <3>6. QED
      BY <3>4, <3>5
  <2> HIDE DEF new
  <2>3. \A p \in posts' \cup image' : p \in posts \cup image \/ p = new
    BY <2>1
  <2>4. \A p \in posts' \cup image' : CountHonest(p)
    BY <1>1, <2>2, <2>3 DEF PostsHonest, CountHonest
  <2>5. PostsHonest'
    BY <2>4 DEF PostsHonest, CountHonest
  <2>6. PostsInv'
    BY <1>1, <1>4, <2>1, NothingCounted, SetReading
  <2>7. QED
    BY <1>2, <2>5, <2>6 DEF FiguresInv, FiguresHonest
<1>9. ASSUME DrawPlots
      PROVE  FiguresInv'
  <2>1. /\ posts' = posts /\ image' \in {image, posts} /\ "daily" \in Askers
        /\ Goes("daily", Stage("videos", 0, 0, FALSE)) \/ Goes("daily", AtRest)
    BY <1>9 DEF DrawPlots, Askers
  <2>2. PostsInv'
    BY <1>1, <1>4, <2>1, NothingCounted, SetReading
  <2>3. QED
    BY <1>2, <1>3, <2>1, <2>2 DEF FiguresInv, FiguresHonest
<1>10. ASSUME ShowParties \/ PublicLapses
       PROVE  FiguresInv'
  <2>1. reading' = reading /\ image' = image /\ \A p \in posts' : p \in posts
    BY <1>10 DEF ShowParties, PublicLapses
  <2>2. PostsInv'
    BY <1>1, <2>1 DEF PostsInv
  <2>3. QED
    BY <1>2, <1>3, <2>1, <2>2 DEF FiguresInv, FiguresHonest
<1>11. QED
  BY <1>5, <1>6, <1>7, <1>8, <1>9, <1>10 DEF PublicNext

\* The figures of the pages are off by what was written while they were
\* computed and by no more, whatever is written between any two of the queries,
\* by any number of writers, and however refreshes overlap, are abandoned or
\* run twice (refresh_dashboard_snapshot and get_priority_counts in
\* ddcs/metadata/dashboard/metrics.py, _compute_post_data in
\* ddcs/reports/metrics/account_metrics.py).
THEOREM FiguresStayHonest == FiguresSpec => []FiguresHonest
<1>1. FiguresInit => FiguresInv
  <2> SUFFICES ASSUME FiguresInit PROVE FiguresInv
    OBVIOUS
  <2>1. /\ facts \in Databases /\ writes = 0 /\ snapshot = {} /\ posts = {} /\ image = {}
        /\ refresh = [w \in Refreshes |-> {}] /\ reading = [a \in Askers |-> AtRest]
    BY DEF FiguresInit
  <2>2. FactsInv
    BY <2>1, FiguresAssumption DEF FactsInv, AllFacts
  <2>3. BoardInv
    BY <2>1 DEF BoardInv
  <2>4. PostsInv
    <3>1. ReadingInv(AtRest, facts, attempted, writes)
      BY NothingCounted DEF AtRest
    <3>2. QED
      BY <2>1, <3>1 DEF PostsInv
  <2>5. FiguresHonest
    BY <2>1 DEF FiguresHonest, SnapshotHonest, PostsHonest
  <2>6. QED
    BY <2>2, <2>3, <2>4, <2>5 DEF FiguresInv
<1>2. FiguresInv /\ [FiguresNext]_figuresVars => FiguresInv'
  <2> SUFFICES ASSUME FiguresInv, [FiguresNext]_figuresVars PROVE FiguresInv'
    OBVIOUS
  <2>1. CASE DatabaseNext
    BY <2>1, WritesKeep
  <2>2. CASE DashboardNext
    BY <2>2, BoardKeeps
  <2>3. CASE PublicNext
    BY <2>3, PublicKeeps
  <2>4. ASSUME \/ UNCHANGED figuresVars
               \/ \E v \in Videos : Measure(v)
        PROVE  FiguresInv'
    <3>1. UNCHANGED <<facts, writes, attempted, refresh, snapshot, reading, posts, image>>
      BY <2>4 DEF Measure, figuresVars, figuresDb, figuresBoard, figuresPublic
    <3>2. FactsInv' /\ BoardInv' /\ PostsInv'
      BY <3>1, BoardStays
    <3>3. FiguresHonest'
      BY <3>1 DEF FiguresInv, FiguresHonest, SnapshotHonest, PostsHonest
    <3>4. QED
      BY <3>2, <3>3 DEF FiguresInv
  <2>5. QED
    BY <2>1, <2>2, <2>3, <2>4 DEF FiguresNext
<1>3. FiguresInv => FiguresHonest
  BY DEF FiguresInv
<1>4. QED
  BY <1>1, <1>2, <1>3, PTL DEF FiguresSpec

-----------------------------------------------------------------------------
(* What the figures' variables may hold.                                    *)

NoneOrOne(S) == S = {} \/ \E one \in S : S = {one}
Running(runs) == {w \in Refreshes : runs[w] # {}}
Stages == {"rest", "videos", "attempts", "add", "draw"}

\* Refreshes queued and refreshes that run: a killed one is queued again.
BoardTyped ==
    /\ pending \in BOOLEAN /\ requests \in Nat
    /\ requests + Cardinality(Running(refresh)) <= QueueLimit + Cardinality(Refreshes)
    /\ refresh \in [Refreshes -> {refresh[w] : w \in Refreshes}]
    /\ \A w \in Refreshes : NoneOrOne(refresh[w])
    /\ NoneOrOne(snapshot)
PublicTyped ==
    /\ reading \in [Askers -> {reading[a] : a \in Askers}]
    /\ \A a \in Askers : reading[a].stage \in Stages
    /\ NoneOrOne(posts) /\ NoneOrOne(image)
StoredTyped ==
    /\ facts \in AllFacts /\ rows \in [Videos -> 0..RowLimit]
    /\ attempted \in BOOLEAN /\ writes \in 0..WriteLimit
FiguresTypeInv == StoredTyped /\ BoardTyped /\ PublicTyped

LEMMA AtMostOne ==
    ASSUME NEW S, NoneOrOne(S)
    PROVE  Cardinality(S) <= 1
<1>1. CASE S = {}
  <2>1. Cardinality(S) = 0
    BY <1>1, FS_EmptySet
  <2>2. QED
    BY <2>1
<1>2. ASSUME NEW one \in S, S = {one}
      PROVE  Cardinality(S) <= 1
  <2>1. Cardinality({one}) = 1
    BY FS_Singleton
  <2>2. QED
    BY <1>2, <2>1
<1>3. QED
  BY <1>1, <1>2 DEF NoneOrOne

LEMMA RunningCount ==
    ASSUME NEW runs
    PROVE  /\ IsFiniteSet(Running(runs))
           /\ Cardinality(Running(runs)) \in Nat
           /\ Cardinality(Running(runs)) <= Cardinality(Refreshes)
           /\ Cardinality(Refreshes) \in Nat
<1>1. IsFiniteSet(Refreshes) /\ Running(runs) \in SUBSET Refreshes
  BY FiguresAssumption DEF Running
<1>2. QED
  BY <1>1, FS_Subset, FS_CardinalityType

\* One refresh begins, goes on or ends.
LEMMA OneRunChanges ==
    ASSUME NEW runs, NEW V, runs \in [Refreshes -> V], NEW w \in Refreshes, NEW S,
           NEW after, after = [runs EXCEPT ![w] = S],
           \A u \in Refreshes : NoneOrOne(runs[u]), NoneOrOne(S)
    PROVE  /\ after \in [Refreshes -> {after[u] : u \in Refreshes}]
           /\ \A u \in Refreshes : NoneOrOne(after[u])
           /\ S = {} /\ runs[w] # {} =>
                  Cardinality(Running(after)) = Cardinality(Running(runs)) - 1
           /\ S # {} /\ runs[w] = {} =>
                  Cardinality(Running(after)) = Cardinality(Running(runs)) + 1
           /\ S # {} /\ runs[w] # {} => Running(after) = Running(runs)
<1>1. /\ after \in [Refreshes -> {after[u] : u \in Refreshes}]
      /\ after[w] = S /\ \A u \in Refreshes \ {w} : after[u] = runs[u]
  OBVIOUS
<1>2. \A u \in Refreshes : NoneOrOne(after[u])
  BY <1>1
<1>3. IsFiniteSet(Running(runs))
  BY RunningCount
<1>4. ASSUME S = {}, runs[w] # {}
      PROVE  Cardinality(Running(after)) = Cardinality(Running(runs)) - 1
  <2>1. Running(after) = Running(runs) \ {w} /\ w \in Running(runs)
    BY <1>1, <1>4 DEF Running
  <2>2. QED
    BY <1>3, <2>1, FS_RemoveElement
<1>5. ASSUME S # {}, runs[w] = {}
      PROVE  Cardinality(Running(after)) = Cardinality(Running(runs)) + 1
  <2>1. Running(after) = Running(runs) \cup {w} /\ w \notin Running(runs)
    BY <1>1, <1>5 DEF Running
  <2>2. QED
    BY <1>3, <2>1, FS_AddElement
<1>6. ASSUME S # {}, runs[w] # {}
      PROVE  Running(after) = Running(runs)
  BY <1>1, <1>6 DEF Running
<1>7. QED
  BY <1>1, <1>2, <1>4, <1>5, <1>6

LEMMA BoardStaysTyped ==
    ASSUME BoardTyped, DashboardNext
    PROVE  BoardTyped'
<1>1. /\ pending \in BOOLEAN /\ requests \in Nat /\ QueueLimit \in Nat \ {0}
      /\ requests + Cardinality(Running(refresh)) <= QueueLimit + Cardinality(Refreshes)
      /\ refresh \in [Refreshes -> {refresh[w] : w \in Refreshes}]
      /\ \A w \in Refreshes : NoneOrOne(refresh[w])
      /\ NoneOrOne(snapshot)
  BY FiguresAssumption DEF BoardTyped
<1>2. /\ Cardinality(Running(refresh)) \in Nat
      /\ Cardinality(Running(refresh)) <= Cardinality(Refreshes)
      /\ Cardinality(Refreshes) \in Nat
  BY RunningCount
<1>3. ASSUME RequestRefresh \/ BeatRefresh \/ BoardLapses
      PROVE  BoardTyped'
  <2>1. /\ refresh' = refresh /\ pending' \in BOOLEAN
        /\ requests' \in Nat /\ (requests' = requests \/ requests' <= QueueLimit)
        /\ snapshot' = snapshot \/ snapshot' = {}
    <3>1. CASE RequestRefresh
      BY <1>1, <3>1 DEF RequestRefresh
    <3>2. CASE BeatRefresh
      BY <1>1, <3>2 DEF BeatRefresh
    <3>3. CASE BoardLapses
      BY <1>1, <3>3 DEF BoardLapses
    <3>4. QED
      BY <1>3, <3>1, <3>2, <3>3
  <2>2. requests' + Cardinality(Running(refresh)) <= QueueLimit + Cardinality(Refreshes)
    BY <1>1, <1>2, <2>1
  <2>3. NoneOrOne(snapshot')
    BY <1>1, <2>1 DEF NoneOrOne
  <2>4. QED
    BY <1>1, <2>1, <2>2, <2>3 DEF BoardTyped
<1>4. ASSUME NEW w \in Refreshes, StartRefresh(w)
      PROVE  BoardTyped'
  <2>1. PICK one : refresh' = [refresh EXCEPT ![w] = {one}]
    BY <1>4 DEF StartRefresh
  <2>2. /\ requests' = requests - 1 /\ requests > 0 /\ refresh[w] = {}
        /\ pending' = pending /\ snapshot' = snapshot
    BY <1>4 DEF StartRefresh
  <2>3. NoneOrOne({one}) /\ {one} # {}
    BY DEF NoneOrOne
  <2>4. /\ refresh' \in [Refreshes -> {refresh'[u] : u \in Refreshes}]
        /\ \A u \in Refreshes : NoneOrOne(refresh'[u])
        /\ Cardinality(Running(refresh')) = Cardinality(Running(refresh)) + 1
    BY <1>1, <2>1, <2>2, <2>3, OneRunChanges
  <2>5. /\ requests' \in Nat
        /\ requests' + Cardinality(Running(refresh')) <= QueueLimit + Cardinality(Refreshes)
    BY <1>1, <1>2, <2>2, <2>4
  <2>6. QED
    BY <1>1, <2>2, <2>4, <2>5 DEF BoardTyped, Running
<1>5. ASSUME NEW w \in Refreshes, RunQuery(w)
      PROVE  BoardTyped'
  <2>1. PICK old \in refresh[w] :
            refresh' = [refresh EXCEPT ![w] =
                {[old EXCEPT !.read = Append(@, Counted(Queries[Len(@) + 1]))]}]
    BY <1>5 DEF RunQuery
  <2>2. PICK one : refresh' = [refresh EXCEPT ![w] = {one}]
    BY <2>1
  <2>3. pending' = pending /\ requests' = requests /\ snapshot' = snapshot /\ refresh[w] # {}
    BY <1>5, <2>1 DEF RunQuery
  <2>4. NoneOrOne({one}) /\ {one} # {}
    BY DEF NoneOrOne
  <2>5. /\ refresh' \in [Refreshes -> {refresh'[u] : u \in Refreshes}]
        /\ \A u \in Refreshes : NoneOrOne(refresh'[u])
        /\ Running(refresh') = Running(refresh)
    BY <1>1, <2>2, <2>3, <2>4, OneRunChanges
  <2>6. QED
    BY <1>1, <2>3, <2>5 DEF BoardTyped, Running
<1>6. ASSUME NEW w \in Refreshes, StoreSnapshot(w) \/ AbandonRefresh(w)
      PROVE  BoardTyped'
  <2>1. /\ refresh' = [refresh EXCEPT ![w] = {}] /\ refresh[w] # {}
        /\ pending' \in BOOLEAN /\ requests' \in {requests, requests + 1}
    BY <1>1, <1>6 DEF StoreSnapshot, AbandonRefresh
  <2>2. NoneOrOne(snapshot')
    BY <1>1, <1>6 DEF StoreSnapshot, AbandonRefresh, NoneOrOne
  <2>3. NoneOrOne({})
    BY DEF NoneOrOne
  <2>4. /\ refresh' \in [Refreshes -> {refresh'[u] : u \in Refreshes}]
        /\ \A u \in Refreshes : NoneOrOne(refresh'[u])
        /\ Cardinality(Running(refresh')) = Cardinality(Running(refresh)) - 1
    BY <1>1, <2>1, <2>3, OneRunChanges
  <2>5. /\ requests' \in Nat
        /\ requests' + Cardinality(Running(refresh')) <= QueueLimit + Cardinality(Refreshes)
    BY <1>1, <1>2, <2>1, <2>4
  <2>6. QED
    BY <2>1, <2>2, <2>4, <2>5 DEF BoardTyped, Running
<1>7. QED
  BY <1>3, <1>4, <1>5, <1>6 DEF DashboardNext

LEMMA PublicStaysTyped ==
    ASSUME PublicTyped, PublicNext
    PROVE  PublicTyped'
<1>1. /\ reading \in [Askers -> {reading[a] : a \in Askers}]
      /\ \A a \in Askers : reading[a].stage \in Stages
      /\ NoneOrOne(posts) /\ NoneOrOne(image)
  BY DEF PublicTyped
<1>2. ASSUME NEW a \in Askers, NEW step, step.stage \in Stages, Goes(a, step)
      PROVE  /\ reading' \in [Askers -> {reading'[u] : u \in Askers}]
             /\ \A u \in Askers : reading'[u].stage \in Stages
  <2>1. reading' = [reading EXCEPT ![a] = step]
    BY <1>2 DEF Goes
  <2>2. QED
    BY <1>1, <1>2, <2>1
<1>3. ASSUME NEW a \in Askers, AskPosts(a) \/ CountVideos(a) \/ ReadAttempts(a) \/ AddPosts(a)
      PROVE  PublicTyped'
  <2>1. /\ reading' \in [Askers -> {reading'[u] : u \in Askers}]
        /\ \A u \in Askers : reading'[u].stage \in Stages
    <3>1. CASE AskPosts(a)
      <4>1. Goes(a, Stage("videos", 0, 0, FALSE))
        BY <3>1 DEF AskPosts
      <4>2. Stage("videos", 0, 0, FALSE).stage \in Stages
        BY DEF Stage, Stages
      <4>3. QED
        BY <1>2, <4>1, <4>2
    <3>2. CASE CountVideos(a)
      <4>1. Goes(a, Stage("attempts", Cardinality(Posted), writes, FALSE))
        BY <3>2 DEF CountVideos
      <4>2. Stage("attempts", Cardinality(Posted), writes, FALSE).stage \in Stages
        BY DEF Stage, Stages
      <4>3. QED
        BY <1>2, <4>1, <4>2
    <3>3. CASE ReadAttempts(a)
      <4>1. Goes(a, Stage("add", reading[a].found, reading[a].since, attempted))
        BY <3>3 DEF ReadAttempts
      <4>2. Stage("add", reading[a].found, reading[a].since, attempted).stage \in Stages
        BY DEF Stage, Stages
      <4>3. QED
        BY <1>2, <4>1, <4>2
    <3>4. CASE AddPosts(a)
      <4>1. Goes(a, IF a = "daily" THEN Stage("draw", 0, 0, FALSE) ELSE AtRest)
        BY <3>4 DEF AddPosts
      <4>2. (IF a = "daily" THEN Stage("draw", 0, 0, FALSE) ELSE AtRest).stage \in Stages
        BY DEF Stage, AtRest, Stages
      <4>3. QED
        BY <1>2, <4>1, <4>2
    <3>5. QED
      BY <1>3, <3>1, <3>2, <3>3, <3>4
  <2>2. NoneOrOne(posts') /\ image' = image
    BY <1>1, <1>3 DEF AskPosts, CountVideos, ReadAttempts, AddPosts, NoneOrOne
  <2>3. QED
    BY <1>1, <2>1, <2>2 DEF PublicTyped
<1>4. ASSUME DrawPlots
      PROVE  PublicTyped'
  <2>1. /\ "daily" \in Askers /\ posts' = posts /\ image' \in {image, posts}
        /\ Goes("daily", Stage("videos", 0, 0, FALSE)) \/ Goes("daily", AtRest)
    BY <1>4 DEF DrawPlots, Askers
  <2>2. Stage("videos", 0, 0, FALSE).stage \in Stages /\ AtRest.stage \in Stages
    BY DEF Stage, AtRest, Stages
  <2>3. /\ reading' \in [Askers -> {reading'[u] : u \in Askers}]
        /\ \A u \in Askers : reading'[u].stage \in Stages
    BY <1>2, <2>1, <2>2
  <2>4. QED
    BY <1>1, <2>1, <2>3 DEF PublicTyped
<1>5. ASSUME ShowParties \/ PublicLapses
      PROVE  PublicTyped'
  <2>1. reading' = reading /\ image' = image /\ (posts' = posts \/ posts' = {})
    BY <1>5 DEF ShowParties, PublicLapses
  <2>2. NoneOrOne(posts')
    BY <1>1, <2>1 DEF NoneOrOne
  <2>3. QED
    BY <1>1, <2>1, <2>2 DEF PublicTyped
<1>6. QED
  BY <1>3, <1>4, <1>5 DEF PublicNext

LEMMA DatabaseStaysTyped ==
    ASSUME StoredTyped, DatabaseNext
    PROVE  StoredTyped'
<1>1. /\ facts \in [Videos -> SUBSET Facts] /\ rows \in [Videos -> 0..RowLimit]
      /\ attempted \in BOOLEAN /\ writes \in 0..WriteLimit /\ WriteLimit \in Nat
  BY FiguresAssumption DEF StoredTyped, AllFacts
<1>2. ASSUME Written
      PROVE  writes' \in 0..WriteLimit
  BY <1>1, <1>2 DEF Written
<1>3. ASSUME NEW v \in Videos, NEW new \in SUBSET Facts, Stored(v, new)
      PROVE  facts' \in [Videos -> SUBSET Facts]
  BY <1>1, <1>3 DEF Stored
<1>4. ASSUME NEW v \in Videos, NEW o \in Origins, Register(v, o)
      PROVE  StoredTyped'
  <2>1. {o} \cup (IF o = "research_api" THEN {"author"} ELSE {}) \in SUBSET Facts
    BY DEF Facts
  <2>2. Written /\ rows' = rows /\ attempted' = attempted
    BY <1>4 DEF Register
  <2>3. facts' \in [Videos -> SUBSET Facts]
    BY <1>3, <1>4, <2>1 DEF Register
  <2>4. QED
    BY <1>1, <1>2, <2>2, <2>3 DEF StoredTyped, AllFacts
<1>5. ASSUME NEW v \in Videos, NEW f \in Facts, Learn(v, f)
      PROVE  StoredTyped'
  <2>1. {f} \cup (IF f = "scraped" THEN {"author"} ELSE {}) \in SUBSET Facts
    BY DEF Facts
  <2>2. Written /\ rows' = rows /\ attempted' = attempted
    BY <1>5 DEF Learn
  <2>3. facts' \in [Videos -> SUBSET Facts]
    BY <1>3, <1>5, <2>1 DEF Learn
  <2>4. QED
    BY <1>1, <1>2, <2>2, <2>3 DEF StoredTyped, AllFacts
<1>6. ASSUME NEW v \in Videos, Leave(v)
      PROVE  StoredTyped'
  <2>1. Written /\ rows' = rows /\ attempted' = attempted
    BY <1>6 DEF Leave
  <2>2. facts' \in [Videos -> SUBSET Facts]
    BY <1>1, <1>6 DEF Leave
  <2>3. QED
    BY <1>1, <1>2, <2>1, <2>2 DEF StoredTyped, AllFacts
<1>7. ASSUME SyncSucceeds
      PROVE  StoredTyped'
  <2>1. Written /\ facts' = facts /\ rows' = rows /\ attempted' = TRUE
    BY <1>7 DEF SyncSucceeds
  <2>2. QED
    BY <1>1, <1>2, <2>1 DEF StoredTyped, AllFacts
<1>8. QED
  BY <1>4, <1>5, <1>6, <1>7 DEF DatabaseNext

\* Every variable of the figures keeps its type; in particular there are never
\* more refreshes queued than pages may ask for and killed workers give back.
THEOREM FiguresTyped == FiguresSpec => []FiguresTypeOK
<1>1. FiguresInit => FiguresTypeInv
  <2> SUFFICES ASSUME FiguresInit PROVE FiguresTypeInv
    OBVIOUS
  <2>1. /\ facts \in AllFacts /\ rows \in [Videos -> 0..RowLimit]
        /\ attempted = FALSE /\ writes \in 0..WriteLimit
    BY FiguresAssumption DEF FiguresInit, AllFacts
  <2>2. /\ pending = FALSE /\ requests = 0 /\ snapshot = {} /\ posts = {} /\ image = {}
        /\ refresh = [w \in Refreshes |-> {}] /\ reading = [a \in Askers |-> AtRest]
    BY DEF FiguresInit
  <2>3. NoneOrOne({})
    BY DEF NoneOrOne
  <2>4. /\ Cardinality(Running(refresh)) \in Nat
        /\ Cardinality(Running(refresh)) <= Cardinality(Refreshes)
        /\ Cardinality(Refreshes) \in Nat /\ QueueLimit \in Nat
    BY RunningCount, FiguresAssumption
  <2>5. requests + Cardinality(Running(refresh)) <= QueueLimit + Cardinality(Refreshes)
    BY <2>2, <2>4
  <2>6. BoardTyped
    BY <2>2, <2>3, <2>5 DEF BoardTyped
  <2>7. AtRest.stage \in Stages
    BY DEF AtRest, Stage, Stages
  <2>8. PublicTyped
    BY <2>2, <2>3, <2>7 DEF PublicTyped
  <2>9. QED
    BY <2>1, <2>6, <2>8 DEF FiguresTypeInv, StoredTyped
<1>2. FiguresTypeInv /\ [FiguresNext]_figuresVars => FiguresTypeInv'
  <2> SUFFICES ASSUME FiguresTypeInv, [FiguresNext]_figuresVars PROVE FiguresTypeInv'
    OBVIOUS
  <2>1. StoredTyped /\ BoardTyped /\ PublicTyped
    BY DEF FiguresTypeInv
  <2>2. UNCHANGED figuresBoard => BoardTyped'
    BY <2>1 DEF BoardTyped, figuresBoard, Running
  <2>3. UNCHANGED figuresPublic => PublicTyped'
    BY <2>1 DEF PublicTyped, figuresPublic
  <2>4. UNCHANGED figuresDb => StoredTyped'
    BY <2>1 DEF StoredTyped, figuresDb
  <2>5. CASE DatabaseNext
    <3>1. UNCHANGED figuresBoard /\ UNCHANGED figuresPublic
      BY <2>5 DEF DatabaseNext
    <3>2. QED
      BY <2>1, <2>2, <2>3, <2>5, <3>1, DatabaseStaysTyped DEF FiguresTypeInv
  <2>6. CASE DashboardNext
    <3>1. UNCHANGED figuresDb /\ UNCHANGED figuresPublic
      BY <2>6 DEF DashboardNext
    <3>2. QED
      BY <2>1, <2>3, <2>4, <2>6, <3>1, BoardStaysTyped DEF FiguresTypeInv
  <2>7. CASE PublicNext
    <3>1. UNCHANGED figuresDb /\ UNCHANGED figuresBoard
      BY <2>7 DEF PublicNext
    <3>2. QED
      BY <2>1, <2>2, <2>4, <2>7, <3>1, PublicStaysTyped DEF FiguresTypeInv
  <2>8. ASSUME NEW v \in Videos, Measure(v)
        PROVE  FiguresTypeInv'
    <3>1. /\ rows' = [rows EXCEPT ![v] = @ + 1] /\ rows[v] < RowLimit
          /\ UNCHANGED <<facts, attempted, writes>>
          /\ UNCHANGED figuresBoard /\ UNCHANGED figuresPublic
      BY <2>8 DEF Measure
    <3>2. rows \in [Videos -> 0..RowLimit] /\ RowLimit \in Nat
      BY <2>1, FiguresAssumption DEF StoredTyped
    <3>3. rows' \in [Videos -> 0..RowLimit]
      <4>1. rows[v] \in 0..RowLimit
        BY <3>2
      <4>2. rows[v] + 1 \in 0..RowLimit
        BY <3>1, <3>2, <4>1
      <4>3. QED
        BY <3>1, <3>2, <4>2
    <3>4. StoredTyped'
      BY <2>1, <3>1, <3>3 DEF StoredTyped
    <3>5. QED
      BY <2>2, <2>3, <3>1, <3>4 DEF FiguresTypeInv
  <2>9. CASE UNCHANGED figuresVars
    <3>1. UNCHANGED figuresDb /\ UNCHANGED figuresBoard /\ UNCHANGED figuresPublic
      BY <2>9 DEF figuresVars
    <3>2. QED
      BY <2>2, <2>3, <2>4, <3>1 DEF FiguresTypeInv
  <2>10. QED
    BY <2>5, <2>6, <2>7, <2>8, <2>9 DEF FiguresNext
<1>3. FiguresTypeInv => FiguresTypeOK
  <2> SUFFICES ASSUME FiguresTypeInv PROVE FiguresTypeOK
    OBVIOUS
  <2>1. StoredTyped /\ BoardTyped /\ PublicTyped
    BY DEF FiguresTypeInv
  <2>2. /\ \A w \in Refreshes : Cardinality(refresh[w]) <= 1
        /\ Cardinality(snapshot) <= 1 /\ Cardinality(posts) <= 1 /\ Cardinality(image) <= 1
    BY <2>1, AtMostOne DEF BoardTyped, PublicTyped
  <2>3. requests \in 0..(QueueLimit + Cardinality(Refreshes))
    <3>1. /\ Cardinality(Running(refresh)) \in Nat
          /\ Cardinality(Refreshes) \in Nat /\ QueueLimit \in Nat
      BY RunningCount, FiguresAssumption
    <3>2. /\ requests \in Nat
          /\ requests + Cardinality(Running(refresh)) <= QueueLimit + Cardinality(Refreshes)
      BY <2>1 DEF BoardTyped
    <3>3. QED
      BY <3>1, <3>2
  <2>4. QED
    BY <2>1, <2>2, <2>3
    DEF FiguresTypeOK, StoredTyped, BoardTyped, PublicTyped, AllFacts, Stages
<1>4. QED
  BY <1>1, <1>2, <1>3, PTL DEF FiguresSpec
===============================================================================
