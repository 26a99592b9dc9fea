--------------------------- MODULE ResearchSyncProofs ---------------------------
(****************************************************************************)
(* Proofs about ResearchSync, for any items, dates, workers, batch sizes    *)
(* and time limits: the types, the lock of the back-fill, the reaper, the   *)
(* back-fill's way through the gaps, and the refinement of Coverage.        *)
(****************************************************************************)
EXTENDS ResearchSync, TLAPS

USE ItemsAssumption, SizesAssumption, TimesAssumption

-----------------------------------------------------------------------------
(****************************************************************************)
(* Pairs, gaps and batches                                                  *)
(****************************************************************************)

LEMMA PairType ==
    ASSUME NEW n \in 1..LastPair
    PROVE  PairAt(n).kind \in Kinds /\ PairAt(n).date \in Dates
<1>1. CASE n <= LastDate
  <2>1. PairAt(n) = [kind |-> "users", date |-> LastDate - n + 1]
    BY <1>1 DEF PairAt
  <2>2. LastDate - n + 1 \in Dates
    BY <1>1 DEF LastPair, Dates
  <2>3. QED
    BY <2>1, <2>2 DEF Kinds
<1>2. CASE ~(n <= LastDate)
  <2>1. PairAt(n) = [kind |-> "keywords", date |-> 2 * LastDate - n + 1]
    BY <1>2 DEF PairAt
  <2>2. 2 * LastDate - n + 1 \in Dates
    BY <1>2 DEF LastPair, Dates
  <2>3. QED
    BY <2>1, <2>2 DEF Kinds
<1>3. QED
  BY <1>1, <1>2

LEMMA GapItemsType ==
    ASSUME NEW kind, NEW d, NEW force
    PROVE  GapItems(kind, d, force) \subseteq Items
  BY DEF GapItems, Of, Items

LEMMA FirstPart ==
    ASSUME NEW n, NEW S
    PROVE  First(n, S) \subseteq S
  BY DEF First

LEMMA BatchType ==
    ASSUME NEW kind, NEW n
    PROVE  BatchOf(kind) \in Nat \ {0} /\ BackfillBatch(kind, n) \in Nat \ {0}
<1>1. BatchOf(kind) \in Nat \ {0}
  BY DEF BatchOf
<1>2. QED
  BY <1>1 DEF BackfillBatch

LEMMA HalvedType ==
    ASSUME NEW n \in Nat
    PROVE  Halved(n) \in Nat \ {0}
  BY DEF Halved

-----------------------------------------------------------------------------
(****************************************************************************)
(* The types                                                                *)
(****************************************************************************)

RunType == [step : Steps, task : Tasks, at : Nat, todo : SUBSET Items,
            size : Nat \ {0}, asked : SUBSET Items, failed : BOOLEAN, age : Nat,
            deaf : BOOLEAN, tracker : {"none", "started", "failed"},
            tried : SUBSET Gaps]

\* What a run holds at its steps: items only while it works on a pair, a batch
\* only during the query.
RunOK(r) ==
    /\ r.at \in 1..LastPair + 1
    /\ r.age <= Hard(r)
    /\ r.step # "query" => r.asked = {}
    /\ r.step \in {"idle", "next"} => r.todo = {}
    /\ r.step = "next" => IsBackfill(r)
    /\ r.step \in {"ready", "query", "booking"} => r.at <= LastPair
RunsOK == run \in [Workers -> RunType] /\ \A w \in Workers : RunOK(run[w])

LockOK == lock \in Workers \cup {NoWorker} /\ expiry \in 0..LockTimeout
TypeInv == RunsOK /\ LockOK /\ messages \subseteq Tasks /\ synced \subseteq Gaps

LEMMA NoRunOK == NoRun \in RunType /\ RunOK(NoRun) /\ IsBackfill(NoRun)
<1>1. NoRun \in RunType
  BY DEF NoRun, RunType, Steps, Tasks
<1>2. IsBackfill(NoRun) /\ Hard(NoRun) = BackfillHard
  BY DEF NoRun, IsBackfill, Backfill, Hard
<1>3. /\ NoRun.at = 1 /\ NoRun.age = 0 /\ NoRun.asked = {} /\ NoRun.todo = {}
      /\ NoRun.step = "idle"
  BY DEF NoRun
<1>4. QED
  BY <1>1, <1>2, <1>3 DEF RunOK, LastPair

\* A step of a worker sets its own run.
LEMMA SetRun ==
    ASSUME RunsOK, NEW w \in Workers, NEW r \in RunType, RunOK(r),
           run' = [run EXCEPT ![w] = r]
    PROVE  RunsOK'
<1>1. run' \in [Workers -> RunType]
  BY DEF RunsOK
<1>2. \A v \in Workers : run'[v] \in {r, run[v]}
  BY DEF RunsOK
<1>3. QED
  BY <1>1, <1>2 DEF RunsOK

LEMMA EndRun ==
    ASSUME RunsOK, NEW w \in Workers, End(w)
    PROVE  RunsOK'
  BY SetRun, NoRunOK DEF End

LEMMA DateType ==
    ASSUME NEW r \in RunType, RunOK(r), r.step \in {"ready", "query", "booking"}
    PROVE  DateOf(r) \in Dates
<1>1. CASE IsBackfill(r)
  <2>1. r.at \in 1..LastPair
    BY DEF RunOK, LastPair
  <2>2. QED
    BY <1>1, <2>1, PairType DEF DateOf
<1>2. CASE ~IsBackfill(r)
  <2>1. r.task \in Dailies
    BY <1>2 DEF RunType, Tasks, IsBackfill, Backfill
  <2>2. QED
    BY <1>2, <2>1 DEF DateOf, Dailies
<1>3. QED
  BY <1>1, <1>2

\* A run that has read its list.
LEMMA ListedType ==
    ASSUME NEW r \in RunType, RunOK(r), r.at <= LastPair, r.asked = {},
           NEW items \in SUBSET Items, NEW size \in Nat \ {0}
    PROVE  /\ Listed(r, items, size) \in RunType
           /\ RunOK(Listed(r, items, size))
<1> DEFINE q == Listed(r, items, size)
<1>1. q \in RunType
  BY DEF Listed, RunType, Steps
<1>2. /\ q.at = r.at /\ q.age = r.age /\ q.task = r.task /\ q.asked = r.asked
      /\ q.step = "ready"
  BY DEF Listed, RunType
<1>3. Hard(q) = Hard(r)
  BY <1>2 DEF Hard, IsBackfill
<1>4. QED
  BY <1>1, <1>2, <1>3 DEF RunOK

\* A step that leaves a run's task, date and age alone.
LEMMA SameRun ==
    ASSUME NEW r \in RunType, RunOK(r), NEW q \in RunType,
           q.task = r.task, q.at = r.at, q.age = r.age,
           q.step # "query" => q.asked = {},
           q.step \in {"ready", "query", "booking"},
           r.step \in {"ready", "query", "booking"}
    PROVE  RunOK(q)
<1>1. Hard(q) = Hard(r)
  BY DEF Hard, IsBackfill
<1>2. QED
  BY <1>1 DEF RunOK

LEMMA AskRuns ==
    ASSUME RunsOK, NEW w \in Workers, Ask(w)
    PROVE  RunsOK'
<1> DEFINE r == run[w]
           batch == First(r.size, r.todo)
           tried == IF IsBackfill(r) THEN r.tried \cup On(batch, DateOf(r)) ELSE r.tried
           q == [r EXCEPT !.step = "query", !.todo = Rest(r), !.asked = batch,
                          !.tried = tried]
<1>1. r \in RunType /\ RunOK(r) /\ r.step = "ready"
  BY DEF RunsOK, Ask
<1>2. batch \in SUBSET Items /\ Rest(r) \in SUBSET Items
  BY <1>1, FirstPart DEF RunType, Rest
<1>3. tried \in SUBSET Gaps
  <2>1. On(batch, DateOf(r)) \subseteq Gaps
    BY <1>1, <1>2, DateType DEF On, Gaps
  <2>2. QED
    BY <1>1, <2>1 DEF RunType
<1>4. q \in RunType
  BY <1>1, <1>2, <1>3 DEF RunType, Steps
<1>5. q.task = r.task /\ q.at = r.at /\ q.age = r.age /\ q.step = "query"
  BY <1>1 DEF RunType
<1>6. RunOK(q)
  BY <1>1, <1>4, <1>5, SameRun
<1>7. run' = [run EXCEPT ![w] = q]
  BY DEF Ask, RunsOK, RunType
<1>8. QED
  BY <1>4, <1>6, <1>7, SetRun

LEMMA WorkRuns ==
    ASSUME RunsOK, NEW w \in Workers,
           Succeed(w) \/ BatchFails(w) \/ Booked(w) \/ SoftSwallowed(w)
    PROVE  RunsOK'
<1> DEFINE r == run[w]
<1>1. r \in RunType /\ RunOK(r)
  BY DEF RunsOK
<1>2. CASE Succeed(w)
  <2> DEFINE q == [r EXCEPT !.step = "ready", !.asked = {}]
  <2>1. r.step = "query" /\ run' = [run EXCEPT ![w] = q]
    BY <1>2 DEF Succeed, RunsOK
  <2>2. q \in RunType
    BY <1>1 DEF RunType, Steps
  <2>3. q.task = r.task /\ q.at = r.at /\ q.age = r.age /\ q.step = "ready" /\ q.asked = {}
    BY <1>1 DEF RunType
  <2>4. QED
    BY <1>1, <2>1, <2>2, <2>3, SameRun, SetRun
<1>3. CASE BatchFails(w)
  <2> DEFINE q == [r EXCEPT !.step = "booking", !.asked = {}]
  <2>1. r.step = "query" /\ run' = [run EXCEPT ![w] = q]
    BY <1>3 DEF BatchFails, RunsOK
  <2>2. q \in RunType
    BY <1>1 DEF RunType, Steps
  <2>3. q.task = r.task /\ q.at = r.at /\ q.age = r.age /\ q.step = "booking" /\ q.asked = {}
    BY <1>1 DEF RunType
  <2>4. QED
    BY <1>1, <2>1, <2>2, <2>3, SameRun, SetRun
<1>4. CASE Booked(w)
  <2> DEFINE q == [r EXCEPT !.step = "ready", !.failed = TRUE]
  <2>1. r.step = "booking" /\ run' = [run EXCEPT ![w] = q]
    BY <1>4 DEF Booked, RunsOK
  <2>2. q \in RunType
    BY <1>1 DEF RunType, Steps
  <2>3. /\ q.task = r.task /\ q.at = r.at /\ q.age = r.age
        /\ q.step = "ready" /\ q.asked = r.asked
    BY <1>1 DEF RunType
  <2>4. r.asked = {}
    BY <1>1, <2>1 DEF RunOK
  <2>5. QED
    BY <1>1, <2>1, <2>2, <2>3, <2>4, SameRun, SetRun
<1>5. CASE SoftSwallowed(w)
  <2> DEFINE q == [r EXCEPT !.deaf = TRUE]
  <2>1. r.step = "booking" /\ run' = [run EXCEPT ![w] = q]
    BY <1>5 DEF SoftSwallowed, RunsOK
  <2>2. q \in RunType
    BY <1>1 DEF RunType
  <2>3. /\ q.task = r.task /\ q.at = r.at /\ q.age = r.age
        /\ q.step = "booking" /\ q.asked = r.asked
    BY <1>1, <2>1 DEF RunType
  <2>4. r.asked = {}
    BY <1>1, <2>1 DEF RunOK
  <2>5. QED
    BY <1>1, <2>1, <2>2, <2>3, <2>4, SameRun, SetRun
<1>6. QED
  BY <1>2, <1>3, <1>4, <1>5

LEMMA StartRuns ==
    ASSUME TypeInv, NEW w \in Workers,
           \/ \E m \in messages : StartDaily(w, m)
           \/ StartBackfill(w) \/ NextPair(w) \/ FinishPair(w)
    PROVE  RunsOK'
<1>a. RunsOK /\ run[w] \in RunType /\ RunOK(run[w]) /\ messages \subseteq Tasks
  BY DEF TypeInv, RunsOK
<1>0. ASSUME UNCHANGED run PROVE RunsOK'
  BY <1>a, <1>0 DEF RunsOK
<1>1. ASSUME NEW m \in messages, StartDaily(w, m) PROVE RunsOK'
  <2> DEFINE r == [NoRun EXCEPT !.task = m]
  <2>1. m \in Dailies
    BY <1>a, <1>1 DEF StartDaily, Tasks, Backfill
  <2>2. r \in RunType
    BY <2>1, NoRunOK DEF RunType, Tasks
  <2>3. /\ r.at = 1 /\ r.age = 0 /\ r.asked = {} /\ r.todo = {} /\ r.step = "idle"
        /\ r.task = m
    BY DEF NoRun
  <2>4. RunOK(r)
    BY <2>3 DEF RunOK, Hard, LastPair
  <2>5. m.size \in Nat \ {0}
    BY <2>1 DEF Dailies
  <2>6. CASE run' = [run EXCEPT ![w] =
                        Listed(r, GapItems(m.kind, m.date, m.force), m.size)]
    <3>1. r.at <= LastPair
      BY <2>3 DEF LastPair
    <3>2. QED
      BY <1>a, <2>2, <2>3, <2>4, <2>5, <2>6, <3>1, ListedType, GapItemsType, SetRun
  <2>7. QED
    BY <1>0, <1>1, <2>6 DEF StartDaily
<1>2. CASE StartBackfill(w)
  <2> DEFINE r == [NoRun EXCEPT !.step = "next"]
  <2>1. r \in RunType
    BY NoRunOK DEF RunType, Steps
  <2>2. /\ r.at = 1 /\ r.age = 0 /\ r.asked = {} /\ r.todo = {} /\ r.step = "next"
        /\ r.task = Backfill
    BY DEF NoRun
  <2>3. RunOK(r)
    BY <2>2 DEF RunOK, Hard, LastPair, IsBackfill, Backfill
  <2>4. QED
    BY <1>0, <1>2, <1>a, <2>1, <2>3, SetRun DEF StartBackfill
<1>3. CASE NextPair(w)
  <2> DEFINE r == run[w]
             q == [r EXCEPT !.at = @ + 1]
  <2>1. r.step = "next" /\ r.at <= LastPair /\ r.asked = {}
    BY <1>3, <1>a DEF NextPair, RunOK
  <2>2. CASE run' = [run EXCEPT ![w] = q]
    <3>1. q \in RunType
      <4>1. r.at + 1 \in Nat
        BY <1>a DEF RunType
      <4>2. QED
        BY <1>a, <4>1 DEF RunType
    <3>2. /\ q.at = r.at + 1 /\ q.age = r.age /\ q.asked = {} /\ q.todo = r.todo
          /\ q.task = r.task /\ q.step = "next"
      BY <1>a, <2>1 DEF RunType
    <3>3. q.at \in 1..LastPair + 1
      BY <1>a, <2>1, <3>2 DEF RunOK, LastPair
    <3>4. Hard(q) = Hard(r) /\ (IsBackfill(q) <=> IsBackfill(r))
      BY <3>2 DEF Hard, IsBackfill
    <3>5. RunOK(q)
      BY <1>a, <2>1, <3>2, <3>3, <3>4 DEF RunOK
    <3>6. QED
      BY <1>a, <2>2, <3>1, <3>5, SetRun
  <2>3. ASSUME NEW items \in SUBSET Items, NEW size \in Nat \ {0},
               run' = [run EXCEPT ![w] = Listed(r, items, size)]
        PROVE  RunsOK'
    BY <1>a, <2>1, <2>3, ListedType, SetRun
  <2>4. QED
    BY <1>3, <1>a, <2>2, <2>3, GapItemsType, BatchType DEF NextPair, RunsOK
<1>4. CASE FinishPair(w)
  <2> DEFINE r == run[w]
             q == [r EXCEPT !.step = "next", !.at = @ + 1, !.tracker = "none",
                            !.size = 1, !.failed = FALSE]
  <2>1. r.step = "ready" /\ r.todo = {} /\ r.asked = {} /\ IsBackfill(r) /\ r.at <= LastPair
    BY <1>4, <1>a DEF FinishPair, RunOK
  <2>2. q \in RunType
    <3>1. r.at + 1 \in Nat
      BY <1>a DEF RunType
    <3>2. ASSUME NEW n \in Nat, NEW k \in Nat \ {0}
          PROVE  [r EXCEPT !.step = "next", !.at = n, !.tracker = "none",
                           !.size = k, !.failed = FALSE] \in RunType
      BY <1>a DEF RunType, Steps
    <3>3. 1 \in Nat \ {0}
      OBVIOUS
    <3>4. QED
      BY <3>1, <3>2, <3>3
  <2>3. /\ q.at = r.at + 1 /\ q.age = r.age /\ q.asked = {} /\ q.todo = {}
        /\ q.task = r.task /\ q.step = "next"
    BY <1>a, <2>1 DEF RunType
  <2>4. q.at \in 1..LastPair + 1
    BY <1>a, <2>1, <2>3 DEF RunOK, LastPair
  <2>5. Hard(q) = Hard(r) /\ IsBackfill(q)
    BY <2>1, <2>3 DEF Hard, IsBackfill
  <2>6. RunOK(q)
    BY <1>a, <2>3, <2>4, <2>5 DEF RunOK
  <2>7. run' = [run EXCEPT ![w] = q]
    BY <1>4, <1>a DEF FinishPair, RunsOK
  <2>8. QED
    BY <1>a, <2>2, <2>6, <2>7, SetRun
<1>5. QED
  BY <1>1, <1>2, <1>3, <1>4

\* Time and the reaper.
LEMMA ReapRuns ==
    ASSUME RunsOK, Reap
    PROVE  UNCHANGED run
<1>1. \A w \in Workers : ~Stale(run[w].age)
  <2> SUFFICES ASSUME NEW w \in Workers PROVE ~Stale(run[w].age)
    OBVIOUS
  <2>1. run[w].age \in Nat /\ run[w].age <= Hard(run[w])
    BY DEF RunsOK, RunType, RunOK
  <2>2. QED
    BY <2>1 DEF Stale, Hard
<1>2. \A w \in Workers : run'[w] = run[w]
  BY <1>1 DEF Reap
<1>3. run' = [w \in Workers |-> run[w]]
  BY <1>1 DEF Reap
<1>4. QED
  BY <1>3 DEF RunsOK

LEMMA TickRuns ==
    ASSUME RunsOK, Tick
    PROVE  RunsOK'
<1>1. ASSUME NEW w \in Workers PROVE run'[w] \in RunType /\ RunOK(run'[w])
  <2> DEFINE r == run[w]
             q == [r EXCEPT !.age = @ + 1]
  <2>1. r \in RunType /\ RunOK(r)
    BY DEF RunsOK
  <2>2. CASE r.step = "idle"
    BY <2>1, <2>2 DEF Tick
  <2>3. CASE r.step # "idle"
    <3>1. run'[w] = q
      BY <2>3 DEF Tick
    <3>2. r.age + 1 \in Nat
      BY <2>1 DEF RunType
    <3>3. q \in RunType
      BY <2>1, <3>2 DEF RunType
    <3>4. /\ q.age = r.age + 1 /\ q.at = r.at /\ q.task = r.task /\ q.step = r.step
          /\ q.todo = r.todo /\ q.asked = r.asked
      BY <2>1 DEF RunType
    <3>5. Hard(q) = Hard(r) /\ (IsBackfill(q) <=> IsBackfill(r))
      BY <3>4 DEF Hard, IsBackfill
    <3>6. r.age + 1 <= Hard(r)
      <4>1. r.age < Hard(r)
        BY <2>3 DEF Tick
      <4>2. r.age \in Nat /\ Hard(r) \in Nat
        BY <2>1 DEF RunType, Hard
      <4>3. QED
        BY <4>1, <4>2
    <3>7. RunOK(q)
      BY <2>1, <3>4, <3>5, <3>6 DEF RunOK
    <3>8. QED
      BY <3>1, <3>3, <3>7
  <2>4. QED
    BY <2>2, <2>3
<1>2. run' = [w \in Workers |-> IF run[w].step = "idle" THEN run[w]
                                ELSE [run[w] EXCEPT !.age = @ + 1]]
  BY DEF Tick
<1>3. run' \in [Workers -> RunType]
  BY <1>1, <1>2
<1>4. QED
  BY <1>1, <1>3 DEF RunsOK

LEMMA RunsStep ==
    ASSUME TypeInv, [Next]_vars
    PROVE  RunsOK'
<1>a. RunsOK
  BY DEF TypeInv
<1>0. ASSUME UNCHANGED run PROVE RunsOK'
  BY <1>a, <1>0 DEF RunsOK
<1>1. ASSUME NEW w \in Workers,
             \/ BackfillDone(w) \/ RateLimited(w) \/ FinishDaily(w)
             \/ SoftInQuery(w) \/ SoftOutside(w) \/ Raise(w) \/ HardKill(w)
             \/ Crash(w)
      PROVE  RunsOK'
  <2>1. End(w)
    BY <1>1 DEF BackfillDone, RateLimited, FinishDaily, SoftInQuery, SoftOutside,
                Raise, HardKill, Crash
  <2>2. QED
    BY <1>a, <2>1, EndRun
<1>2. ASSUME NEW w \in Workers,
             \/ Ask(w) \/ Succeed(w) \/ BatchFails(w) \/ Booked(w) \/ SoftSwallowed(w)
      PROVE  RunsOK'
  BY <1>a, <1>2, AskRuns, WorkRuns
<1>3. ASSUME NEW w \in Workers,
             \/ \E m \in messages : StartDaily(w, m)
             \/ StartBackfill(w) \/ NextPair(w) \/ FinishPair(w)
      PROVE  RunsOK'
  BY <1>3, StartRuns
<1>4. ASSUME NEW m \in Scheduled, Send(m) PROVE RunsOK'
  BY <1>0, <1>4 DEF Send
<1>5. CASE Reap
  BY <1>0, <1>a, <1>5, ReapRuns
<1>6. CASE Tick
  BY <1>a, <1>6, TickRuns
<1>7. CASE UNCHANGED vars
  BY <1>0, <1>7 DEF vars
<1>8. QED
  BY <1>1, <1>2, <1>3, <1>4, <1>5, <1>6, <1>7 DEF Next

\* A task that is queued again is a task.
LEMMA RetriedType ==
    ASSUME TypeInv, NEW w \in Workers, ~IsBackfill(run[w]), NEW n \in Nat \ {0}
    PROVE  Retried(w, n) \subseteq Tasks
<1> DEFINE t == run[w].task
<1>1. t \in Dailies /\ messages \subseteq Tasks
  BY DEF TypeInv, RunsOK, RunType, Tasks, IsBackfill, Backfill
<1>2. CASE t.retries < MaxRetries
  <2>1. t.retries + 1 \in 0..MaxRetries
    BY <1>1, <1>2 DEF Dailies
  <2>2. ASSUME NEW k \in 0..MaxRetries
        PROVE  [t EXCEPT !.size = n, !.force = FALSE, !.retries = k] \in Dailies
    BY <1>1 DEF Dailies
  <2>3. [t EXCEPT !.size = n, !.force = FALSE, !.retries = @ + 1] \in Dailies
    BY <2>1, <2>2
  <2>4. QED
    BY <1>1, <1>2, <2>3 DEF Retried, Tasks
<1>3. CASE ~(t.retries < MaxRetries)
  BY <1>1, <1>3 DEF Retried
<1>4. QED
  BY <1>2, <1>3

LEMMA ScheduledType == Scheduled \subseteq Tasks
<1>1. ASSUME NEW k \in Kinds, NEW f \in BOOLEAN
      PROVE  [name |-> "daily", kind |-> k, date |-> LastDate, size |-> BatchOf(k),
              retries |-> 0, force |-> f] \in Dailies
  <2>1. LastDate \in Dates /\ BatchOf(k) \in Nat \ {0} /\ 0 \in 0..MaxRetries
    BY BatchType DEF Dates
  <2>2. QED
    BY <2>1 DEF Dailies
<1>2. TRUE \in BOOLEAN /\ FALSE \in BOOLEAN
  OBVIOUS
<1>3. QED
  BY <1>1, <1>2, KindsAssumption DEF Scheduled, Tasks

LEMMA MessagesStep ==
    ASSUME TypeInv, [Next]_vars
    PROVE  messages' \subseteq Tasks
<1>a. messages \subseteq Tasks /\ Backfill \in Tasks
  BY DEF TypeInv, Tasks
<1>b. \A w \in Workers : /\ run[w].task \in Tasks
                         /\ run[w].size \in Nat \ {0}
                         /\ Halved(run[w].size) \in Nat \ {0}
  BY HalvedType DEF TypeInv, RunsOK, RunType
<1>0. ASSUME messages' \subseteq messages PROVE messages' \subseteq Tasks
  BY <1>a, <1>0
<1>1. ASSUME NEW m \in Scheduled, Send(m) PROVE messages' \subseteq Tasks
  BY <1>a, <1>1, ScheduledType DEF Send
<1>2. ASSUME NEW w \in Workers,
             RateLimited(w) \/ FinishDaily(w) \/ SoftInQuery(w) \/ SoftOutside(w)
      PROVE  messages' \subseteq Tasks
  <2>1. ASSUME ~IsBackfill(run[w])
        PROVE  /\ Retried(w, run[w].size) \subseteq Tasks
               /\ Retried(w, Halved(run[w].size)) \subseteq Tasks
    BY <1>b, <2>1, RetriedType
  <2>2. CASE RateLimited(w)
    BY <1>a, <2>1, <2>2 DEF RateLimited
  <2>3. CASE FinishDaily(w)
    BY <1>a, <2>1, <2>3 DEF FinishDaily
  <2>4. CASE SoftInQuery(w)
    BY <1>a, <2>1, <2>4 DEF SoftInQuery
  <2>5. CASE SoftOutside(w)
    BY <1>a, <2>5 DEF SoftOutside
  <2>6. QED
    BY <1>2, <2>2, <2>3, <2>4, <2>5
<1>3. ASSUME NEW w \in Workers, Crash(w) PROVE messages' \subseteq Tasks
  BY <1>a, <1>b, <1>3 DEF Crash
<1>4. ASSUME NEW w \in Workers,
             \/ \E m \in messages : StartDaily(w, m)
             \/ StartBackfill(w) \/ NextPair(w) \/ BackfillDone(w) \/ Ask(w)
             \/ Succeed(w) \/ BatchFails(w) \/ Booked(w) \/ FinishPair(w)
             \/ SoftSwallowed(w) \/ Raise(w) \/ HardKill(w)
      PROVE  messages' \subseteq Tasks
  BY <1>0, <1>4 DEF StartDaily, StartBackfill, NextPair, BackfillDone, Ask, Succeed,
                    BatchFails, Booked, FinishPair, SoftSwallowed, Raise, HardKill
<1>5. CASE Reap \/ Tick \/ UNCHANGED vars
  BY <1>0, <1>5 DEF Reap, Tick, vars
<1>6. QED
  BY <1>1, <1>2, <1>3, <1>4, <1>5 DEF Next

LEMMA LockStep ==
    ASSUME TypeInv, [Next]_vars
    PROVE  LockOK'
<1>a. LockOK
  BY DEF TypeInv
<1>0. ASSUME \/ UNCHANGED lockVars
             \/ lock' = NoWorker /\ expiry' = 0
             \/ \E w \in Workers : lock' = w /\ expiry' = LockTimeout
      PROVE  LockOK'
  BY <1>a, <1>0 DEF LockOK, lockVars
<1>1. ASSUME NEW w \in Workers, Release(w) PROVE LockOK'
  BY <1>0, <1>1 DEF Release
<1>2. ASSUME NEW w \in Workers,
             BackfillDone(w) \/ RateLimited(w) \/ SoftInQuery(w) \/ SoftOutside(w)
                 \/ Raise(w)
      PROVE  LockOK'
  BY <1>1, <1>2 DEF BackfillDone, RateLimited, SoftInQuery, SoftOutside, Raise
<1>3. ASSUME NEW w \in Workers, StartBackfill(w) PROVE LockOK'
  BY <1>0, <1>3 DEF StartBackfill
<1>4. CASE Tick
  BY <1>a, <1>4 DEF Tick, LockOK
<1>5. ASSUME NEW w \in Workers,
             \/ \E m \in messages : StartDaily(w, m)
             \/ NextPair(w) \/ Ask(w) \/ Succeed(w) \/ BatchFails(w) \/ Booked(w)
             \/ FinishDaily(w) \/ FinishPair(w) \/ SoftSwallowed(w) \/ HardKill(w)
             \/ Crash(w)
      PROVE  LockOK'
  BY <1>0, <1>5 DEF StartDaily, NextPair, Ask, Succeed, BatchFails, Booked,
                    FinishDaily, FinishPair, SoftSwallowed, HardKill, Crash
<1>6. CASE (\E m \in Scheduled : Send(m)) \/ Reap \/ UNCHANGED vars
  BY <1>0, <1>6 DEF Send, Reap, vars, lockVars
<1>7. QED
  BY <1>2, <1>3, <1>4, <1>5, <1>6 DEF Next

LEMMA SyncedStep ==
    ASSUME TypeInv, [Next]_vars
    PROVE  synced' \subseteq Gaps /\ synced \subseteq synced'
<1>a. synced \subseteq Gaps
  BY DEF TypeInv
<1>1. ASSUME NEW w \in Workers, Succeed(w) \/ SoftInQuery(w)
      PROVE  synced' \subseteq Gaps /\ synced \subseteq synced'
  <2>1. run[w].asked \subseteq Items /\ DateOf(run[w]) \in Dates
    <3>1. run[w] \in RunType /\ RunOK(run[w]) /\ run[w].step = "query"
      BY <1>1 DEF TypeInv, RunsOK, Succeed, SoftInQuery
    <3>2. QED
      BY <3>1, DateType DEF RunType
  <2>2. UNCHANGED synced \/ synced' = synced \cup On(run[w].asked, DateOf(run[w]))
    BY <1>1 DEF Succeed, SoftInQuery
  <2>3. QED
    BY <1>a, <2>1, <2>2 DEF On, Gaps
<1>2. ASSUME UNCHANGED synced PROVE synced' \subseteq Gaps /\ synced \subseteq synced'
  BY <1>a, <1>2
<1>3. ASSUME NEW w \in Workers,
             \/ \E m \in messages : StartDaily(w, m)
             \/ StartBackfill(w) \/ NextPair(w) \/ BackfillDone(w) \/ Ask(w)
             \/ BatchFails(w) \/ Booked(w) \/ RateLimited(w) \/ FinishDaily(w)
             \/ FinishPair(w)
      PROVE  UNCHANGED synced
  BY <1>3 DEF StartDaily, StartBackfill, NextPair, BackfillDone, Ask, BatchFails,
              Booked, RateLimited, FinishDaily, FinishPair
<1>4. ASSUME NEW w \in Workers,
             \/ SoftSwallowed(w) \/ SoftOutside(w) \/ Raise(w)
             \/ HardKill(w) \/ Crash(w)
      PROVE  UNCHANGED synced
  BY <1>4 DEF SoftSwallowed, SoftOutside, Raise, HardKill, Crash
<1>5. ASSUME (\E m \in Scheduled : Send(m)) \/ Reap \/ Tick \/ UNCHANGED vars
      PROVE  UNCHANGED synced
  BY <1>5 DEF Send, Reap, Tick, vars
<1>6. QED
  BY <1>1, <1>2, <1>3, <1>4, <1>5 DEF Next

LEMMA TypeInit == Init => TypeInv
<1> SUFFICES ASSUME Init PROVE TypeInv
  OBVIOUS
<1>1. RunsOK
  BY NoRunOK DEF Init, RunsOK
<1>2. LockOK /\ messages \subseteq Tasks /\ synced \subseteq Gaps
  BY DEF Init, LockOK
<1>3. QED
  BY <1>1, <1>2 DEF TypeInv

LEMMA TypeStep == TypeInv /\ [Next]_vars => TypeInv'
<1>1. ASSUME TypeInv, [Next]_vars PROVE TypeInv'
  BY <1>1, RunsStep, MessagesStep, LockStep, SyncedStep DEF TypeInv
<1>2. QED
  BY <1>1

LEMMA TypeHolds == Spec => []TypeInv
  BY TypeInit, TypeStep, PTL DEF Spec

\* The types: a task keeps within its retries, a run within its hard limit and
\* its pairs.
THEOREM SyncTyped == Spec => []TypeOK
<1>1. ASSUME TypeInv PROVE TypeOK
  <2>1. ASSUME NEW w \in Workers
        PROVE  /\ run[w].step \in Steps /\ run[w].task \in Tasks
               /\ run[w].at \in 1..LastPair + 1
               /\ run[w].todo \subseteq Items /\ run[w].asked \subseteq Items
               /\ run[w].size \in Nat \ {0} /\ run[w].age \in 0..Hard(run[w])
               /\ run[w].failed \in BOOLEAN /\ run[w].deaf \in BOOLEAN
               /\ run[w].tracker \in {"none", "started", "failed"}
               /\ run[w].tried \subseteq Gaps
    <3>1. run[w] \in RunType /\ RunOK(run[w])
      BY <1>1 DEF TypeInv, RunsOK
    <3>2. run[w].age \in 0..Hard(run[w])
      <4>1. run[w].age \in Nat /\ run[w].age <= Hard(run[w]) /\ Hard(run[w]) \in Nat
        BY <3>1 DEF RunType, RunOK, Hard
      <4>2. QED
        BY <4>1
    <3>3. QED
      BY <3>1, <3>2 DEF RunType, RunOK
  <2>2. QED
    BY <1>1, <2>1 DEF TypeInv, LockOK, TypeOK
<1>2. QED
  BY <1>1, TypeHolds, PTL

-----------------------------------------------------------------------------
(****************************************************************************)
(* The lock of the back-fill                                                *)
(****************************************************************************)

\* A back-fill that may still be told to stop has the lock, and the lock's time
\* runs out no sooner than its own.
Stoppable(r) == r.step # "idle" /\ IsBackfill(r) /\ ~r.deaf
LockInv ==
    \A w \in Workers : Stoppable(run[w]) =>
        lock = w /\ expiry + run[w].age = LockTimeout /\ run[w].age <= BackfillSoft

\* Runs that end, and steps in which a run stays what it is.
LEMMA EndStoppable ==
    ASSUME RunsOK, NEW w \in Workers, End(w)
    PROVE  \A v \in Workers : Stoppable(run'[v]) => v # w /\ run'[v] = run[v]
<1>1. ~Stoppable(NoRun)
  BY DEF Stoppable, NoRun
<1>2. QED
  BY <1>1 DEF End, RunsOK

LEMMA StayStoppable ==
    ASSUME RunsOK, NEW w \in Workers,
           \/ \E m \in messages : StartDaily(w, m)
           \/ NextPair(w) \/ Ask(w) \/ Succeed(w) \/ BatchFails(w) \/ Booked(w)
           \/ FinishPair(w) \/ SoftSwallowed(w),
           messages \subseteq Tasks
    PROVE  \A v \in Workers : Stoppable(run'[v]) =>
               Stoppable(run[v]) /\ run'[v].age = run[v].age
<1> DEFINE r == run[w]
<1>1. r \in RunType
  BY DEF RunsOK
<1>0. ASSUME NEW q, run' = [run EXCEPT ![w] = q],
             Stoppable(q) => Stoppable(r) /\ q.age = r.age
      PROVE  \A v \in Workers : Stoppable(run'[v]) =>
                 Stoppable(run[v]) /\ run'[v].age = run[v].age
  BY <1>0 DEF RunsOK
<1>2. ASSUME NEW m \in messages, StartDaily(w, m)
      PROVE  \A v \in Workers : Stoppable(run'[v]) =>
                 Stoppable(run[v]) /\ run'[v].age = run[v].age
  <2> DEFINE q == Listed([NoRun EXCEPT !.task = m],
                         GapItems(m.kind, m.date, m.force), m.size)
  <2>1. q.task = m /\ m.name = "daily"
    BY <1>2 DEF StartDaily, Listed, NoRun
  <2>2. ~Stoppable(q)
    BY <2>1 DEF Stoppable, IsBackfill
  <2>3. CASE run' = [run EXCEPT ![w] = q]
    BY <1>0, <2>2, <2>3
  <2>4. QED
    BY <1>2, <2>3 DEF StartDaily
<1>3. CASE NextPair(w)
  <2> DEFINE q == [r EXCEPT !.at = @ + 1]
  <2>1. r.step = "next"
    BY <1>3 DEF NextPair
  <2>2. CASE run' = [run EXCEPT ![w] = q]
    <3>1. /\ q.step = r.step /\ q.task = r.task /\ q.deaf = r.deaf /\ q.age = r.age
      BY <1>1 DEF RunType
    <3>2. QED
      BY <1>0, <2>2, <3>1 DEF Stoppable, IsBackfill
  <2>3. ASSUME NEW items, NEW size, run' = [run EXCEPT ![w] = Listed(r, items, size)]
        PROVE  \A v \in Workers : Stoppable(run'[v]) =>
                   Stoppable(run[v]) /\ run'[v].age = run[v].age
    <3>1. /\ Listed(r, items, size).task = r.task
          /\ Listed(r, items, size).deaf = r.deaf
          /\ Listed(r, items, size).age = r.age
      BY <1>1 DEF Listed, RunType
    <3>2. QED
      BY <1>0, <2>1, <2>3, <3>1 DEF Stoppable, IsBackfill
  <2>4. CASE run' = [run EXCEPT ![w].at = @ + 1]
    BY <2>2, <2>4 DEF RunsOK
  <2>5. QED
    BY <1>3, <2>3, <2>4 DEF NextPair
<1>4. CASE Ask(w) \/ Succeed(w) \/ BatchFails(w) \/ Booked(w) \/ FinishPair(w)
  <2>1. /\ run'[w].task = r.task /\ run'[w].deaf = r.deaf /\ run'[w].age = r.age
        /\ r.step # "idle" /\ \A v \in Workers \ {w} : run'[v] = run[v]
    BY <1>1, <1>4 DEF RunsOK, RunType, Ask, Succeed, BatchFails, Booked, FinishPair
  <2>2. QED
    BY <2>1 DEF Stoppable, IsBackfill
<1>5. CASE SoftSwallowed(w)
  <2>1. run'[w].deaf /\ \A v \in Workers \ {w} : run'[v] = run[v]
    BY <1>1, <1>5 DEF RunsOK, RunType, SoftSwallowed
  <2>2. QED
    BY <2>1 DEF Stoppable
<1>6. QED
  BY <1>2, <1>3, <1>4, <1>5

LEMMA LockInvStep ==
    ASSUME TypeInv, LockInv, [Next]_vars
    PROVE  LockInv'
<1>a. RunsOK /\ LockOK /\ messages \subseteq Tasks
  BY DEF TypeInv
<1>0. ASSUME UNCHANGED lockVars,
             \A v \in Workers : Stoppable(run'[v]) =>
                 Stoppable(run[v]) /\ run'[v].age = run[v].age
      PROVE  LockInv'
  BY <1>0 DEF LockInv, lockVars
\* The lock is given back by who has it.
<1>1. ASSUME NEW w \in Workers, End(w), Release(w) \/ UNCHANGED lockVars
      PROVE  LockInv'
  <2>1. \A v \in Workers : Stoppable(run'[v]) => v # w /\ run'[v] = run[v]
    BY <1>a, <1>1, EndStoppable
  <2>2. CASE UNCHANGED lockVars
    BY <1>0, <2>1, <2>2
  <2>3. CASE lock = w
    BY <2>1, <2>3 DEF LockInv
  <2>4. QED
    BY <1>1, <2>2, <2>3 DEF Release
<1>2. ASSUME NEW w \in Workers,
             \/ BackfillDone(w) \/ RateLimited(w) \/ SoftInQuery(w)
             \/ SoftOutside(w) \/ Raise(w) \/ FinishDaily(w) \/ HardKill(w)
             \/ Crash(w)
      PROVE  LockInv'
  BY <1>1, <1>2 DEF BackfillDone, RateLimited, SoftInQuery, SoftOutside, Raise,
                    FinishDaily, HardKill, Crash
<1>3. ASSUME NEW w \in Workers,
             \/ \E m \in messages : StartDaily(w, m)
             \/ NextPair(w) \/ Ask(w) \/ Succeed(w) \/ BatchFails(w) \/ Booked(w)
             \/ FinishPair(w) \/ SoftSwallowed(w)
      PROVE  LockInv'
  <2>1. UNCHANGED lockVars
    BY <1>3 DEF StartDaily, NextPair, Ask, Succeed, BatchFails, Booked, FinishPair,
                SoftSwallowed
  <2>2. QED
    BY <1>0, <1>3, <1>a, <2>1, StayStoppable
<1>4. ASSUME NEW w \in Workers, StartBackfill(w) PROVE LockInv'
  <2>1. CASE lock = NoWorker
    <3>1. \A v \in Workers : ~Stoppable(run[v])
      BY <2>1 DEF LockInv
    <3>2. /\ run' = [run EXCEPT ![w] = [NoRun EXCEPT !.step = "next"]]
          /\ lock' = w /\ expiry' = LockTimeout
      BY <1>4, <2>1 DEF StartBackfill
    <3>3. [NoRun EXCEPT !.step = "next"].age = 0
      BY DEF NoRun
    <3>4. \A v \in Workers : Stoppable(run'[v]) => v = w /\ run'[w].age = 0
      BY <1>a, <3>1, <3>2, <3>3 DEF RunsOK
    <3>5. QED
      BY <3>2, <3>4 DEF LockInv
  <2>2. CASE lock # NoWorker
    BY <1>0, <1>4, <2>2 DEF StartBackfill
  <2>3. QED
    BY <2>1, <2>2
<1>5. CASE Tick
  <2> SUFFICES ASSUME NEW w \in Workers, Stoppable(run'[w])
               PROVE  /\ lock' = w /\ expiry' + run'[w].age = LockTimeout
                      /\ run'[w].age <= BackfillSoft
    BY DEF LockInv
  <2>1. run[w].step # "idle"
    BY <1>5 DEF Tick, Stoppable
  <2>2. run'[w] = [run[w] EXCEPT !.age = @ + 1]
    BY <1>5, <2>1 DEF Tick
  <2>3. /\ run'[w].age = run[w].age + 1 /\ run'[w].step = run[w].step
        /\ run'[w].task = run[w].task /\ run'[w].deaf = run[w].deaf
    BY <1>a, <2>2 DEF RunsOK, RunType
  <2>4. Stoppable(run[w])
    BY <2>3 DEF Stoppable, IsBackfill
  <2>5. lock = w /\ expiry + run[w].age = LockTimeout /\ run[w].age \in Nat /\ expiry \in Nat
    BY <1>a, <2>4 DEF LockInv, LockOK, RunsOK, RunType
  <2>6. run[w].age < BackfillSoft
    <3>1. ~(run[w].age >= BackfillSoft)
      BY <1>5, <2>4 DEF Tick, SoftDue, Soft, Stoppable
    <3>2. QED
      BY <2>5, <3>1
  <2>7. expiry > 1
    BY <2>5, <2>6
  <2>8. lock' = lock /\ expiry' = expiry - 1
    BY <1>5, <2>5, <2>7 DEF Tick
  <2>9. QED
    BY <2>3, <2>5, <2>6, <2>8
<1>6. CASE Reap
  <2>1. UNCHANGED run
    BY <1>a, <1>6, ReapRuns
  <2>2. QED
    BY <1>0, <1>6, <2>1 DEF Reap
<1>7. CASE (\E m \in Scheduled : Send(m)) \/ UNCHANGED vars
  <2>1. UNCHANGED <<run, lockVars>>
    BY <1>7 DEF Send, vars, lockVars
  <2>2. QED
    BY <1>0, <2>1
<1>8. QED
  BY <1>2, <1>3, <1>4, <1>5, <1>6, <1>7 DEF Next

\* Two back-fills overlap only while one of them lives on after its soft time
\* limit was swallowed.
THEOREM BackfillsApart == Spec => []OverlapOnlyIfDeaf
<1>1. Init => LockInv
  <2>1. ~Stoppable(NoRun)
    BY DEF Stoppable, NoRun
  <2>2. QED
    BY <2>1 DEF Init, LockInv
<1>2. TypeInv /\ LockInv /\ [Next]_vars => LockInv'
  BY LockInvStep
<1>3. LockInv => OverlapOnlyIfDeaf
  BY DEF LockInv, OverlapOnlyIfDeaf, Backfilling, Stoppable
<1>4. QED
  BY <1>1, <1>2, <1>3, TypeHolds, PTL DEF Spec

-----------------------------------------------------------------------------
(****************************************************************************)
(* The reaper                                                               *)
(****************************************************************************)

\* Every step but the reaper's leaves a tracker as it is, opens one, or ends
\* the run with it.
LEMMA TrackerStep ==
    ASSUME TypeInv, ReaperSparesRuns, [Next]_vars
    PROVE  ReaperSparesRuns'
<1>a. RunsOK
  BY DEF TypeInv
<1>0. ASSUME \A v \in Workers :
                 run'[v].tracker \in {run[v].tracker, "none", "started"}
      PROVE  ReaperSparesRuns'
  BY <1>0 DEF ReaperSparesRuns
<1>1. ASSUME NEW w \in Workers, End(w) PROVE ReaperSparesRuns'
  BY <1>0, <1>1, <1>a DEF End, RunsOK, NoRun
<1>2. ASSUME NEW w \in Workers,
             \/ BackfillDone(w) \/ RateLimited(w) \/ FinishDaily(w)
             \/ SoftInQuery(w) \/ SoftOutside(w) \/ Raise(w) \/ HardKill(w)
             \/ Crash(w)
      PROVE  ReaperSparesRuns'
  BY <1>1, <1>2 DEF BackfillDone, RateLimited, FinishDaily, SoftInQuery, SoftOutside,
                    Raise, HardKill, Crash
<1>3. ASSUME NEW w \in Workers,
             \/ Ask(w) \/ Succeed(w) \/ BatchFails(w) \/ Booked(w) \/ SoftSwallowed(w)
      PROVE  ReaperSparesRuns'
  BY <1>0, <1>3, <1>a DEF RunsOK, RunType, Ask, Succeed, BatchFails, Booked,
                          SoftSwallowed
<1>b. ASSUME NEW w \in Workers, NEW r \in RunType, NEW items, NEW size,
             run' = [run EXCEPT ![w] = Listed(r, items, size)]
      PROVE  ReaperSparesRuns'
  <2>1. Listed(r, items, size).tracker = "started"
    BY DEF Listed, RunType
  <2>2. QED
    BY <1>0, <1>a, <1>b, <2>1 DEF RunsOK
<1>4. ASSUME NEW w \in Workers, NEW m \in messages, StartDaily(w, m)
      PROVE  ReaperSparesRuns'
  <2>1. m \in Tasks
    BY DEF TypeInv
  <2>2. [NoRun EXCEPT !.task = m] \in RunType
    BY <2>1, NoRunOK DEF RunType
  <2>3. CASE UNCHANGED run
    BY <1>0, <2>3
  <2>4. QED
    BY <1>4, <1>b, <2>2, <2>3 DEF StartDaily
<1>5. ASSUME NEW w \in Workers, StartBackfill(w) PROVE ReaperSparesRuns'
  <2>1. [NoRun EXCEPT !.step = "next"].tracker = "none"
    BY DEF NoRun
  <2>2. QED
    BY <1>0, <1>5, <1>a, <2>1 DEF StartBackfill, RunsOK
<1>6. ASSUME NEW w \in Workers, NextPair(w) PROVE ReaperSparesRuns'
  <2>1. run[w] \in RunType
    BY <1>a DEF RunsOK
  <2>2. CASE run' = [run EXCEPT ![w].at = @ + 1]
    BY <1>0, <1>a, <2>2 DEF RunsOK, RunType
  <2>3. QED
    BY <1>6, <1>b, <2>1, <2>2 DEF NextPair
<1>7. ASSUME NEW w \in Workers, FinishPair(w) PROVE ReaperSparesRuns'
  BY <1>0, <1>7, <1>a DEF RunsOK, RunType, FinishPair
<1>8. CASE Tick
  BY <1>0, <1>8, <1>a DEF RunsOK, RunType, Tick
<1>9. CASE Reap
  BY <1>0, <1>9, <1>a, ReapRuns
<1>10. CASE (\E m \in Scheduled : Send(m)) \/ UNCHANGED vars
  BY <1>0, <1>10 DEF Send, vars
<1>11. QED
  BY <1>2, <1>3, <1>4, <1>5, <1>6, <1>7, <1>8, <1>9, <1>10 DEF Next

\* The reaper never gives up the tracker of a run that goes on.
THEOREM TrackersSpared == Spec => []ReaperSparesRuns
<1>1. Init => ReaperSparesRuns
  BY DEF Init, ReaperSparesRuns, NoRun
<1>2. TypeInv /\ ReaperSparesRuns /\ [Next]_vars => ReaperSparesRuns'
  BY TrackerStep
<1>3. QED
  BY <1>1, <1>2, TypeHolds, PTL DEF Spec

-----------------------------------------------------------------------------
(****************************************************************************)
(* The back-fill's way through the gaps                                     *)
(****************************************************************************)

\* Of the pair it is at, a back-fill has closed, asked for or still lists
\* every gap.
Pair(n) == On(Of(PairAt(n).kind), PairAt(n).date)
Path(r, closed) ==
    r.step # "idle" /\ IsBackfill(r) =>
        /\ \A n \in 1..r.at - 1 : Pair(n) \subseteq closed \cup r.tried
        /\ r.step # "next" =>
               Pair(r.at) \subseteq closed \cup r.tried \cup On(r.todo, DateOf(r))
PathInv == \A w \in Workers : Path(run[w], synced)

LEMMA PathMore ==
    ASSUME NEW r, NEW S, NEW closed \in SUBSET S, Path(r, closed)
    PROVE  Path(r, S)
  BY DEF Path

\* A run that works on leaves its pair alone.
LEMMA PathSame ==
    ASSUME NEW r, NEW q, NEW closed, Path(r, closed),
           q.step # "next", r.step \notin {"idle", "next"},
           q.task = r.task, q.at = r.at, q.tried = r.tried, q.todo = r.todo
    PROVE  Path(q, closed)
<1>1. DateOf(q) = DateOf(r) /\ (IsBackfill(q) <=> IsBackfill(r))
  BY DEF DateOf, IsBackfill
<1>2. QED
  BY <1>1 DEF Path

LEMMA PathWork ==
    ASSUME TypeInv, PathInv, synced \subseteq synced', NEW w \in Workers,
           \/ Ask(w) \/ Succeed(w) \/ BatchFails(w) \/ Booked(w) \/ SoftSwallowed(w)
    PROVE  Path(run'[w], synced')
<1> DEFINE r == run[w]  q == run'[w]
<1>1. r \in RunType /\ RunsOK /\ Path(r, synced)
  BY DEF TypeInv, RunsOK, PathInv
<1>2. CASE Succeed(w) \/ BatchFails(w) \/ Booked(w) \/ SoftSwallowed(w)
  <2>1. /\ q.task = r.task /\ q.at = r.at /\ q.tried = r.tried /\ q.todo = r.todo
        /\ q.step # "next" /\ r.step \notin {"idle", "next"}
    BY <1>1, <1>2 DEF RunsOK, RunType, Succeed, BatchFails, Booked, SoftSwallowed
  <2>2. Path(q, synced)
    BY <1>1, <2>1, PathSame
  <2>3. QED
    BY <2>2, PathMore
<1>3. CASE Ask(w)
  <2> DEFINE batch == First(r.size, r.todo)
  <2>1. /\ q.task = r.task /\ q.at = r.at /\ q.step = "query" /\ r.step = "ready"
        /\ q.todo = Rest(r)
        /\ IsBackfill(r) => q.tried = r.tried \cup On(batch, DateOf(r))
    BY <1>1, <1>3 DEF RunsOK, RunType, Ask
  <2>2. DateOf(q) = DateOf(r) /\ (IsBackfill(q) <=> IsBackfill(r))
    BY <2>1 DEF DateOf, IsBackfill
  <2>3. On(r.todo, DateOf(r)) \subseteq On(batch, DateOf(r)) \cup On(q.todo, DateOf(q))
    BY <2>1, <2>2 DEF On, Rest
  <2>4. Path(q, synced)
    BY <1>1, <2>1, <2>2, <2>3 DEF Path
  <2>5. QED
    BY <2>4, PathMore
<1>4. QED
  BY <1>2, <1>3

\* A pair that is listed, passed over, or finished.
LEMMA PathNext ==
    ASSUME TypeInv, PathInv, synced \subseteq synced', NEW w \in Workers,
           NextPair(w) \/ FinishPair(w)
    PROVE  Path(run'[w], synced')
<1> DEFINE r == run[w]  q == run'[w]
           items == GapItems(KindOf(r), DateOf(r), FALSE)
<1>1. r \in RunType /\ RunsOK /\ RunOK(r) /\ Path(r, synced)
  BY DEF TypeInv, RunsOK, PathInv
<1>a. r.at \in Nat
  BY <1>1 DEF RunType
\* The run goes on to the pair after one of which nothing is left.
<1>2. ASSUME q.step = "next", q.at = r.at + 1, q.tried = r.tried, q.task = r.task,
             r.step # "idle", IsBackfill(r), Pair(r.at) \subseteq synced \cup r.tried
      PROVE  Path(q, synced')
  <2>1. \A n \in 1..r.at - 1 : Pair(n) \subseteq synced \cup r.tried
    BY <1>1, <1>2 DEF Path
  <2>2. \A n \in 1..q.at - 1 : n = r.at \/ n \in 1..r.at - 1
    BY <1>a, <1>2
  <2>3. \A n \in 1..q.at - 1 : Pair(n) \subseteq synced \cup q.tried
    BY <1>2, <2>1, <2>2
  <2>4. Path(q, synced)
    BY <1>2, <2>3 DEF Path
  <2>5. QED
    BY <2>4, PathMore
<1>3. CASE NextPair(w)
  <2>1. r.step = "next" /\ IsBackfill(r)
    BY <1>1, <1>3 DEF NextPair, RunOK
  <2>2. Pair(r.at) \subseteq synced \cup On(items, DateOf(r))
    <3>1. KindOf(r) = PairAt(r.at).kind /\ DateOf(r) = PairAt(r.at).date
      BY <2>1 DEF KindOf, DateOf
    <3>2. QED
      BY <3>1 DEF Pair, On, GapItems
  <2>3. CASE items = {}
    <3>1. run' = [run EXCEPT ![w].at = @ + 1]
      BY <1>3, <2>3 DEF NextPair
    <3>2. q.step = "next" /\ q.at = r.at + 1 /\ q.tried = r.tried /\ q.task = r.task
      BY <1>1, <2>1, <3>1 DEF RunsOK, RunType
    <3>3. Pair(r.at) \subseteq synced
      BY <2>2, <2>3 DEF On
    <3>4. QED
      BY <1>2, <2>1, <3>2, <3>3
  <2>4. CASE items # {}
    <3>1. \E size : q = Listed(r, items, size)
      BY <1>1, <1>3, <2>4 DEF NextPair, RunsOK
    <3>2. /\ q.step = "ready" /\ q.at = r.at /\ q.tried = r.tried /\ q.task = r.task
          /\ q.todo = items
      BY <1>1, <3>1 DEF Listed, RunType
    <3>3. DateOf(q) = DateOf(r) /\ IsBackfill(q)
      BY <2>1, <3>2 DEF DateOf, IsBackfill
    <3>4. Path(q, synced)
      BY <1>1, <2>1, <2>2, <3>2, <3>3 DEF Path
    <3>5. QED
      BY <3>4, PathMore
  <2>5. QED
    BY <2>3, <2>4
<1>4. CASE FinishPair(w)
  <2>1. r.step = "ready" /\ r.todo = {} /\ IsBackfill(r)
    BY <1>4 DEF FinishPair
  <2>2. q.step = "next" /\ q.at = r.at + 1 /\ q.tried = r.tried /\ q.task = r.task
    BY <1>1, <1>4 DEF FinishPair, RunsOK, RunType
  <2>3. Pair(r.at) \subseteq synced \cup r.tried
    BY <1>1, <2>1 DEF Path, On
  <2>4. QED
    BY <1>2, <2>1, <2>2, <2>3
<1>5. QED
  BY <1>3, <1>4

LEMMA PathStep ==
    ASSUME TypeInv, PathInv, [Next]_vars
    PROVE  PathInv'
<1>a. RunsOK /\ synced \subseteq synced' /\ messages \subseteq Tasks
  BY SyncedStep DEF TypeInv
<1>b. \A v \in Workers : Path(run[v], synced')
  BY <1>a, PathMore DEF PathInv
<1>0. ASSUME \A v \in Workers : Path(run'[v], synced') PROVE PathInv'
  BY <1>0 DEF PathInv
\* Another run, and one that is no back-fill.
<1>c. ASSUME NEW w \in Workers, NEW q, run' = [run EXCEPT ![w] = q], Path(q, synced')
      PROVE  PathInv'
  BY <1>0, <1>a, <1>b, <1>c DEF RunsOK
<1>1. ASSUME NEW w \in Workers, End(w) PROVE PathInv'
  <2>1. Path(NoRun, synced')
    BY DEF Path, NoRun
  <2>2. QED
    BY <1>1, <1>c, <2>1 DEF End
<1>2. ASSUME NEW w \in Workers,
             \/ BackfillDone(w) \/ RateLimited(w) \/ FinishDaily(w)
             \/ SoftInQuery(w) \/ SoftOutside(w) \/ Raise(w) \/ HardKill(w)
             \/ Crash(w)
      PROVE  PathInv'
  BY <1>1, <1>2 DEF BackfillDone, RateLimited, FinishDaily, SoftInQuery, SoftOutside,
                    Raise, HardKill, Crash
<1>3. ASSUME NEW w \in Workers,
             \/ Ask(w) \/ Succeed(w) \/ BatchFails(w) \/ Booked(w) \/ SoftSwallowed(w)
             \/ NextPair(w) \/ FinishPair(w)
      PROVE  PathInv'
  <2>1. Path(run'[w], synced')
    BY <1>3, <1>a, PathWork, PathNext
  <2>2. \A v \in Workers \ {w} : run'[v] = run[v]
    BY <1>3, <1>a DEF RunsOK, Ask, Succeed, BatchFails, Booked, SoftSwallowed,
                      NextPair, FinishPair
  <2>3. QED
    BY <1>0, <1>b, <2>1, <2>2
<1>4. ASSUME NEW w \in Workers, NEW m \in messages, StartDaily(w, m) PROVE PathInv'
  <2> DEFINE q == Listed([NoRun EXCEPT !.task = m],
                         GapItems(m.kind, m.date, m.force), m.size)
  <2>1. q.task = m /\ m.name = "daily"
    BY <1>4 DEF StartDaily, Listed, NoRun
  <2>2. Path(q, synced')
    BY <2>1 DEF Path, IsBackfill
  <2>3. CASE UNCHANGED run
    BY <1>0, <1>b, <2>3
  <2>4. CASE run' = [run EXCEPT ![w] = q]
    BY <1>c, <2>2, <2>4
  <2>5. QED
    BY <1>4, <2>3, <2>4 DEF StartDaily
<1>5. ASSUME NEW w \in Workers, StartBackfill(w) PROVE PathInv'
  <2> DEFINE q == [NoRun EXCEPT !.step = "next"]
  <2>1. q.at = 1 /\ q.step = "next"
    BY DEF NoRun
  <2>2. 1..q.at - 1 = {}
    BY <2>1
  <2>3. Path(q, synced')
    BY <2>1, <2>2 DEF Path
  <2>4. CASE UNCHANGED run
    BY <1>0, <1>b, <2>4
  <2>5. QED
    BY <1>5, <1>c, <2>3, <2>4 DEF StartBackfill
<1>6. CASE Tick
  <2> SUFFICES ASSUME NEW w \in Workers PROVE Path(run'[w], synced')
    BY <1>0
  <2>1. CASE run[w].step = "idle"
    BY <1>6, <1>b, <2>1 DEF Tick
  <2>2. CASE run[w].step # "idle"
    <3> DEFINE r == run[w]  q == run'[w]
    <3>1. q = [r EXCEPT !.age = @ + 1]
      BY <1>6, <2>2 DEF Tick
    <3>2. /\ q.step = r.step /\ q.task = r.task /\ q.at = r.at /\ q.tried = r.tried
          /\ q.todo = r.todo
      BY <1>a, <3>1 DEF RunsOK, RunType
    <3>3. DateOf(q) = DateOf(r) /\ (IsBackfill(q) <=> IsBackfill(r))
      BY <3>2 DEF DateOf, IsBackfill
    <3>4. QED
      BY <1>b, <3>2, <3>3 DEF Path
  <2>3. QED
    BY <2>1, <2>2
<1>7. CASE Reap
  BY <1>0, <1>7, <1>a, <1>b, ReapRuns
<1>8. CASE (\E m \in Scheduled : Send(m)) \/ UNCHANGED vars
  BY <1>0, <1>8, <1>b DEF Send, vars
<1>9. QED
  BY <1>2, <1>3, <1>4, <1>5, <1>6, <1>7, <1>8 DEF Next

\* A back-fill leaves no gap out on its way.
THEOREM GapsTried == Spec => []NothingPassedOver
<1>1. Init => PathInv
  BY DEF Init, PathInv, Path, NoRun
<1>2. TypeInv /\ PathInv /\ [Next]_vars => PathInv'
  BY PathStep
<1>3. PathInv => NothingPassedOver
  BY DEF PathInv, Path, NothingPassedOver, Backfilling, Pair
<1>4. QED
  BY <1>1, <1>2, <1>3, TypeHolds, PTL DEF Spec

-----------------------------------------------------------------------------
(****************************************************************************)
(* The promise of Coverage                                                  *)
(****************************************************************************)

\* What Coverage sees of the runs.
ListedBy(r) == On(r.todo, DateOf(r))
AskedBy(r) == On(r.asked, DateOf(r))
ForcedBy(r) == ~IsBackfill(r) /\ r.task.force
Listing == [w \in Workers |-> ListedBy(run[w])]
Asking == [w \in Workers |-> AskedBy(run[w])]
Forcing == [w \in Workers |-> ForcedBy(run[w])]

LEMMA PromiseVars ==
    ASSUME UNCHANGED <<synced, Listing, Asking, Forcing>>
    PROVE  UNCHANGED Promise!vars
  BY DEF Promise!vars, Listing, Asking, Forcing, ListedBy, AskedBy, ForcedBy

\* A step of one worker is seen at that worker only.
LEMMA SeenAt ==
    ASSUME RunsOK, NEW w \in Workers, NEW q, run' = [run EXCEPT ![w] = q]
    PROVE  /\ Listing' = [Listing EXCEPT ![w] = ListedBy(q)]
           /\ Asking' = [Asking EXCEPT ![w] = AskedBy(q)]
           /\ Forcing' = [Forcing EXCEPT ![w] = ForcedBy(q)]
<1>1. \A v \in Workers : run'[v] = IF v = w THEN q ELSE run[v]
  BY DEF RunsOK
<1>2. Listing' = [v \in Workers |-> IF v = w THEN ListedBy(q) ELSE ListedBy(run[v])]
  BY <1>1 DEF Listing
<1>3. Asking' = [v \in Workers |-> IF v = w THEN AskedBy(q) ELSE AskedBy(run[v])]
  BY <1>1 DEF Asking
<1>4. Forcing' = [v \in Workers |-> IF v = w THEN ForcedBy(q) ELSE ForcedBy(run[v])]
  BY <1>1 DEF Forcing
<1>5. QED
  BY <1>2, <1>3, <1>4 DEF Listing, Asking, Forcing

LEMMA SeenSame ==
    ASSUME RunsOK, NEW w \in Workers, NEW q, run' = [run EXCEPT ![w] = q]
    PROVE  /\ ListedBy(q) = ListedBy(run[w]) => UNCHANGED Listing
           /\ AskedBy(q) = AskedBy(run[w]) => UNCHANGED Asking
           /\ ForcedBy(q) = ForcedBy(run[w]) => UNCHANGED Forcing
<1>1. ListedBy(q) = ListedBy(run[w]) => UNCHANGED Listing
  BY SeenAt DEF Listing
<1>2. AskedBy(q) = AskedBy(run[w]) => UNCHANGED Asking
  BY SeenAt DEF Asking
<1>3. ForcedBy(q) = ForcedBy(run[w]) => UNCHANGED Forcing
  BY SeenAt DEF Forcing
<1>4. QED
  BY <1>1, <1>2, <1>3

\* The gaps a run reads are open, unless it is forced.
LEMMA GapsOpen ==
    ASSUME NEW kind, NEW d, NEW force \in BOOLEAN
    PROVE  force \/ On(GapItems(kind, d, force), d) \cap synced = {}
<1> SUFFICES ASSUME ~force, NEW g \in On(GapItems(kind, d, force), d) PROVE g \notin synced
  OBVIOUS
<1>1. PICK i \in GapItems(kind, d, force) : g = <<i, d>>
  BY DEF On
<1>2. QED
  BY <1>1 DEF GapItems

LEMMA Unseen ==
    ASSUME RunsOK, NEW w \in Workers, NEW q, run' = [run EXCEPT ![w] = q],
           UNCHANGED synced, ListedBy(q) = ListedBy(run[w]),
           AskedBy(q) = AskedBy(run[w]), ForcedBy(q) = ForcedBy(run[w])
    PROVE  UNCHANGED Promise!vars
<1>1. UNCHANGED <<Listing, Asking, Forcing>>
  BY SeenSame
<1>2. QED
  BY <1>1, PromiseVars

LEMMA SeenAnswered ==
    ASSUME RunsOK, NEW w \in Workers, NEW q, run' = [run EXCEPT ![w] = q],
           AskedBy(q) = {},
           \/ ListedBy(q) = ListedBy(run[w]) /\ ForcedBy(q) = ForcedBy(run[w])
           \/ ListedBy(q) = {} /\ ForcedBy(q) = FALSE
    PROVE  /\ UNCHANGED synced => Promise!GiveUp(w)
           /\ synced' = synced \cup AskedBy(run[w]) => Promise!Close(w)
<1>1. Asking' = [Asking EXCEPT ![w] = {}]
  BY SeenAt
<1>2. \/ UNCHANGED <<Listing, Forcing>>
      \/ /\ Listing' = [Listing EXCEPT ![w] = {}]
         /\ Forcing' = [Forcing EXCEPT ![w] = FALSE]
  <2>1. CASE ListedBy(q) = ListedBy(run[w]) /\ ForcedBy(q) = ForcedBy(run[w])
    BY <2>1, SeenSame
  <2>2. CASE ListedBy(q) = {} /\ ForcedBy(q) = FALSE
    BY <2>2, SeenAt
  <2>3. QED
    BY <2>1, <2>2
<1>3. UNCHANGED synced => Promise!GiveUp(w)
  BY <1>1, <1>2 DEF Promise!GiveUp, Promise!PerhapsOver, Listing, Asking, Forcing,
                    ListedBy, AskedBy, ForcedBy
<1>4. Asking[w] = AskedBy(run[w])
  BY DEF Asking
<1>5. synced' = synced \cup AskedBy(run[w]) => Promise!Close(w)
  BY <1>1, <1>2, <1>4 DEF Promise!Close, Promise!PerhapsOver, Listing, Asking, Forcing,
                          ListedBy, AskedBy, ForcedBy
<1>6. QED
  BY <1>3, <1>5

LEMMA SeenListing ==
    ASSUME RunsOK, NEW w \in Workers, NEW q, run' = [run EXCEPT ![w] = q],
           UNCHANGED synced, ListedBy(run[w]) = {}, AskedBy(run[w]) = {},
           AskedBy(q) = {}, ForcedBy(q) \in BOOLEAN, ListedBy(q) \subseteq Gaps,
           ForcedBy(q) \/ ListedBy(q) \cap synced = {}
    PROVE  Promise!List(w)
<1>1. Listing[w] = {} /\ Asking[w] = {}
  BY DEF Listing, Asking
<1>2. UNCHANGED Asking
  BY SeenSame
<1>3. Listing' = [Listing EXCEPT ![w] = ListedBy(q)]
  BY SeenAt
<1>4. Forcing' = [Forcing EXCEPT ![w] = ForcedBy(q)] /\ Forcing'[w] = ForcedBy(q)
  <2>1. Forcing' = [Forcing EXCEPT ![w] = ForcedBy(q)]
    BY SeenAt
  <2>2. run'[w] = q
    BY DEF RunsOK
  <2>3. Forcing'[w] = ForcedBy(q)
    BY <2>2 DEF Forcing
  <2>4. QED
    BY <2>1, <2>3
<1>5. Forcing' \in {[Forcing EXCEPT ![w] = f] : f \in BOOLEAN}
  BY <1>4
<1>6. \E S \in SUBSET Gaps : /\ Forcing'[w] \/ S \cap synced = {}
                             /\ Listing' = [Listing EXCEPT ![w] = S]
  BY <1>3, <1>4
<1>7. QED
  BY <1>1, <1>2, <1>5, <1>6 DEF Promise!List, Listing, Asking, Forcing, ListedBy,
                                AskedBy, ForcedBy

LEMMA SeenAsking ==
    ASSUME TypeInv, NEW w \in Workers, Ask(w)
    PROVE  Promise!Ask(w)
<1> DEFINE r == run[w]
           q == run'[w]
           batch == First(r.size, r.todo)
           S == On(batch, DateOf(r))
<1>1. r \in RunType /\ RunsOK /\ RunOK(r) /\ r.step = "ready"
  BY DEF TypeInv, RunsOK, Ask
<1>2. /\ q.task = r.task /\ q.at = r.at /\ q.todo = Rest(r) /\ q.asked = batch
      /\ run' = [run EXCEPT ![w] = q]
  BY <1>1 DEF RunsOK, RunType, Ask
<1>3. DateOf(q) = DateOf(r) /\ ForcedBy(q) = ForcedBy(r)
  BY <1>2 DEF DateOf, ForcedBy, IsBackfill
<1>4. AskedBy(q) = S /\ ListedBy(q) = ListedBy(r) \ S /\ S \subseteq ListedBy(r)
  <2>1. batch \subseteq r.todo /\ q.todo = r.todo \ batch
    BY <1>2, FirstPart DEF Rest
  <2>2. QED
    BY <1>2, <1>3, <2>1 DEF AskedBy, ListedBy, On
<1>5. Asking[w] = {} /\ Listing[w] = ListedBy(r)
  BY <1>1 DEF RunOK, Asking, AskedBy, Listing, On
<1>6. Asking' = [Asking EXCEPT ![w] = S]
  BY <1>1, <1>2, <1>4, SeenAt
<1>7. Listing' = [Listing EXCEPT ![w] = @ \ S]
  BY <1>1, <1>2, <1>4, <1>5, SeenAt
<1>8. UNCHANGED Forcing
  BY <1>1, <1>2, <1>3, SeenSame
<1>9. UNCHANGED synced
  BY DEF Ask
<1>10. \E T \in SUBSET Listing[w] : /\ Asking' = [Asking EXCEPT ![w] = T]
                                    /\ Listing' = [Listing EXCEPT ![w] = @ \ T]
  BY <1>4, <1>5, <1>6, <1>7
<1>11. QED
  BY <1>5, <1>8, <1>9, <1>10 DEF Promise!Ask, Listing, Asking, Forcing, ListedBy,
                                 AskedBy, ForcedBy

LEMMA SeenClosing ==
    ASSUME TypeInv, NEW w \in Workers, Succeed(w)
    PROVE  Promise!Close(w)
<1> DEFINE r == run[w]  q == run'[w]
<1>1. r \in RunType /\ RunsOK
  BY DEF TypeInv, RunsOK
<1>2. /\ q.task = r.task /\ q.at = r.at /\ q.todo = r.todo /\ q.asked = {}
      /\ run' = [run EXCEPT ![w] = q]
  BY <1>1 DEF RunsOK, RunType, Succeed
<1>3. DateOf(q) = DateOf(r) /\ ForcedBy(q) = ForcedBy(r)
  BY <1>2 DEF DateOf, ForcedBy, IsBackfill
<1>4. AskedBy(q) = {} /\ ListedBy(q) = ListedBy(r)
  BY <1>2, <1>3 DEF AskedBy, ListedBy, On
<1>5. synced' = synced \cup AskedBy(r)
  BY DEF Succeed, AskedBy
<1>6. QED
  BY <1>1, <1>2, <1>3, <1>4, <1>5, SeenAnswered

LEMMA SeenStarting ==
    ASSUME TypeInv, NEW w \in Workers, NEW m \in messages, StartDaily(w, m)
    PROVE  Promise!List(w) \/ UNCHANGED Promise!vars
<1> DEFINE r == run[w]
           items == GapItems(m.kind, m.date, m.force)
           q == Listed([NoRun EXCEPT !.task = m], items, m.size)
<1>1. RunsOK /\ RunOK(r) /\ r.step = "idle" /\ UNCHANGED synced
  BY DEF TypeInv, RunsOK, StartDaily
<1>2. m \in Dailies
  BY DEF TypeInv, StartDaily, Tasks, Backfill
<1>3. CASE items = {}
  <2>1. UNCHANGED run
    BY <1>3 DEF StartDaily
  <2>2. QED
    BY <1>1, <2>1, PromiseVars DEF Listing, Asking, Forcing
<1>4. CASE items # {}
  <2>1. run' = [run EXCEPT ![w] = q]
    BY <1>4 DEF StartDaily
  <2>2. q.task = m /\ q.todo = items /\ q.asked = {}
    BY DEF Listed, NoRun
  <2>3. ~IsBackfill(q) /\ DateOf(q) = m.date
    BY <1>2, <2>2 DEF IsBackfill, DateOf, Dailies
  <2>4. AskedBy(q) = {} /\ ListedBy(q) = On(items, m.date)
    BY <2>2, <2>3 DEF AskedBy, ListedBy, On
  <2>5. ForcedBy(q) \in BOOLEAN
    BY <1>2, <2>2, <2>3 DEF ForcedBy, Dailies
  <2>6. ListedBy(q) \subseteq Gaps
    BY <1>2, <2>4, GapItemsType DEF On, Gaps, Dailies
  <2>7. ForcedBy(q) \/ ListedBy(q) \cap synced = {}
    <3>1. m.force \in BOOLEAN
      BY <1>2 DEF Dailies
    <3>2. m.force \/ On(items, m.date) \cap synced = {}
      BY <3>1, GapsOpen
    <3>3. QED
      BY <2>2, <2>3, <2>4, <3>2 DEF ForcedBy
  <2>8. ListedBy(r) = {} /\ AskedBy(r) = {}
    BY <1>1 DEF RunOK, ListedBy, AskedBy, On
  <2>9. QED
    BY <1>1, <2>1, <2>4, <2>5, <2>6, <2>7, <2>8, SeenListing
<1>5. QED
  BY <1>3, <1>4

LEMMA SeenNextPair ==
    ASSUME TypeInv, NEW w \in Workers, NextPair(w)
    PROVE  Promise!List(w) \/ UNCHANGED Promise!vars
<1> DEFINE r == run[w]
           items == GapItems(KindOf(r), DateOf(r), FALSE)
<1>1. /\ r \in RunType /\ RunsOK /\ RunOK(r) /\ r.step = "next" /\ UNCHANGED synced
      /\ r.at <= LastPair
  BY DEF TypeInv, RunsOK, NextPair
<1>2. r.todo = {} /\ r.asked = {} /\ IsBackfill(r)
  BY <1>1 DEF RunOK
<1>3. ListedBy(r) = {} /\ AskedBy(r) = {} /\ ForcedBy(r) = FALSE
  BY <1>2 DEF ListedBy, AskedBy, ForcedBy, On
<1>4. CASE items = {}
  <2> DEFINE q == [r EXCEPT !.at = @ + 1]
  <2>1. run' = [run EXCEPT ![w] = q]
    BY <1>1, <1>4 DEF NextPair, RunsOK
  <2>2. q.todo = {} /\ q.asked = {} /\ q.task = r.task
    BY <1>1, <1>2 DEF RunType
  <2>3. ListedBy(q) = {} /\ AskedBy(q) = {} /\ ForcedBy(q) = FALSE
    BY <1>2, <2>2 DEF ListedBy, AskedBy, ForcedBy, On, IsBackfill
  <2>4. QED
    BY <1>1, <1>3, <2>1, <2>3, Unseen
<1>5. CASE items # {}
  <2> DEFINE q == Listed(r, items, BackfillBatch(KindOf(r), Cardinality(items)))
  <2>1. run' = [run EXCEPT ![w] = q]
    BY <1>5 DEF NextPair
  <2>2. q.todo = items /\ q.asked = {} /\ q.task = r.task /\ q.at = r.at
    BY <1>1, <1>2 DEF Listed, RunType
  <2>3. IsBackfill(q) /\ DateOf(q) = DateOf(r)
    BY <1>2, <2>2 DEF IsBackfill, DateOf
  <2>4. AskedBy(q) = {} /\ ListedBy(q) = On(items, DateOf(r)) /\ ForcedBy(q) = FALSE
    BY <2>2, <2>3 DEF AskedBy, ListedBy, ForcedBy, On
  <2>5. DateOf(r) \in Dates
    <3>1. r.at \in 1..LastPair
      BY <1>1 DEF RunOK, LastPair
    <3>2. QED
      BY <1>2, <3>1, PairType DEF DateOf
  <2>6. ListedBy(q) \subseteq Gaps
    BY <2>4, <2>5, GapItemsType DEF On, Gaps
  <2>7. ListedBy(q) \cap synced = {}
    BY <2>4, GapsOpen
  <2>8. QED
    BY <1>1, <1>3, <2>1, <2>4, <2>6, <2>7, SeenListing
<1>6. QED
  BY <1>4, <1>5

\* Every step is a step of Coverage, or is not seen.
LEMMA PromiseStep ==
    ASSUME TypeInv, [Next]_vars
    PROVE  [Promise!Next]_(Promise!vars)
<1>a. RunsOK
  BY DEF TypeInv
<1>0. ASSUME UNCHANGED <<run, synced>> PROVE UNCHANGED Promise!vars
  BY <1>0, PromiseVars DEF Listing, Asking, Forcing
<1>1. ASSUME NEW w \in Workers,
             \/ BackfillDone(w) \/ RateLimited(w) \/ FinishDaily(w)
             \/ SoftInQuery(w) \/ SoftOutside(w) \/ Raise(w) \/ HardKill(w)
             \/ Crash(w)
      PROVE  Promise!GiveUp(w) \/ Promise!Close(w)
  <2>1. /\ run' = [run EXCEPT ![w] = NoRun]
        /\ UNCHANGED synced \/ synced' = synced \cup AskedBy(run[w])
    <3>1. CASE SoftInQuery(w)
      BY <3>1 DEF End, SoftInQuery, AskedBy
    <3>2. CASE ~SoftInQuery(w)
      BY <1>1, <3>2 DEF End, BackfillDone, RateLimited, FinishDaily, SoftOutside,
                        Raise, HardKill, Crash
    <3>3. QED
      BY <3>1, <3>2
  <2>2. AskedBy(NoRun) = {} /\ ListedBy(NoRun) = {} /\ ForcedBy(NoRun) = FALSE
    <3>1. NoRun.asked = {} /\ NoRun.todo = {}
      BY DEF NoRun
    <3>2. QED
      BY <3>1, NoRunOK DEF AskedBy, ListedBy, ForcedBy, On
  <2>3. QED
    BY <1>a, <2>1, <2>2, SeenAnswered
<1>2. ASSUME NEW w \in Workers, StartBackfill(w)
      PROVE  Promise!GiveUp(w) \/ UNCHANGED Promise!vars
  <2> DEFINE q == [NoRun EXCEPT !.step = "next"]
  <2>1. q.asked = {} /\ q.todo = {} /\ q.task = Backfill
    BY DEF NoRun
  <2>2. AskedBy(q) = {} /\ ListedBy(q) = {} /\ ForcedBy(q) = FALSE
    BY <2>1 DEF AskedBy, ListedBy, ForcedBy, On, IsBackfill, Backfill
  <2>3. CASE run' = [run EXCEPT ![w] = q]
    <3>1. UNCHANGED synced
      BY <1>2 DEF StartBackfill
    <3>2. QED
      BY <1>a, <2>2, <2>3, <3>1, SeenAnswered
  <2>4. CASE UNCHANGED run
    BY <1>0, <1>2, <2>4 DEF StartBackfill
  <2>5. QED
    BY <1>2, <2>3, <2>4 DEF StartBackfill
<1>3. ASSUME NEW w \in Workers, BatchFails(w) PROVE Promise!GiveUp(w)
  <2> DEFINE r == run[w]  q == [r EXCEPT !.step = "booking", !.asked = {}]
  <2>1. run' = [run EXCEPT ![w] = q] /\ r \in RunType /\ UNCHANGED synced
    BY <1>3, <1>a DEF BatchFails, RunsOK
  <2>2. q.task = r.task /\ q.at = r.at /\ q.todo = r.todo /\ q.asked = {}
    BY <2>1 DEF RunType
  <2>3. DateOf(q) = DateOf(r) /\ ForcedBy(q) = ForcedBy(r)
    BY <2>2 DEF DateOf, ForcedBy, IsBackfill
  <2>4. AskedBy(q) = {} /\ ListedBy(q) = ListedBy(r)
    BY <2>2, <2>3 DEF AskedBy, ListedBy, On
  <2>5. QED
    BY <1>a, <2>1, <2>3, <2>4, SeenAnswered
<1>4. ASSUME NEW w \in Workers, Booked(w) \/ SoftSwallowed(w)
      PROVE  UNCHANGED Promise!vars
  <2> DEFINE r == run[w]  q == run'[w]
  <2>1. /\ run' = [run EXCEPT ![w] = q] /\ UNCHANGED synced
        /\ q.task = r.task /\ q.at = r.at /\ q.todo = r.todo /\ q.asked = r.asked
    BY <1>4, <1>a DEF Booked, SoftSwallowed, RunsOK, RunType
  <2>2. DateOf(q) = DateOf(r) /\ ForcedBy(q) = ForcedBy(r)
    BY <2>1 DEF DateOf, ForcedBy, IsBackfill
  <2>3. AskedBy(q) = AskedBy(r) /\ ListedBy(q) = ListedBy(r)
    BY <2>1, <2>2 DEF AskedBy, ListedBy
  <2>4. QED
    BY <1>a, <2>1, <2>2, <2>3, Unseen
<1>5. ASSUME NEW w \in Workers, FinishPair(w) PROVE UNCHANGED Promise!vars
  <2> DEFINE r == run[w]  q == run'[w]
  <2>1. r \in RunType /\ RunOK(r) /\ r.step = "ready" /\ r.todo = {} /\ IsBackfill(r)
    BY <1>5, <1>a DEF FinishPair, RunsOK
  <2>2. r.asked = {}
    BY <2>1 DEF RunOK
  <2>3. /\ run' = [run EXCEPT ![w] = q] /\ UNCHANGED synced
        /\ q.task = r.task /\ q.todo = r.todo /\ q.asked = r.asked
    BY <1>5, <1>a DEF FinishPair, RunsOK, RunType
  <2>4. /\ AskedBy(q) = AskedBy(r) /\ ListedBy(q) = ListedBy(r)
        /\ ForcedBy(q) = ForcedBy(r)
    BY <2>1, <2>2, <2>3 DEF AskedBy, ListedBy, ForcedBy, On, IsBackfill
  <2>5. QED
    BY <1>a, <2>3, <2>4, Unseen
<1>6. CASE Tick
  <2>1. ASSUME NEW w \in Workers
        PROVE  /\ ListedBy(run'[w]) = ListedBy(run[w])
               /\ AskedBy(run'[w]) = AskedBy(run[w])
               /\ ForcedBy(run'[w]) = ForcedBy(run[w])
    <3> DEFINE r == run[w]  q == run'[w]
    <3>1. /\ q.task = r.task /\ q.at = r.at /\ q.todo = r.todo /\ q.asked = r.asked
      BY <1>6, <1>a DEF Tick, RunsOK, RunType
    <3>2. DateOf(q) = DateOf(r) /\ ForcedBy(q) = ForcedBy(r)
      BY <3>1 DEF DateOf, ForcedBy, IsBackfill
    <3>3. QED
      BY <3>1, <3>2 DEF AskedBy, ListedBy
  <2>2. UNCHANGED <<Listing, Asking, Forcing>>
    BY <2>1 DEF Listing, Asking, Forcing
  <2>3. QED
    BY <1>6, <2>2, PromiseVars DEF Tick
<1>7. CASE Reap
  BY <1>0, <1>7, <1>a, ReapRuns DEF Reap
<1>8. CASE (\E m \in Scheduled : Send(m)) \/ UNCHANGED vars
  BY <1>0, <1>8 DEF Send, vars
<1>9. ASSUME NEW w \in Workers,
             \/ Promise!List(w) \/ Promise!Ask(w) \/ Promise!Close(w)
             \/ Promise!GiveUp(w)
      PROVE  Promise!Next
  BY <1>9 DEF Promise!Next
<1>10. ASSUME NEW w \in Workers,
              \/ \E m \in messages : StartDaily(w, m)
              \/ NextPair(w) \/ Ask(w) \/ Succeed(w)
       PROVE  Promise!Next \/ UNCHANGED Promise!vars
  BY <1>9, <1>10, SeenStarting, SeenNextPair, SeenAsking, SeenClosing
<1>11. QED
  BY <1>1, <1>2, <1>3, <1>4, <1>5, <1>6, <1>7, <1>8, <1>9, <1>10 DEF Next

\* The synchronisation keeps the promise of module Coverage: a run asks TikTok
\* for open gaps only, unless it is forced, and never twice for one it has
\* listed; what is closed stays closed.
THEOREM CoveragePromised == Spec => PromiseKept
<1>1. Init => Promise!Init
  <2>1. ListedBy(NoRun) = {} /\ AskedBy(NoRun) = {} /\ ForcedBy(NoRun) = FALSE
    <3>1. NoRun.asked = {} /\ NoRun.todo = {}
      BY DEF NoRun
    <3>2. QED
      BY <3>1, NoRunOK DEF AskedBy, ListedBy, ForcedBy, On
  <2>2. ASSUME Init
        PROVE  /\ synced = {} /\ Listing = [w \in Workers |-> {}]
               /\ Asking = [w \in Workers |-> {}]
               /\ Forcing = [w \in Workers |-> FALSE]
    BY <2>1, <2>2 DEF Init, Listing, Asking, Forcing
  <2>3. QED
    BY <2>2 DEF Promise!Init, Listing, Asking, Forcing, ListedBy, AskedBy, ForcedBy
<1>2. TypeInv /\ [Next]_vars => [Promise!Next]_(Promise!vars)
  BY PromiseStep
<1>3. QED
  BY <1>1, <1>2, TypeHolds, PTL DEF Spec, PromiseKept, Promise!Spec
===============================================================================
