----------------------------- MODULE ScraperProofs -----------------------------
(****************************************************************************)
(* Proofs about the scraper.                                                *)
(* ScrapeQueue, for every set of targets and accounts and every value of    *)
(* the limits: IInv is the inductive invariant, the types, what a run knows *)
(* of the rows it holds in memory, and how the status of a target bounds    *)
(* its counters.                                                            *)
(* ScrapeTask, for every number of workers and all time limits: the types,  *)
(* that only one run scrapes at a time, and that a pause never outlives the *)
(* memory of the aborts that led to it.                                     *)
(* PageScraper, for every list, pace and number of refusals: the types, and *)
(* that requests keep their distance and a blocked client stops.            *)
(****************************************************************************)
EXTENDS ScrapeQueue, ScrapeTask, PageScraper, FiniteSetTheorems, TLAPS

USE AccountsAssumption, TargetsAssumption, LimitsAssumption, TimesAssumption

\* The rows a run is working on are leased until after its time limit.
RunInv ==
    /\ phase = "idle" => batch = {} /\ timeLeft = 0
    /\ todo \subseteq batch /\ held \subseteq batch
    /\ todo \cap held = {}
    /\ \A t \in batch : lease[t] > timeLeft /\ checks[t] < MaxChecks

\* A video not queued has no history.
UnqueuedInv ==
    \A t \in Targets :
        status[t] = "unqueued" => checks[t] = 0 /\ claimedBy[t] = NoAccount

\* While no page is served failures are only held back, fewer than would
\* have aborted the run.
StreakInv ==
    /\ phase # "idle" =>
           /\ Cardinality(held) < FailuresBeforeAbort
           /\ ~served => spent = 0
    /\ ~served => spent < FailuresBeforeAbort

IInv ==
    /\ TypeOK
    /\ RunInv
    /\ MemoryIsCurrent
    /\ ScrapedOnce
    /\ UnqueuedInv
    /\ ChecksBounded
    /\ StreakInv

-----------------------------------------------------------------------------
(****************************************************************************)
(* Lemmas about the operators the actions share                            *)
(****************************************************************************)

\* A subset of the targets is finite and its size is a natural number, at
\* least that of each of its subsets.
LEMMA Sizes ==
    ASSUME NEW S, S \subseteq Targets
    PROVE  /\ IsFiniteSet(S) /\ Cardinality(S) \in Nat
           /\ \A R \in SUBSET S : Cardinality(R) <= Cardinality(S)
<1>1. IsFiniteSet(S)
  BY FS_Subset
<1>2. Cardinality(S) \in Nat
  BY <1>1, FS_CardinalityType
<1>3. ASSUME NEW R \in SUBSET S PROVE Cardinality(R) <= Cardinality(S)
  BY <1>1, FS_Subset
<1>4. QED
  BY <1>1, <1>2, <1>3

LEMMA EmptySize == Cardinality({}) = 0
  BY FS_EmptySet

\* Saving marked rows keeps the types of the row variables.
LEMMA MarkRowsType ==
    ASSUME TypeOK,
           NEW marks, NEW released, NEW holder, NEW memA, NEW memC,
           DOMAIN marks \subseteq Targets,
           \A t \in DOMAIN marks : marks[t] \in Statuses,
           holder \in Accounts \cup {NoAccount},
           memA \in [Targets -> Nat], memC \in [Targets -> Nat],
           MarkRows(marks, released, holder, memA, memC)
    PROVE  /\ status' \in [Targets -> Statuses]
           /\ attempts' \in [Targets -> Nat] /\ checks' \in [Targets -> Nat]
           /\ claimedBy' \in [Targets -> Accounts \cup {NoAccount}]
           /\ lease' \in [Targets -> Int]
           /\ \A t \in Targets : lease'[t] >= NoLease
           /\ wait' \in [Targets -> Nat]
  BY DEF MarkRows, TypeOK, NoLease

LEMMA PageServedPreserves ==
    ASSUME IInv, NEW t \in Targets,
           NEW o \in {"success", "unavailable", "failed"}, PageServed(t, o)
    PROVE  IInv'
<1> DEFINE marks == [u \in held \cup {t} |-> IF u = t THEN o ELSE "failed"]
<1>1. /\ DOMAIN marks = held \cup {t} /\ held \cup {t} \subseteq Targets
      /\ MarkRows(marks, {}, NoAccount, memAttempts, memChecks)
  BY DEF PageServed, IInv, TypeOK
<1>2. TypeOK'
  <2>1. \A u \in DOMAIN marks : marks[u] \in Statuses
    BY DEF Statuses
  <2>2. /\ status' \in [Targets -> Statuses]
        /\ attempts' \in [Targets -> Nat] /\ checks' \in [Targets -> Nat]
        /\ claimedBy' \in [Targets -> Accounts \cup {NoAccount}]
        /\ lease' \in [Targets -> Int]
        /\ \A u \in Targets : lease'[u] >= NoLease
        /\ wait' \in [Targets -> Nat]
    <3> HIDE DEF marks
    <3>1. QED
      BY <1>1, <2>1, MarkRowsType DEF IInv, TypeOK
  <2>3. spent' \in Nat
    BY Sizes DEF PageServed, IInv, TypeOK
  <2>4. QED
    BY <2>2, <2>3 DEF PageServed, IInv, TypeOK, clientVars
<1>3. RunInv'
  BY <1>1 DEF PageServed, MarkRows, IInv, TypeOK, RunInv
<1>4. MemoryIsCurrent'
  BY <1>1 DEF PageServed, MarkRows, IInv, TypeOK, RunInv, MemoryIsCurrent
<1>5. ScrapedOnce'
  BY <1>1 DEF PageServed, MarkRows, IInv, TypeOK, RunInv, MemoryIsCurrent,
     ScrapedOnce
<1>6. UnqueuedInv'
  BY <1>1 DEF PageServed, MarkRows, IInv, TypeOK, UnqueuedInv
<1>7. ChecksBounded'
  BY <1>1 DEF PageServed, MarkRows, IInv, TypeOK, RunInv, MemoryIsCurrent,
     ChecksBounded
<1>8. StreakInv'
  BY <1>2, EmptySize DEF PageServed, IInv, TypeOK, StreakInv
<1>9. QED
  BY <1>2, <1>3, <1>4, <1>5, <1>6, <1>7, <1>8 DEF IInv

(****************************************************************************)
(* The other actions.  Those that leave the run and the counters alone     *)
(* share a lemma.                                                          *)
(****************************************************************************)

\* Leasing claimable targets, to an account or to the built-in scraper.
LEMMA LeaseTargetsEffect ==
    ASSUME IInv, NEW holder \in Accounts \cup {NoAccount},
           NEW ticks \in Nat \ {0}, NEW S \in SUBSET Targets,
           LeaseTargets(holder, ticks, S)
    PROVE  /\ status' \in [Targets -> Statuses]
           /\ claimedBy' \in [Targets -> Accounts \cup {NoAccount}]
           /\ lease' \in [Targets -> Int]
           /\ \A t \in Targets : lease'[t] >= NoLease
           /\ S \cap batch = {}
           /\ \A t \in batch : /\ status'[t] = status[t] /\ lease'[t] = lease[t]
                              /\ claimedBy'[t] = claimedBy[t]
           /\ ScrapedOnce' /\ UnqueuedInv' /\ ChecksBounded'
<1>1. S \cap batch = {}
  BY DEF LeaseTargets, Claimable, LeaseFree, NoLease, Lapsed, IInv, RunInv,
     MemoryIsCurrent, TypeOK
<1>2. /\ status' \in [Targets -> Statuses]
      /\ claimedBy' \in [Targets -> Accounts \cup {NoAccount}]
      /\ lease' \in [Targets -> Int]
      /\ \A t \in Targets : lease'[t] >= NoLease
  BY DEF LeaseTargets, IInv, TypeOK, Statuses, NoLease
<1>3. \A t \in batch : /\ status'[t] = status[t] /\ lease'[t] = lease[t]
                     /\ claimedBy'[t] = claimedBy[t]
  BY <1>1 DEF LeaseTargets, IInv, TypeOK
<1>4. \A t \in S : status[t] \in {"pending", "failed", "unavailable"}
  BY DEF LeaseTargets, Claimable, Due, Recheckable
<1>5. ScrapedOnce'
  BY <1>4 DEF LeaseTargets, IInv, TypeOK, ScrapedOnce
<1>6. UnqueuedInv' /\ ChecksBounded'
  BY <1>4 DEF LeaseTargets, IInv, TypeOK, UnqueuedInv, ChecksBounded
<1>7. QED
  BY <1>1, <1>2, <1>3, <1>5, <1>6

LEMMA ClaimPreserves ==
    ASSUME IInv, NEW a \in Accounts, NEW S \in SUBSET Targets, Claim(a, S)
    PROVE  IInv'
<1>1. LeaseTargets(a, ExternalLease, S)
  BY DEF Claim
<1>2. /\ status' \in [Targets -> Statuses]
      /\ claimedBy' \in [Targets -> Accounts \cup {NoAccount}]
      /\ lease' \in [Targets -> Int]
      /\ \A t \in Targets : lease'[t] >= NoLease
      /\ \A t \in batch : /\ status'[t] = status[t] /\ lease'[t] = lease[t]
                         /\ claimedBy'[t] = claimedBy[t]
      /\ ScrapedOnce' /\ UnqueuedInv' /\ ChecksBounded'
  BY <1>1, LeaseTargetsEffect
<1>3. TypeOK'
  <2>1. told' \in [Accounts \X Targets -> Nat]
    BY DEF Claim, IInv, TypeOK
  <2>2. asked' \in SUBSET (Accounts \X Targets)
    BY DEF Claim, IInv, TypeOK
  <2>3. QED
    BY <1>2, <2>1, <2>2 DEF Claim, LeaseTargets, IInv, TypeOK, runVars
<1>4. RunInv' /\ MemoryIsCurrent' /\ StreakInv'
  BY <1>2 DEF Claim, LeaseTargets, IInv, RunInv, MemoryIsCurrent, StreakInv,
     runVars
<1>5. QED
  BY <1>2, <1>3, <1>4 DEF IInv

LEMMA StartRunPreserves ==
    ASSUME IInv, NEW S \in SUBSET Targets, StartRun(S)
    PROVE  IInv'
<1>1. LeaseTargets(NoAccount, InternalLease, S)
  BY DEF StartRun
<1>2. /\ status' \in [Targets -> Statuses]
      /\ claimedBy' \in [Targets -> Accounts \cup {NoAccount}]
      /\ lease' \in [Targets -> Int]
      /\ \A t \in Targets : lease'[t] >= NoLease
      /\ ScrapedOnce' /\ UnqueuedInv' /\ ChecksBounded'
  BY <1>1, LeaseTargetsEffect
<1>3. TypeOK'
  BY <1>2 DEF StartRun, LeaseTargets, IInv, TypeOK, AbortReasons, clientVars
<1>4. \A t \in S \ covered :
          /\ status[t] \in {"pending", "failed", "unavailable"}
          /\ checks[t] < MaxChecks
  BY <1>1 DEF LeaseTargets, Claimable, Due, Recheckable, IInv, ChecksBounded
<1>5. \A t \in batch' :
          /\ t \in S \ covered
          /\ status'[t] = status[t] /\ lease'[t] = InternalLease
          /\ claimedBy'[t] = NoAccount
          /\ checks'[t] = checks[t] /\ attempts'[t] = attempts[t]
          /\ memAttempts'[t] = attempts[t] /\ memChecks'[t] = checks[t]
  BY <1>1 DEF StartRun, LeaseTargets
<1>6. RunInv'
  BY <1>4, <1>5 DEF StartRun, RunInv
<1>7. MemoryIsCurrent'
  BY <1>4, <1>5 DEF MemoryIsCurrent
<1>8. StreakInv'
  <2>1. Cardinality(held') = 0 /\ spent' = 0
    BY EmptySize DEF StartRun
  <2>2. QED
    BY <2>1 DEF StreakInv
<1>9. QED
  BY <1>2, <1>3, <1>6, <1>7, <1>8 DEF IInv

LEMMA EnqueuePreserves ==
    ASSUME IInv, NEW t \in Targets, Enqueue(t)
    PROVE  IInv'
<1>1. TypeOK'
  BY DEF Enqueue, IInv, TypeOK, Statuses, runVars, clientVars
<1>2. RunInv' /\ MemoryIsCurrent' /\ StreakInv'
  BY DEF Enqueue, IInv, TypeOK, RunInv, MemoryIsCurrent, StreakInv, runVars
<1>3. ScrapedOnce' /\ UnqueuedInv' /\ ChecksBounded'
  BY DEF Enqueue, IInv, TypeOK, ScrapedOnce, UnqueuedInv, ChecksBounded
<1>4. QED
  BY <1>1, <1>2, <1>3 DEF IInv

LEMMA ApiDeliversPreserves ==
    ASSUME IInv, NEW t \in Targets, ApiDelivers(t)
    PROVE  IInv'
  BY DEF ApiDelivers, IInv, TypeOK, RunInv, MemoryIsCurrent, ScrapedOnce,
     UnqueuedInv, ChecksBounded, StreakInv, rowVars, runVars, clientVars

\* Results in transit.
LEMMA ArrivesType ==
    ASSUME TypeOK, NEW a \in Accounts, NEW t \in Targets, NEW o \in Outcomes,
           Arrives(a, t, o)
    PROVE  mail' \in [Accounts \X Targets \X Outcomes -> Nat]
  BY DEF Arrives, TypeOK

LEMMA SubmitPreserves ==
    ASSUME IInv, NEW a \in Accounts, NEW t \in Targets, NEW o \in Outcomes,
           Submit(a, t, o)
    PROVE  IInv'
<1>1. TypeOK'
  BY DEF Submit, IInv, TypeOK, rowVars, runVars
<1>2. QED
  BY <1>1 DEF Submit, IInv, RunInv, MemoryIsCurrent, ScrapedOnce, UnqueuedInv,
     ChecksBounded, StreakInv, rowVars, runVars

LEMMA IgnoreResultPreserves ==
    ASSUME IInv, NEW a \in Accounts, NEW t \in Targets, NEW o \in Outcomes,
           IgnoreResult(a, t, o)
    PROVE  IInv'
<1>1. TypeOK'
  BY ArrivesType DEF IgnoreResult, Arrives, IInv, TypeOK, rowVars, runVars
<1>2. QED
  BY <1>1 DEF IgnoreResult, Arrives, IInv, RunInv, MemoryIsCurrent,
     ScrapedOnce, UnqueuedInv, ChecksBounded, StreakInv, rowVars, runVars

\* An accepted result is about a target the run does not work on, and one
\* that is queued, not done and has checks left.
LEMMA AcceptedTarget ==
    ASSUME IInv, NEW a \in Accounts, NEW t \in Targets, Accepts(a, t)
    PROVE  /\ t \notin batch
           /\ status[t] \in {"pending", "failed", "unavailable"}
           /\ checks[t] < MaxChecks /\ stored[t] = 0
<1>1. claimedBy[t] # NoAccount
  BY DEF Accepts, HeldBy
<1>2. t \notin batch
  BY <1>1 DEF IInv, MemoryIsCurrent
<1>3. status[t] \in {"pending", "failed", "unavailable"}
  BY <1>1 DEF Accepts, IsDone, FinalStatuses, IInv, UnqueuedInv, TypeOK,
     Statuses
<1>4. checks[t] < MaxChecks
  BY <1>3 DEF Accepts, IsDone, IInv, ChecksBounded, TypeOK
<1>5. stored[t] = 0
  BY <1>3 DEF IInv, ScrapedOnce
<1>6. QED
  BY <1>2, <1>3, <1>4, <1>5

LEMMA RecordReleasedPreserves ==
    ASSUME IInv, NEW a \in Accounts, NEW t \in Targets, RecordReleased(a, t)
    PROVE  IInv'
<1>1. Arrives(a, t, "released") /\ Accepts(a, t) /\ "released" \in Outcomes
  BY DEF RecordReleased, Outcomes
<1>2. TypeOK'
  BY <1>1, ArrivesType DEF RecordReleased, Arrives, IInv, TypeOK, runVars,
     NoLease
<1>3. RunInv' /\ MemoryIsCurrent' /\ StreakInv'
  BY <1>1, AcceptedTarget DEF RecordReleased, Arrives, IInv, TypeOK, RunInv,
     MemoryIsCurrent, StreakInv, runVars
<1>4. ScrapedOnce' /\ UnqueuedInv' /\ ChecksBounded'
  BY DEF RecordReleased, IInv, ScrapedOnce, UnqueuedInv, ChecksBounded
<1>5. QED
  BY <1>2, <1>3, <1>4 DEF IInv

\* One mark, made from the row itself, on a target whose result is accepted.
LEMMA MarkOnePreserves ==
    ASSUME IInv, NEW a \in Accounts, NEW t \in Targets, NEW o \in Outcomes,
           Arrives(a, t, o), Accepts(a, t),
           NEW s \in {"success", "unavailable", "failed"},
           MarkRows([u \in {t} |-> s], {}, a, attempts, checks),
           stored' = IF s = "success" THEN [stored EXCEPT ![t] = @ + 1]
                     ELSE stored
    PROVE  IInv'
<1> DEFINE marks == [u \in {t} |-> s]
<1>1. /\ t \notin batch
      /\ status[t] \in {"pending", "failed", "unavailable"}
      /\ checks[t] < MaxChecks /\ stored[t] = 0
  BY AcceptedTarget
<1>2. /\ DOMAIN marks = {t} /\ marks[t] = s
      /\ MarkRows(marks, {}, a, attempts, checks)
  OBVIOUS
<1>3. TypeOK'
  <2>1. \A u \in DOMAIN marks : marks[u] \in Statuses
    BY DEF Statuses
  <2>2. /\ status' \in [Targets -> Statuses]
        /\ attempts' \in [Targets -> Nat] /\ checks' \in [Targets -> Nat]
        /\ claimedBy' \in [Targets -> Accounts \cup {NoAccount}]
        /\ lease' \in [Targets -> Int]
        /\ \A u \in Targets : lease'[u] >= NoLease
        /\ wait' \in [Targets -> Nat]
    <3> HIDE DEF marks
    <3>1. QED
      BY <1>2, <2>1, MarkRowsType DEF IInv, TypeOK
  <2>3. QED
    BY <2>2, ArrivesType DEF Arrives, IInv, TypeOK, runVars
<1>4. RunInv' /\ MemoryIsCurrent' /\ StreakInv'
  BY <1>1, <1>2 DEF MarkRows, Arrives, IInv, TypeOK, RunInv, MemoryIsCurrent,
     StreakInv, runVars
<1>5. ScrapedOnce'
  BY <1>1, <1>2 DEF MarkRows, IInv, TypeOK, ScrapedOnce
<1>6. UnqueuedInv' /\ ChecksBounded'
  BY <1>1, <1>2 DEF MarkRows, IInv, TypeOK, UnqueuedInv, ChecksBounded
<1>7. QED
  BY <1>3, <1>4, <1>5, <1>6 DEF IInv

LEMMA RecordResultPreserves ==
    ASSUME IInv, NEW a \in Accounts, NEW t \in Targets,
           RecordUnavailable(a, t) \/ RecordFailed(a, t) \/ RecordSuccess(a, t)
    PROVE  IInv'
<1>1. CASE RecordUnavailable(a, t)
  BY <1>1, MarkOnePreserves DEF RecordUnavailable, Outcomes
<1>2. CASE RecordFailed(a, t)
  BY <1>2, MarkOnePreserves DEF RecordFailed, Failed, Outcomes
<1>3. CASE RecordSuccess(a, t)
  BY <1>3, MarkOnePreserves DEF RecordSuccess, Failed, Outcomes
<1>4. QED
  BY <1>1, <1>2, <1>3

LEMMA PageBlockedPreserves ==
    ASSUME IInv, NEW t \in Targets, PageBlocked(t)
    PROVE  IInv'
<1>1. TypeOK'
  <2>1. phase' \in {"idle", "working", "closing"} /\ aborted' \in AbortReasons
    BY DEF PageBlocked, IInv, TypeOK, AbortReasons
  <2>2. QED
    BY <2>1 DEF PageBlocked, IInv, TypeOK, rowVars, clientVars
<1>2. QED
  BY <1>1 DEF PageBlocked, IInv, TypeOK, RunInv, MemoryIsCurrent, ScrapedOnce,
     UnqueuedInv, ChecksBounded, StreakInv, rowVars, clientVars

LEMMA PageFailsPreserves ==
    ASSUME IInv, NEW t \in Targets, PageFails(t)
    PROVE  IInv'
<1>1. TypeOK'
  BY DEF PageFails, IInv, TypeOK, AbortReasons, rowVars, clientVars
<1>2. RunInv'
  BY DEF PageFails, IInv, TypeOK, RunInv, rowVars
<1>3. MemoryIsCurrent' /\ ScrapedOnce' /\ UnqueuedInv' /\ ChecksBounded'
  BY DEF PageFails, IInv, MemoryIsCurrent, ScrapedOnce, UnqueuedInv,
     ChecksBounded, rowVars
<1>4. Cardinality(held') < FailuresBeforeAbort
  <2>1. held \cup {t} \subseteq Targets /\ Cardinality(held \cup {t}) \in Nat
    BY Sizes DEF IInv, TypeOK
  <2>2. QED
    BY <2>1, EmptySize DEF PageFails
<1>5. StreakInv'
  BY <1>4 DEF PageFails, IInv, StreakInv
<1>6. QED
  BY <1>1, <1>2, <1>3, <1>5 DEF IInv

LEMMA StopStartingPreserves ==
    ASSUME IInv, StopStarting
    PROVE  IInv'
  BY DEF StopStarting, IInv, TypeOK, RunInv, MemoryIsCurrent, ScrapedOnce,
     UnqueuedInv, ChecksBounded, StreakInv, rowVars, clientVars

\* The end of a run, regular or not: some held-back failures are recorded.
LEMMA RunOverPreserves ==
    ASSUME IInv, phase # "idle", NEW recorded \in SUBSET held,
           NEW released \in SUBSET batch,
           MarkRows(Failed(recorded), released, NoAccount, memAttempts,
                    memChecks),
           spent' = spent + Cardinality(recorded), RunOver
    PROVE  IInv'
<1> DEFINE marks == Failed(recorded)
<1>1. /\ DOMAIN marks = recorded /\ recorded \subseteq Targets
      /\ recorded \subseteq batch
      /\ \A u \in recorded : marks[u] = "failed"
      /\ MarkRows(marks, released, NoAccount, memAttempts, memChecks)
  BY DEF Failed, IInv, RunInv, TypeOK
<1>2. Cardinality(recorded) \in Nat /\ Cardinality(recorded) <= Cardinality(held)
      /\ Cardinality(held) \in Nat
  BY Sizes, <1>1 DEF IInv, TypeOK
<1> HIDE DEF marks
<1>3. TypeOK'
  <2>1. \A u \in DOMAIN marks : marks[u] \in Statuses
    BY <1>1 DEF Statuses
  <2>2. /\ status' \in [Targets -> Statuses]
        /\ attempts' \in [Targets -> Nat] /\ checks' \in [Targets -> Nat]
        /\ claimedBy' \in [Targets -> Accounts \cup {NoAccount}]
        /\ lease' \in [Targets -> Int]
        /\ \A u \in Targets : lease'[u] >= NoLease
        /\ wait' \in [Targets -> Nat]
    BY <1>1, <2>1, MarkRowsType DEF IInv, TypeOK
  <2>3. QED
    BY <1>2, <2>2 DEF RunOver, IInv, TypeOK, clientVars
<1>4. RunInv' /\ MemoryIsCurrent'
  BY DEF RunOver, RunInv, MemoryIsCurrent
<1>5. ScrapedOnce'
  BY <1>1 DEF RunOver, MarkRows, IInv, TypeOK, MemoryIsCurrent, ScrapedOnce
<1>6. UnqueuedInv' /\ ChecksBounded'
  BY <1>1 DEF MarkRows, IInv, TypeOK, RunInv, MemoryIsCurrent, UnqueuedInv,
     ChecksBounded
<1>7. StreakInv'
  BY <1>2 DEF RunOver, IInv, TypeOK, StreakInv
<1>8. QED
  BY <1>3, <1>4, <1>5, <1>6, <1>7 DEF IInv

LEMMA RunEndPreserves ==
    ASSUME IInv, CloseRun \/ \E R \in SUBSET Targets : Interrupt(R)
    PROVE  IInv'
<1>1. CASE CloseRun
  BY <1>1, RunOverPreserves DEF CloseRun
<1>2. ASSUME NEW R \in SUBSET Targets, Interrupt(R) PROVE IInv'
  BY <1>2, RunOverPreserves DEF Interrupt
<1>3. QED
  BY <1>1, <1>2

\* A tick takes no lease from a run: it ends before its leases do.
LEMMA TickPreserves ==
    ASSUME IInv, Tick
    PROVE  IInv'
<1>1. TypeOK'
  BY DEF Tick, Down, IInv, TypeOK, NoLease
<1>2. RunInv' /\ MemoryIsCurrent'
  BY DEF Tick, Down, IInv, TypeOK, RunInv, MemoryIsCurrent
<1>3. ScrapedOnce' /\ UnqueuedInv' /\ ChecksBounded' /\ StreakInv'
  BY DEF Tick, IInv, ScrapedOnce, UnqueuedInv, ChecksBounded, StreakInv
<1>4. QED
  BY <1>1, <1>2, <1>3 DEF IInv

-----------------------------------------------------------------------------
(****************************************************************************)
(* The theorems                                                            *)
(****************************************************************************)

LEMMA InitInv == Init => IInv
<1> SUFFICES ASSUME Init PROVE IInv
  OBVIOUS
<1>1. TypeOK
  <2>1. /\ status \in [Targets -> Statuses] /\ aborted \in AbortReasons
        /\ claimedBy \in [Targets -> Accounts \cup {NoAccount}]
    BY DEF Init, Statuses, AbortReasons
  <2>2. lease \in [Targets -> Int] /\ \A t \in Targets : lease[t] >= NoLease
    <3>1. lease = [t \in Targets |-> NoLease]
      BY DEF Init
    <3>2. NoLease \in Int /\ NoLease >= NoLease
      BY DEF NoLease
    <3>3. QED
      BY <3>1, <3>2
  <2>3. /\ told \in [Accounts \X Targets -> Nat]
        /\ mail \in [Accounts \X Targets \X Outcomes -> Nat]
    BY DEF Init
  <2>4. QED
    BY <2>1, <2>2, <2>3 DEF Init, TypeOK
<1>2. RunInv /\ MemoryIsCurrent
  BY DEF Init, RunInv, MemoryIsCurrent
<1>3. ScrapedOnce /\ UnqueuedInv /\ ChecksBounded
  <2>1. \A t \in Targets :
            /\ status[t] = "unqueued" /\ stored[t] = 0 /\ checks[t] = 0
            /\ claimedBy[t] = NoAccount
    BY DEF Init
  <2>2. 0 <= MaxChecks
    OBVIOUS
  <2>3. QED
    BY <2>1, <2>2 DEF ScrapedOnce, UnqueuedInv, ChecksBounded
<1>4. StreakInv
  <2>1. phase = "idle" /\ spent = 0
    BY DEF Init
  <2>2. QED
    BY <2>1 DEF StreakInv
<1>5. QED
  BY <1>1, <1>2, <1>3, <1>4 DEF IInv

LEMMA StepInv == IInv /\ [Next]_vars => IInv'
<1> SUFFICES ASSUME IInv, [Next]_vars PROVE IInv'
  OBVIOUS
<1>1. ASSUME NEW t \in Targets, Enqueue(t) \/ ApiDelivers(t) PROVE IInv'
  BY <1>1, EnqueuePreserves, ApiDeliversPreserves
<1>2. ASSUME NEW a \in Accounts, NEW S \in SUBSET Targets, Claim(a, S)
      PROVE  IInv'
  BY <1>2, ClaimPreserves
<1>3. ASSUME NEW a \in Accounts, NEW t \in Targets, NEW o \in Outcomes,
             Submit(a, t, o) \/ IgnoreResult(a, t, o)
      PROVE  IInv'
  BY <1>3, SubmitPreserves, IgnoreResultPreserves
<1>4. ASSUME NEW a \in Accounts, NEW t \in Targets,
             \/ RecordReleased(a, t) \/ RecordUnavailable(a, t)
             \/ RecordFailed(a, t) \/ RecordSuccess(a, t)
      PROVE  IInv'
  BY <1>4, RecordReleasedPreserves, RecordResultPreserves
<1>5. ASSUME NEW S \in SUBSET Targets, StartRun(S) PROVE IInv'
  BY <1>5, StartRunPreserves
<1>6. ASSUME NEW S \in SUBSET Targets, Interrupt(S) PROVE IInv'
  BY <1>6, RunEndPreserves
<1>7. CASE RunStep
  BY <1>7, PageServedPreserves, PageBlockedPreserves, PageFailsPreserves,
     StopStartingPreserves, RunEndPreserves DEF RunStep
<1>8. CASE Tick
  BY <1>8, TickPreserves
<1>9. CASE UNCHANGED vars
  BY <1>9 DEF vars, rowVars, runVars, clientVars, IInv, TypeOK, RunInv,
     MemoryIsCurrent, ScrapedOnce, UnqueuedInv, ChecksBounded, StreakInv
<1>10. QED
  BY <1>1, <1>2, <1>3, <1>4, <1>5, <1>6, <1>7, <1>8, <1>9 DEF Next

LEMMA Invariance == Spec => []IInv
  BY InitInv, StepInv, PTL DEF Spec

\* Every variable keeps its type, for every number of videos and accounts.
THEOREM TypeCorrect == Spec => []TypeOK
  BY Invariance, PTL DEF IInv

\* The rows the built-in scraper saves from memory are always current.
THEOREM SavesAreCurrent == Spec => []MemoryIsCurrent
  BY Invariance, PTL DEF IInv

\* A video's infos are stored once, and exactly if its target is successful.
THEOREM NeverScrapedTwice == Spec => []ScrapedOnce
  BY Invariance, PTL DEF IInv

\* No video is checked for more often than the setting allows.
THEOREM UnavailableChecksEnd == Spec => []ChecksBounded
  BY Invariance, PTL DEF IInv

\* A run TikTok serves nothing in fails fewer targets than would abort it.
THEOREM RefusalsCostLittle == Spec => []BlockedRunSpares
  BY Invariance, PTL DEF IInv, StreakInv, BlockedRunSpares

-----------------------------------------------------------------------------
(****************************************************************************)
(* Settled targets stay settled                                            *)
(****************************************************************************)

\* Neither a claim nor a run takes a settled target off the queue.
LEMMA LeaseSparesSettled ==
    ASSUME NEW holder, NEW ticks, NEW S, IInv, LeaseTargets(holder, ticks, S)
    PROVE  SettledUntouched
<1>1. ASSUME NEW t \in Targets, Settled(t) PROVE t \notin S
  BY <1>1 DEF LeaseTargets, Claimable, Due, Recheckable, Settled,
     FinalStatuses, IInv, TypeOK
<1>2. QED
  BY <1>1 DEF LeaseTargets, SettledUntouched

\* Marking rows touches no others.
LEMMA MarksSpareSettled ==
    ASSUME NEW marks, NEW R, NEW holder, NEW inMemAttempts, NEW inMemChecks,
           MarkRows(marks, R, holder, inMemAttempts, inMemChecks),
           \A t \in Targets :
               Settled(t) => t \notin DOMAIN marks /\ stored'[t] = stored[t]
    PROVE  SettledUntouched
  BY DEF MarkRows, SettledUntouched

\* What a run holds in memory is not settled: it was not when it was read,
\* and memory is current.
LEMMA BatchIsOpen ==
    ASSUME IInv, NEW t \in batch
    PROVE  ~Settled(t)
  BY DEF IInv, TypeOK, RunInv, MemoryIsCurrent, Settled, FinalStatuses

LEMMA AcceptedIsOpen ==
    ASSUME IInv, NEW a \in Accounts, NEW t \in Targets, Accepts(a, t)
    PROVE  ~Settled(t)
  BY DEF IInv, TypeOK, Accepts, IsDone, Settled

LEMMA RecordSparesSettled ==
    ASSUME IInv, NEW a \in Accounts, NEW t \in Targets,
           \/ RecordReleased(a, t) \/ RecordUnavailable(a, t)
           \/ RecordFailed(a, t) \/ RecordSuccess(a, t)
    PROVE  SettledUntouched
<1>1. CASE RecordReleased(a, t)
  BY <1>1 DEF RecordReleased, SettledUntouched
<1>2. ASSUME NEW marks, DOMAIN marks = {t}, Accepts(a, t),
             MarkRows(marks, {}, a, attempts, checks),
             \A u \in Targets \ {t} : stored'[u] = stored[u]
      PROVE  SettledUntouched
  BY <1>2, AcceptedIsOpen, MarksSpareSettled
<1>3. CASE RecordUnavailable(a, t)
  BY <1>2, <1>3 DEF RecordUnavailable
<1>4. CASE RecordFailed(a, t)
  BY <1>2, <1>4 DEF RecordFailed, Failed
<1>5. CASE RecordSuccess(a, t)
  BY <1>2, <1>5 DEF RecordSuccess, Failed, IInv, TypeOK
<1>6. QED
  BY <1>1, <1>3, <1>4, <1>5

LEMMA PageServedSparesSettled ==
    ASSUME IInv, NEW t \in Targets, NEW o, PageServed(t, o)
    PROVE  SettledUntouched
<1>1. held \cup {t} \subseteq batch
  BY DEF IInv, RunInv, PageServed
<1>2. \A u \in Targets : Settled(u) => u \notin held \cup {t}
  BY <1>1, BatchIsOpen
<1>3. \A u \in Targets : u # t => stored'[u] = stored[u]
  BY DEF PageServed, IInv, TypeOK
<1>4. QED
  BY <1>2, <1>3, MarksSpareSettled DEF PageServed

LEMMA RunEndSparesSettled ==
    ASSUME IInv, NEW R, NEW S, S \subseteq held, RunOver,
           MarkRows(Failed(S), R, NoAccount, memAttempts, memChecks)
    PROVE  SettledUntouched
<1>1. S \subseteq batch
  BY DEF IInv, RunInv
<1>2. \A u \in Targets : Settled(u) => u \notin S
  BY <1>1, BatchIsOpen
<1>3. DOMAIN Failed(S) = S /\ stored' = stored
  BY DEF Failed, RunOver
<1>4. QED
  BY <1>2, <1>3, MarksSpareSettled

LEMMA SettledStep == IInv /\ [Next]_vars => [SettledUntouched]_vars
<1> SUFFICES ASSUME IInv, Next PROVE SettledUntouched
  OBVIOUS
<1>1. ASSUME NEW t \in Targets, Enqueue(t) \/ ApiDelivers(t)
      PROVE  SettledUntouched
  BY <1>1 DEF Enqueue, ApiDelivers, SettledUntouched, Settled, FinalStatuses,
     rowVars, IInv, TypeOK
<1>2. ASSUME NEW a \in Accounts, NEW S \in SUBSET Targets, Claim(a, S)
      PROVE  SettledUntouched
  BY <1>2, LeaseSparesSettled DEF Claim
<1>3. ASSUME NEW a \in Accounts, NEW t \in Targets, NEW o \in Outcomes,
             Submit(a, t, o) \/ IgnoreResult(a, t, o)
      PROVE  SettledUntouched
  BY <1>3 DEF Submit, IgnoreResult, rowVars, SettledUntouched
<1>4. ASSUME NEW a \in Accounts, NEW t \in Targets,
             \/ RecordReleased(a, t) \/ RecordUnavailable(a, t)
             \/ RecordFailed(a, t) \/ RecordSuccess(a, t)
      PROVE  SettledUntouched
  BY <1>4, RecordSparesSettled
<1>5. ASSUME NEW S \in SUBSET Targets, StartRun(S) PROVE SettledUntouched
  BY <1>5, LeaseSparesSettled DEF StartRun
<1>6. ASSUME NEW S \in SUBSET Targets, Interrupt(S) PROVE SettledUntouched
  BY <1>6, RunEndSparesSettled DEF Interrupt
<1>7. ASSUME NEW t \in Targets, NEW o, PageServed(t, o)
      PROVE  SettledUntouched
  BY <1>7, PageServedSparesSettled
<1>8. ASSUME NEW t \in Targets, PageBlocked(t) \/ PageFails(t)
      PROVE  SettledUntouched
  BY <1>8 DEF PageBlocked, PageFails, rowVars, SettledUntouched
<1>9. CASE StopStarting
  BY <1>9 DEF StopStarting, rowVars, SettledUntouched
<1>10. CASE CloseRun
  BY <1>10, RunEndSparesSettled DEF CloseRun
<1>11. CASE Tick
  BY <1>11 DEF Tick, SettledUntouched
<1>12. QED
  BY <1>1, <1>2, <1>3, <1>4, <1>5, <1>6, <1>7, <1>8, <1>9, <1>10, <1>11
     DEF Next, RunStep

\* Nothing ever reopens a target that is done for good.
THEOREM SettledForGood == Spec => SettledStays
  BY Invariance, SettledStep, PTL DEF Spec, SettledStays

-----------------------------------------------------------------------------
(****************************************************************************)
(* Leases are exclusive, if clients claim only with no result under way    *)
(****************************************************************************)

\* A scraper at work is the account its target's row names, the lease in
\* the row runs as long as the one it was told of, and no result of its own
\* is under way that could end that lease.
LeaseInv ==
    /\ \A a \in Accounts, t \in Targets :
           AtWork(a, t) => claimedBy[t] = a /\ lease[t] >= told[<<a, t>>]
    /\ \A a \in Accounts, t \in Targets, o \in Outcomes :
           <<a, t>> \in asked => mail[<<a, t, o>>] = 0

LInv == IInv /\ LeaseInv

\* A row somebody is at work on is not claimable, and not in a run's batch.
LEMMA AtWorkIsLeased ==
    ASSUME LInv, NEW a \in Accounts, NEW t \in Targets, AtWork(a, t)
    PROVE  t \notin Claimable /\ t \notin batch /\ claimedBy[t] = a
<1>1. told[<<a, t>>] \in Nat /\ lease[t] \in Int
  BY DEF LInv, IInv, TypeOK
<1>2. lease[t] > 0 /\ claimedBy[t] = a
  BY <1>1 DEF LInv, LeaseInv, AtWork
<1>3. t \notin Claimable
  BY <1>2 DEF Claimable, LeaseFree, NoLease, Lapsed
<1>4. t \notin batch
  BY <1>2 DEF LInv, IInv, MemoryIsCurrent
<1>5. QED
  BY <1>2, <1>3, <1>4

\* What leaves the clients and every row somebody is at work on alone keeps
\* the lease invariant.
LEMMA RowsUntouched ==
    ASSUME LInv, asked' = asked, told' = told, mail' = mail,
           \A a \in Accounts, t \in Targets : AtWork(a, t) =>
               claimedBy'[t] = claimedBy[t] /\ lease'[t] = lease[t]
    PROVE  LeaseInv'
  BY DEF LInv, LeaseInv, AtWork

\* A result that arrives ends no lease of a scraper that is at work.
LEMMA ArrivalKeepsLeases ==
    ASSUME LInv, NEW a \in Accounts, NEW t \in Targets, NEW o \in Outcomes,
           Arrives(a, t, o),
           \A u \in Targets \ {t} :
               claimedBy'[u] = claimedBy[u] /\ lease'[u] = lease[u],
           \/ claimedBy' = claimedBy /\ lease' = lease
           \/ HeldBy(a, t)
    PROVE  LeaseInv'
<1>1. /\ asked' = asked /\ told' = told
      /\ mail[<<a, t, o>>] > 0
      /\ \A m \in Accounts \X Targets \X Outcomes :
             mail'[m] = IF m = <<a, t, o>> THEN mail[m] - 1 ELSE mail[m]
  BY DEF Arrives, LInv, IInv, TypeOK
<1>2. ASSUME NEW b \in Accounts, NEW u \in Targets, AtWork(b, u)
      PROVE  claimedBy'[u] = claimedBy[u] /\ lease'[u] = lease[u]
  <2>1. <<a, t>> \notin asked
    BY <1>1 DEF LInv, LeaseInv
  <2>2. CASE u # t
    BY <2>2
  <2>3. CASE u = t
    BY <1>2, <2>1, <2>3, AtWorkIsLeased DEF AtWork, HeldBy
  <2>4. QED
    BY <2>2, <2>3
<1>3. \A b \in Accounts, u \in Targets :
          AtWork(b, u)' => claimedBy'[u] = b /\ lease'[u] >= told'[<<b, u>>]
  BY <1>1, <1>2 DEF LInv, LeaseInv, AtWork
<1>4. \A b \in Accounts, u \in Targets, p \in Outcomes :
          <<b, u>> \in asked' => mail'[<<b, u, p>>] = 0
  <2> SUFFICES ASSUME NEW b \in Accounts, NEW u \in Targets,
                      NEW p \in Outcomes, <<b, u>> \in asked
               PROVE  mail'[<<b, u, p>>] = 0
    BY <1>1
  <2>1. mail[<<b, u, p>>] = 0
    BY DEF LInv, LeaseInv
  <2>2. <<b, u, p>> # <<a, t, o>>
    BY <1>1, <2>1
  <2>3. QED
    BY <1>1, <2>1, <2>2
<1>5. QED
  BY <1>3, <1>4 DEF LeaseInv

LEMMA RecordKeepsLeases ==
    ASSUME LInv, NEW a \in Accounts, NEW t \in Targets,
           \/ RecordReleased(a, t) \/ RecordUnavailable(a, t)
           \/ RecordFailed(a, t) \/ RecordSuccess(a, t)
    PROVE  LeaseInv'
<1>1. CASE RecordReleased(a, t)
  <2>1. \A u \in Targets \ {t} :
            claimedBy'[u] = claimedBy[u] /\ lease'[u] = lease[u]
    BY <1>1 DEF RecordReleased, LInv, IInv, TypeOK
  <2>2. QED
    BY <1>1, <2>1, ArrivalKeepsLeases DEF RecordReleased, Accepts, Outcomes
<1>2. ASSUME NEW marks, DOMAIN marks = {t}, Accepts(a, t),
             NEW o \in Outcomes, Arrives(a, t, o),
             MarkRows(marks, {}, a, attempts, checks)
      PROVE  LeaseInv'
  <2>1. \A u \in Targets \ {t} :
            claimedBy'[u] = claimedBy[u] /\ lease'[u] = lease[u]
    BY <1>2 DEF MarkRows
  <2>2. QED
    BY <1>2, <2>1, ArrivalKeepsLeases DEF Accepts
<1>3. CASE RecordUnavailable(a, t)
  BY <1>2, <1>3 DEF RecordUnavailable, Outcomes
<1>4. CASE RecordFailed(a, t)
  BY <1>2, <1>4 DEF RecordFailed, Failed, Outcomes
<1>5. CASE RecordSuccess(a, t)
  BY <1>2, <1>5 DEF RecordSuccess, Failed, Outcomes
<1>6. QED
  BY <1>1, <1>3, <1>4, <1>5

\* A run saves and releases rows of its own batch only.
LEMMA RunMarksKeepLeases ==
    ASSUME LInv, NEW marks, NEW R, NEW inMemAttempts, NEW inMemChecks,
           MarkRows(marks, R, NoAccount, inMemAttempts, inMemChecks),
           DOMAIN marks \subseteq batch, R \subseteq batch,
           UNCHANGED clientVars
    PROVE  LeaseInv'
<1>1. ASSUME NEW a \in Accounts, NEW t \in Targets, AtWork(a, t)
      PROVE  claimedBy'[t] = claimedBy[t] /\ lease'[t] = lease[t]
  <2>1. t \notin DOMAIN marks /\ t \notin R
    BY <1>1, AtWorkIsLeased
  <2>2. QED
    BY <2>1 DEF MarkRows
<1>2. QED
  BY <1>1, RowsUntouched DEF clientVars

\* A lease on claimable rows takes none from a scraper at work.
LEMMA LeaseTargetsSparesWork ==
    ASSUME LInv, NEW holder, NEW ticks, NEW S, LeaseTargets(holder, ticks, S),
           NEW a \in Accounts, NEW t \in Targets, AtWork(a, t)
    PROVE  /\ t \notin S
           /\ claimedBy'[t] = claimedBy[t] /\ lease'[t] = lease[t]
  BY AtWorkIsLeased DEF LeaseTargets

\* A patient client has no result under way that could end its new lease.
LEMMA ClaimKeepsLeases ==
    ASSUME LInv, Patient, NEW a \in Accounts, NEW S \in SUBSET Targets,
           Claim(a, S)
    PROVE  LeaseInv'
<1> DEFINE New == {a} \X (S \ covered)
<1>1. \A b \in Accounts, t \in Targets :
          /\ <<b, t>> \in asked' <=> <<b, t>> \in asked \/ <<b, t>> \in New
          /\ told'[<<b, t>>] = IF <<b, t>> \in New THEN ExternalLease
                             ELSE told[<<b, t>>]
  BY DEF Claim, LInv, IInv, TypeOK
<1>2. \A b \in Accounts, t \in Targets, o \in Outcomes :
          /\ mail'[<<b, t, o>>] = mail[<<b, t, o>>]
          /\ b = a => mail[<<b, t, o>>] = 0
  BY DEF Claim, LInv, IInv, TypeOK
<1>3. ASSUME NEW b \in Accounts, NEW t \in Targets, AtWork(b, t)'
      PROVE  claimedBy'[t] = b /\ lease'[t] >= told'[<<b, t>>]
  <2>1. CASE <<b, t>> \in New
    BY <1>1, <2>1 DEF Claim, LeaseTargets
  <2>2. CASE <<b, t>> \notin New
    <3>1. AtWork(b, t) /\ told'[<<b, t>>] = told[<<b, t>>]
      BY <1>1, <1>3, <2>2 DEF AtWork
    <3>2. claimedBy'[t] = claimedBy[t] /\ lease'[t] = lease[t]
      BY <3>1, LeaseTargetsSparesWork DEF Claim
    <3>3. QED
      BY <3>1, <3>2 DEF LInv, LeaseInv
  <2>3. QED
    BY <2>1, <2>2
<1>4. ASSUME NEW b \in Accounts, NEW t \in Targets, NEW o \in Outcomes,
             <<b, t>> \in asked'
      PROVE  mail'[<<b, t, o>>] = 0
  <2>1. CASE <<b, t>> \in asked
    BY <1>2, <2>1 DEF LInv, LeaseInv
  <2>2. CASE <<b, t>> \in New
    BY <1>2, <2>2
  <2>3. QED
    BY <1>1, <1>4, <2>1, <2>2
<1>5. QED
  BY <1>3, <1>4 DEF LeaseInv

LEMMA SubmitKeepsLeases ==
    ASSUME LInv, NEW a \in Accounts, NEW t \in Targets, NEW o \in Outcomes,
           Submit(a, t, o)
    PROVE  LeaseInv'
<1>1. \A b \in Accounts, u \in Targets :
          /\ <<b, u>> \in asked' <=> <<b, u>> \in asked /\ <<b, u>> # <<a, t>>
          /\ <<b, u>> # <<a, t>> => told'[<<b, u>>] = told[<<b, u>>]
  BY DEF Submit, LInv, IInv, TypeOK
<1>2. \A b \in Accounts, u \in Targets, p \in Outcomes :
          <<b, u>> # <<a, t>> => mail'[<<b, u, p>>] = mail[<<b, u, p>>]
  BY DEF Submit, LInv, IInv, TypeOK
<1>3. claimedBy' = claimedBy /\ lease' = lease
  BY DEF Submit, rowVars
<1>4. QED
  BY <1>1, <1>2, <1>3 DEF LInv, LeaseInv, AtWork

\* Row and client count down together: the lease outlives what was told.
LEMMA TickKeepsLeases ==
    ASSUME LInv, Tick
    PROVE  LeaseInv'
<1>1. \A a \in Accounts, t \in Targets :
          told'[<<a, t>>] = Down(told[<<a, t>>])
          /\ told[<<a, t>>] \in Nat /\ lease[t] \in Int
          /\ lease'[t] = Down(lease[t])
  BY DEF Tick, LInv, IInv, TypeOK
<1>2. asked' = asked /\ mail' = mail /\ claimedBy' = claimedBy
  BY DEF Tick
<1>3. QED
  BY <1>1, <1>2 DEF LInv, LeaseInv, AtWork, Down

LEMMA LeaseStep == LInv /\ Patient /\ [Next]_vars => LInv'
<1> SUFFICES ASSUME LInv, Patient, [Next]_vars PROVE LeaseInv'
  BY StepInv DEF LInv
<1>1. ASSUME NEW t \in Targets, Enqueue(t) \/ ApiDelivers(t)
      PROVE  LeaseInv'
  BY <1>1, RowsUntouched DEF Enqueue, ApiDelivers, rowVars, clientVars
<1>2. ASSUME NEW a \in Accounts, NEW S \in SUBSET Targets, Claim(a, S)
      PROVE  LeaseInv'
  BY <1>2, ClaimKeepsLeases
<1>3. ASSUME NEW a \in Accounts, NEW t \in Targets, NEW o \in Outcomes,
             Submit(a, t, o)
      PROVE  LeaseInv'
  BY <1>3, SubmitKeepsLeases
<1>4. ASSUME NEW a \in Accounts, NEW t \in Targets, NEW o \in Outcomes,
             IgnoreResult(a, t, o)
      PROVE  LeaseInv'
  BY <1>4, ArrivalKeepsLeases DEF IgnoreResult, rowVars
<1>5. ASSUME NEW a \in Accounts, NEW t \in Targets,
             \/ RecordReleased(a, t) \/ RecordUnavailable(a, t)
             \/ RecordFailed(a, t) \/ RecordSuccess(a, t)
      PROVE  LeaseInv'
  BY <1>5, RecordKeepsLeases
<1>6. ASSUME NEW S \in SUBSET Targets, StartRun(S) PROVE LeaseInv'
  BY <1>6, LeaseTargetsSparesWork, RowsUntouched DEF StartRun, clientVars
<1>7. ASSUME NEW S \in SUBSET Targets, Interrupt(S) PROVE LeaseInv'
  BY <1>7, RunMarksKeepLeases
     DEF Interrupt, RunOver, Failed, LInv, IInv, RunInv
<1>8. ASSUME NEW t \in Targets, NEW o, PageServed(t, o) PROVE LeaseInv'
  BY <1>8, RunMarksKeepLeases DEF PageServed, LInv, IInv, RunInv
<1>9. ASSUME NEW t \in Targets, PageBlocked(t) \/ PageFails(t)
      PROVE  LeaseInv'
  BY <1>9, RowsUntouched DEF PageBlocked, PageFails, rowVars, clientVars
<1>10. CASE StopStarting
  BY <1>10, RowsUntouched DEF StopStarting, rowVars, clientVars
<1>11. CASE CloseRun
  BY <1>11, RunMarksKeepLeases
     DEF CloseRun, RunOver, Failed, LInv, IInv, RunInv
<1>12. CASE Tick
  BY <1>12, TickKeepsLeases
<1>13. CASE UNCHANGED vars
  BY <1>13, RowsUntouched DEF vars, rowVars, clientVars
<1>14. QED
  BY <1>1, <1>2, <1>3, <1>4, <1>5, <1>6, <1>7, <1>8, <1>9, <1>10, <1>11,
     <1>12, <1>13 DEF Next, RunStep

\* With clients that wait for their results before they claim again, no two
\* scrapers are ever at work on a target within their leases.
THEOREM OneScraperPerLease ==
    ASSUME Patient
    PROVE  Spec => []LeaseExclusive
<1>1. Init => LInv
  <2>1. Init => LeaseInv
    BY DEF Init, LeaseInv, AtWork
  <2>2. QED
    BY <2>1, InitInv DEF LInv
<1>2. LInv => LeaseExclusive
  <2> SUFFICES ASSUME LInv, NEW a \in Accounts, NEW t \in Targets,
                      AtWork(a, t)
               PROVE  /\ t \notin batch
                      /\ \A b \in Accounts \ {a} : ~AtWork(b, t)
    BY DEF LeaseExclusive
  <2>1. \A b \in Accounts : AtWork(b, t) => claimedBy[t] = b
    BY AtWorkIsLeased
  <2>2. QED
    BY <2>1, AtWorkIsLeased
<1>3. LInv /\ [Next]_vars => LInv'
  BY LeaseStep
<1>4. QED
  BY <1>1, <1>2, <1>3, PTL DEF Spec

-----------------------------------------------------------------------------
(* The task.                                                                *)

USE RunAssumption, CooldownAssumption, BoundsAssumption

\* A scraping run has the lock, for longer than it may still last.  A run
\* whose batch is over may have lost it to nobody: it is not scraping.
LockInv ==
    \A w \in Workers : stage[w] = "scraping" => owner = w /\ lock > left[w]

TaskInvariant == TaskTypeOK /\ LockInv /\ EscalationKept

\* A pause is at least a tick and at most the longest pause.
LEMMA PauseBounds ==
    ASSUME NEW n \in Nat
    PROVE  PauseAfter(n) \in 1..CooldownMax
  BY DEF PauseAfter

\* A worker that is done is free, and its types are right.
LEMMA DoneType ==
    ASSUME TaskTypeOK, NEW w \in Workers, Done(w)
    PROVE  /\ stage' \in [Workers -> Steps] /\ kind' \in [Workers -> Kinds]
           /\ left' \in [Workers -> 0..TimeLimit]
           /\ result' \in [Workers -> Results] /\ seen' \in [Workers -> Nat]
           /\ stage'[w] = "free"
           /\ \A v \in Workers \ {w} : stage'[v] = stage[v] /\ left'[v] = left[v]
  BY DEF Done, TaskTypeOK, Steps, Kinds, Results

\* Publishing a message keeps the count of messages a natural number.
LEMMA PublishType ==
    ASSUME TaskTypeOK, NEW k \in Kinds, Publish(k)
    PROVE  queued' \in [Kinds -> Nat]
  BY DEF Publish, TaskTypeOK

-----------------------------------------------------------------------------
LEMMA TaskInvariantInit == TaskInit => TaskInvariant
<1> SUFFICES ASSUME TaskInit PROVE TaskInvariant
  OBVIOUS
<1>1. TaskTypeOK
  <2>1. /\ stage \in [Workers -> Steps] /\ kind \in [Workers -> Kinds]
        /\ result \in [Workers -> Results]
    BY DEF TaskInit, Steps, Kinds, Results
  <2>2. /\ queued \in [Kinds -> Nat] /\ seen \in [Workers -> Nat]
        /\ left \in [Workers -> 0..TimeLimit]
    BY DEF TaskInit
  <2>3. pending \in BOOLEAN /\ owner \in Workers
    BY DEF TaskInit
  <2>4. /\ lock \in 0..LockTimeout /\ aborts \in Nat
        /\ pause \in 0..CooldownMax /\ memory \in Nat
    BY DEF TaskInit
  <2>5. QED
    BY <2>1, <2>2, <2>3, <2>4 DEF TaskTypeOK
<1>2. LockInv /\ EscalationKept
  BY DEF TaskInit, LockInv, EscalationKept
<1>3. QED
  BY <1>1, <1>2 DEF TaskInvariant

\* The actions around the workers leave the runs and the lock alone.
LEMMA OutsidePreserves ==
    ASSUME TaskInvariant, QueueChanges \/ Beat \/ StartByHand \/ Resume
    PROVE  TaskInvariant'
<1>1. UNCHANGED <<worker, redisLock>>
  BY DEF QueueChanges, Beat, StartByHand, Resume
<1>2. queued' \in [Kinds -> Nat] /\ pending' \in BOOLEAN
  BY PublishType DEF QueueChanges, Beat, StartByHand, Resume, TaskInvariant, TaskTypeOK,
     Kinds
<1>3. UNCHANGED cooldown \/ ForgetCooldown
  BY DEF QueueChanges, Beat, StartByHand, Resume
<1>4. TaskTypeOK'
  BY <1>1, <1>2, <1>3 DEF worker, redisLock, cooldown, ForgetCooldown, TaskInvariant,
     TaskTypeOK
<1>5. LockInv' /\ EscalationKept'
  BY <1>1, <1>3 DEF worker, redisLock, cooldown, ForgetCooldown, TaskInvariant,
     LockInv, EscalationKept
<1>6. QED
  BY <1>4, <1>5 DEF TaskInvariant

LEMMA BeginPreserves ==
    ASSUME TaskInvariant, NEW w \in Workers, NEW k \in Kinds, Begin(w, k)
    PROVE  TaskInvariant'
<1>1. TaskTypeOK'
  BY DEF Begin, Goto, worker, redisLock, cooldown, TaskInvariant, TaskTypeOK, Steps
<1>2. LockInv' /\ EscalationKept'
  BY DEF Begin, Goto, worker, redisLock, cooldown, TaskInvariant, TaskTypeOK, LockInv,
     EscalationKept
<1>3. QED
  BY <1>1, <1>2 DEF TaskInvariant

\* The lock is taken only if it has expired, so nobody else is scraping.
LEMMA TryLockPreserves ==
    ASSUME TaskInvariant, NEW w \in Workers, TryLock(w)
    PROVE  TaskInvariant'
<1>1. EscalationKept'
  BY DEF TryLock, cooldown, TaskInvariant, EscalationKept
<1>2. CASE lock = 0
  <2>1. TaskTypeOK'
    BY <1>2 DEF TryLock, Goto, LockTime, cooldown, TaskInvariant, TaskTypeOK, Steps
  <2>2. \A v \in Workers : stage[v] # "scraping"
    BY <1>2 DEF TaskInvariant, TaskTypeOK, LockInv
  <2>3. LockInv'
    BY <1>2, <2>2 DEF TryLock, Goto, LockTime, TaskInvariant, TaskTypeOK, LockInv
  <2>4. QED
    BY <1>1, <2>1, <2>3 DEF TaskInvariant
<1>3. CASE lock # 0
  <2>1. TaskTypeOK'
    BY <1>3, DoneType DEF TryLock, redisLock, cooldown, TaskInvariant, TaskTypeOK
  <2>2. LockInv'
    BY <1>3, DoneType DEF TryLock, redisLock, TaskInvariant, LockInv
  <2>3. QED
    BY <1>1, <2>1, <2>2 DEF TaskInvariant
<1>4. QED
  BY <1>2, <1>3

LEMMA StopScrapingPreserves ==
    ASSUME TaskInvariant, NEW w \in Workers, NEW r \in Results, StopScraping(w, r)
    PROVE  TaskInvariant'
<1>1. TaskTypeOK'
  BY DEF StopScraping, Goto, redisLock, cooldown, TaskInvariant, TaskTypeOK, Steps
<1>2. LockInv' /\ EscalationKept'
  BY DEF StopScraping, Goto, redisLock, cooldown, TaskInvariant, TaskTypeOK, LockInv,
     EscalationKept
<1>3. QED
  BY <1>1, <1>2 DEF TaskInvariant

\* Only the owner can end the lock, and it has stopped scraping.
LEMMA ReleasePreserves ==
    ASSUME TaskInvariant, NEW w \in Workers, Release(w)
    PROVE  TaskInvariant'
<1>1. lock' \in 0..LockTimeout /\ UNCHANGED <<owner, cooldown>>
  BY DEF Release, TaskInvariant, TaskTypeOK
<1>2. \A v \in Workers : stage[v] = "scraping" => lock' = lock
  BY DEF Release, TaskInvariant, LockInv
<1>3. \A v \in Workers :
          stage'[v] = "scraping" => stage[v] = "scraping" /\ left'[v] = left[v]
  BY DoneType DEF Release, Goto, TaskInvariant, TaskTypeOK
<1>4. TaskTypeOK'
  BY <1>1, DoneType DEF Release, Goto, cooldown, TaskInvariant, TaskTypeOK, Steps
<1>5. LockInv' /\ EscalationKept'
  BY <1>1, <1>2, <1>3 DEF cooldown, TaskInvariant, LockInv, EscalationKept
<1>6. QED
  BY <1>4, <1>5 DEF TaskInvariant

\* What a run does after its batch: it writes a whole cool-down entry, or
\* removes it.
LEMMA AfterwardsPreserves ==
    ASSUME TaskInvariant, NEW w \in Workers,
           ReadAborts(w) \/ WriteAbort(w) \/ NoteServed(w)
    PROVE  TaskInvariant'
<1>1. seen[w] + 1 \in Nat /\ seen[w] + 1 > 0
  BY DEF TaskInvariant, TaskTypeOK
<1>2. /\ aborts' \in Nat /\ pause' \in 0..CooldownMax /\ memory' \in Nat
      /\ EscalationKept'
  BY <1>1, PauseBounds DEF ReadAborts, WriteAbort, NoteServed, Kept,
     ForgetCooldown, cooldown, TaskInvariant, TaskTypeOK, EscalationKept
<1>3. TaskTypeOK'
  BY <1>2 DEF ReadAborts, WriteAbort, NoteServed, Goto, redisLock, TaskInvariant,
     TaskTypeOK, Steps
<1>4. LockInv'
  BY DEF ReadAborts, WriteAbort, NoteServed, Goto, redisLock, TaskInvariant, TaskTypeOK,
     LockInv
<1>5. QED
  BY <1>2, <1>3, <1>4 DEF TaskInvariant

LEMMA DonePreserves ==
    ASSUME TaskInvariant, NEW w \in Workers, Finish(w) \/ Kill(w)
    PROVE  TaskInvariant'
<1>1. queued' \in [Kinds -> Nat]
  BY PublishType DEF Finish, Kill, TaskInvariant, TaskTypeOK, Kinds
<1>2. Done(w) /\ UNCHANGED <<pending, redisLock, cooldown>>
  BY DEF Finish, Kill
<1>3. TaskTypeOK'
  BY <1>1, <1>2, DoneType DEF redisLock, cooldown, TaskInvariant, TaskTypeOK
<1>4. LockInv' /\ EscalationKept'
  BY <1>2, DoneType DEF redisLock, cooldown, TaskInvariant, LockInv, EscalationKept
<1>5. QED
  BY <1>3, <1>4 DEF TaskInvariant

\* Lock and run count down together, and so do pause and memory.
LEMMA TaskTickPreserves ==
    ASSUME TaskInvariant, ClockTicks
    PROVE  TaskInvariant'
<1>1. TaskTypeOK'
  BY DEF ClockTicks, LessOne, LockDown, TaskInvariant, TaskTypeOK
<1>2. LockInv'
  BY DEF ClockTicks, LessOne, LockDown, TaskInvariant, TaskTypeOK, LockInv
<1>3. EscalationKept'
  BY DEF ClockTicks, LessOne, TaskInvariant, TaskTypeOK, EscalationKept
<1>4. QED
  BY <1>1, <1>2, <1>3 DEF TaskInvariant

LEMMA TaskInvariantStep == TaskInvariant /\ [TaskNext]_taskVars => TaskInvariant'
<1> SUFFICES ASSUME TaskInvariant, [TaskNext]_taskVars PROVE TaskInvariant'
  OBVIOUS
<1>1. CASE QueueChanges \/ Beat \/ StartByHand \/ Resume
  BY <1>1, OutsidePreserves
<1>2. ASSUME NEW w \in Workers, NEW k \in Kinds, Begin(w, k) PROVE TaskInvariant'
  BY <1>2, BeginPreserves
<1>3. ASSUME NEW w \in Workers, WorkerStep(w) PROVE TaskInvariant'
  BY <1>3, TryLockPreserves, StopScrapingPreserves, ReleasePreserves,
     AfterwardsPreserves, DonePreserves DEF WorkerStep
<1>4. ASSUME NEW w \in Workers, Kill(w) PROVE TaskInvariant'
  BY <1>4, DonePreserves
<1>5. CASE ClockTicks
  BY <1>5, TaskTickPreserves
<1>6. CASE UNCHANGED taskVars
  BY <1>6 DEF taskVars, worker, redisLock, cooldown, TaskInvariant, TaskTypeOK, LockInv,
     EscalationKept
<1>7. QED
  BY <1>1, <1>2, <1>3, <1>4, <1>5, <1>6 DEF TaskNext

-----------------------------------------------------------------------------
LEMMA TaskInvariantHolds == TaskSpec => []TaskInvariant
  BY TaskInvariantInit, TaskInvariantStep, PTL DEF TaskSpec

\* Every variable keeps its type.
THEOREM TaskTypeCorrect == TaskSpec => []TaskTypeOK
  BY TaskInvariantHolds, PTL DEF TaskInvariant

\* Never do two runs scrape at the same time, however many workers there
\* are, are killed, and get messages twice.
THEOREM MutualExclusion == TaskSpec => []OneRunAtATime
<1>1. TaskInvariant => OneRunAtATime
  BY DEF TaskInvariant, LockInv, OneRunAtATime
<1>2. QED
  BY <1>1, TaskInvariantHolds, PTL

\* The count of aborts outlives every pause.
THEOREM EscalationOutlivesPause == TaskSpec => []EscalationKept
  BY TaskInvariantHolds, PTL DEF TaskInvariant

-----------------------------------------------------------------------------
(* The page client                                                         *)

Answers == [outcome : {"missing_data", "bad_data", "data", "unavailable",
                       "unexpected", "blocked", "failed"},
            tries : 0..2,
            caption : SUBSET {"none_available", "fetched", "failed"}]

\* The shortest time there may be between two attempts.
Shortest == RateDelay - RateJitter

PageTypes ==
    /\ asking \in {"next", "open", "page", "answered"} /\ tries \in 0..2
    /\ cookies \in BOOLEAN /\ refusals \in 0..1
    /\ due \in 0..Longest /\ since \in 0..Longest /\ gap \in 0..Longest
    /\ answers \in Seq(Answers) /\ Len(answers) <= ListLength

\* What has passed since the last attempt and what is still to be waited for
\* make up the shortest interval.
PaceInv == gap >= Shortest /\ since + due >= Shortest

\* An item is at its first or second attempt, and unanswered; the second one
\* has a session in which nothing was refused.
AttemptInv ==
    /\ asking \in {"open", "page"} => tries \in 1..2 /\ Len(answers) < ListLength
    /\ asking \in {"open", "page"} /\ tries = 2 => refusals = 0
    /\ asking = "answered" => Len(answers) > 0

BlockedTwice ==
    \A i \in 1..Len(answers) : answers[i].outcome = "blocked" => answers[i].tries = 2

PageInv == PageTypes /\ PaceInv /\ AttemptInv /\ BlockedTwice

LEMMA PagesBounds ==
    /\ Longest \in Nat /\ Shortest \in Nat /\ Shortest <= Longest
    /\ \A i \in Intervals : i \in Nat /\ Shortest <= i /\ i <= Longest
    /\ ListLength \in Nat /\ Pauses \subseteq Nat
  BY PageScraperAssumption DEF Longest, Shortest, Intervals

\* A pause takes as much off the wait as it adds to what has passed.
LEMMA SpendPaces ==
    ASSUME PageInv, NEW d \in Pauses, Spend(d)
    PROVE  due' \in 0..Longest /\ since' \in 0..Longest /\ gap' = gap /\ PaceInv'
<1>1. d \in Nat /\ due \in 0..Longest /\ since \in 0..Longest /\ PaceInv
  BY PagesBounds DEF PageInv, PageTypes
<1>2. /\ due' = due - AtMost(due, d) /\ since' = AtMost(Longest, since + d)
      /\ gap' = gap
  BY DEF Spend
<1>3. Longest \in Nat /\ Shortest \in Nat /\ Shortest <= Longest
  BY PagesBounds
<1>4. due' \in 0..Longest /\ since' \in 0..Longest
  BY <1>1, <1>2, <1>3 DEF AtMost
<1>5. since' + due' >= Shortest
  BY <1>1, <1>2, <1>3 DEF AtMost, PaceInv
<1>6. Shortest' = Shortest
  BY DEF Shortest
<1>7. QED
  BY <1>1, <1>2, <1>4, <1>5, <1>6 DEF PaceInv

LEMMA PacePaces ==
    ASSUME PageInv, NEW i \in Intervals, Pace(i)
    PROVE  due' \in 0..Longest /\ since' \in 0..Longest /\ gap' \in 0..Longest
           /\ PaceInv'
<1>1. due \in 0..Longest /\ since \in 0..Longest /\ PaceInv
  BY DEF PageInv, PageTypes
<1>2. /\ gap' = AtMost(Longest, since + due) /\ since' = 0 /\ due' = i
  BY DEF Pace
<1>3. /\ Longest \in Nat /\ Shortest \in Nat /\ Shortest <= Longest
      /\ i \in Nat /\ Shortest <= i /\ i <= Longest
  BY PagesBounds
<1>4. gap' \in 0..Longest /\ gap' >= Shortest
  BY <1>1, <1>2, <1>3 DEF AtMost, PaceInv
<1>5. Shortest' = Shortest
  BY DEF Shortest
<1>6. QED
  BY <1>2, <1>3, <1>4, <1>5 DEF PaceInv

\* An answer is added: blocked ones at the second attempt.
LEMMA YieldAnswers ==
    ASSUME PageInv, NEW o, Yield(o), asking \in {"open", "page"},
           o \in {"missing_data", "bad_data", "data", "unavailable",
                  "unexpected", "blocked", "failed"},
           o = "blocked" => tries = 2
    PROVE  /\ answers' \in Seq(Answers) /\ Len(answers') <= ListLength
           /\ Len(answers') > 0 /\ BlockedTwice' /\ asking' = "answered"
<1> DEFINE a == [outcome |-> o, tries |-> tries, caption |-> {}]
<1>1. /\ answers \in Seq(Answers) /\ Len(answers) < ListLength /\ ListLength \in Nat
      /\ tries \in 0..2 /\ BlockedTwice
  BY PagesBounds DEF PageInv, PageTypes, AttemptInv
<1>2. a \in Answers /\ a.outcome = o /\ a.tries = tries
  BY <1>1 DEF Answers
<1>3. answers' = Append(answers, a) /\ asking' = "answered"
  BY DEF Yield
<1> HIDE DEF a
<1>4. /\ answers' \in Seq(Answers) /\ Len(answers') = Len(answers) + 1
      /\ Len(answers) \in Nat
  BY <1>1, <1>2, <1>3
<1>5. \A i \in 1..Len(answers') :
          answers'[i] = IF i <= Len(answers) THEN answers[i] ELSE a
  BY <1>1, <1>2, <1>3, <1>4
<1>6. ASSUME NEW i \in 1..Len(answers'), answers'[i].outcome = "blocked"
      PROVE  answers'[i].tries = 2
  <2>1. CASE i <= Len(answers)
    <3>1. i \in 1..Len(answers) /\ answers'[i] = answers[i]
      BY <1>4, <1>5, <2>1
    <3>2. QED
      BY <1>1, <1>6, <3>1 DEF BlockedTwice
  <2>2. CASE ~(i <= Len(answers))
    BY <1>2, <1>5, <1>6, <2>2
  <2>3. QED
    BY <2>1, <2>2
<1>7. QED
  BY <1>1, <1>3, <1>4, <1>6 DEF BlockedTwice

LEMMA RefusedKeeps ==
    ASSUME PageInv, asking \in {"open", "page"}, NEW r \in {refusals, refusals + 1},
           Refused(r), UNCHANGED page
    PROVE  PageInv'
<1>1. /\ tries \in 1..2 /\ refusals \in 0..1 /\ (tries = 2 => refusals = 0)
      /\ cookies \in BOOLEAN /\ answers \in Seq(Answers) /\ Len(answers) < ListLength
      /\ due \in 0..Longest /\ since \in 0..Longest /\ gap \in 0..Longest
      /\ PaceInv /\ BlockedTwice
  BY DEF PageInv, PageTypes, AttemptInv
<1>2. Len(answers) \in Nat /\ ListLength \in Nat
  BY <1>1, PagesBounds
<1>3. CASE tries = 1
  <2>1. /\ cookies' = FALSE /\ refusals' = 0 /\ asking' = "open" /\ tries' = 2
        /\ answers' = answers
    BY <1>3 DEF Refused
  <2>2. PICK i \in Intervals : Pace(i)
    BY <1>3 DEF Refused
  <2>3. due' \in 0..Longest /\ since' \in 0..Longest /\ gap' \in 0..Longest /\ PaceInv'
    BY <2>2, PacePaces
  <2>4. PageTypes'
    <3>1. cookies' \in BOOLEAN
      BY <2>1, Zenon
    <3>2. Len(answers') <= ListLength
      BY <1>1, <1>2, <2>1
    <3>3. QED
      BY <1>1, <2>1, <2>3, <3>1, <3>2 DEF PageTypes, Longest, Answers
  <2>5. AttemptInv' /\ BlockedTwice'
    BY <1>1, <2>1 DEF AttemptInv, BlockedTwice
  <2>6. QED
    BY <2>3, <2>4, <2>5 DEF PageInv
<1>4. CASE tries # 1
  <2>1. /\ Yield("blocked") /\ refusals' = r /\ cookies' = cookies /\ tries' = tries
        /\ due' = due /\ since' = since /\ gap' = gap /\ tries = 2
    BY <1>1, <1>4 DEF Refused
  <2>2. /\ answers' \in Seq(Answers) /\ Len(answers') <= ListLength
        /\ Len(answers') > 0 /\ BlockedTwice' /\ asking' = "answered"
    BY <2>1, YieldAnswers
  <2>3. refusals' \in 0..1
    BY <1>1, <2>1
  <2>4. PageTypes'
    BY <2>1, <2>2, <2>3 DEF PageInv, PageTypes, Longest, Answers
  <2>5. PaceInv'
    BY <1>1, <2>1 DEF PaceInv, Shortest
  <2>6. AttemptInv'
    BY <2>2 DEF AttemptInv
  <2>7. QED
    BY <2>2, <2>4, <2>5, <2>6 DEF PageInv
<1>5. QED
  BY <1>3, <1>4

\* A failure leaves everything but the answers.
LEMMA FailedKeeps ==
    ASSUME PageInv, asking \in {"open", "page"}, Yield("failed"),
           UNCHANGED <<cookies, refusals, tries, due, since, gap>>
    PROVE  PageInv'
<1>1. /\ answers' \in Seq(Answers) /\ Len(answers') <= ListLength
      /\ Len(answers') > 0 /\ BlockedTwice' /\ asking' = "answered"
  BY YieldAnswers
<1>2. PageTypes'
  BY <1>1 DEF PageInv, PageTypes, Longest, Answers
<1>3. PaceInv' /\ AttemptInv'
  BY <1>1 DEF PageInv, PaceInv, Shortest, AttemptInv
<1>4. QED
  BY <1>1, <1>2, <1>3 DEF PageInv

LEMMA OutcomeType ==
    ASSUME NEW p
    PROVE  Outcome(p) \in {"missing_data", "bad_data", "data", "unavailable",
                           "unexpected"}
  BY DEF Outcome

LEMMA LoadKeeps == PageInv /\ LoadPage => PageInv'
<1> SUFFICES ASSUME PageInv, LoadPage PROVE PageInv'
  OBVIOUS
<1>1. asking = "page"
  BY DEF LoadPage
<1>2. ASSUME NEW p \in Pages, NEW d \in Pauses, Spend(d), Yield(Outcome(p)),
             refusals' = 0, UNCHANGED <<cookies, tries>>
      PROVE  PageInv'
  <2>1. due' \in 0..Longest /\ since' \in 0..Longest /\ gap' = gap /\ PaceInv'
    BY <1>2, SpendPaces
  <2>2. /\ answers' \in Seq(Answers) /\ Len(answers') <= ListLength
        /\ Len(answers') > 0 /\ BlockedTwice' /\ asking' = "answered"
    BY <1>1, <1>2, OutcomeType, YieldAnswers
  <2>3. PageTypes'
    BY <1>2, <2>1, <2>2 DEF PageInv, PageTypes, Longest, Answers
  <2>4. AttemptInv'
    BY <2>2 DEF AttemptInv
  <2>5. QED
    BY <2>1, <2>2, <2>3, <2>4 DEF PageInv
<1>3. CASE Refused(refusals + 1) /\ UNCHANGED page
  BY <1>1, <1>3, RefusedKeeps
<1>4. CASE Yield("failed") /\ UNCHANGED <<cookies, refusals, tries, due, since, gap, page>>
  BY <1>1, <1>4, FailedKeeps
<1>5. QED
  BY <1>2, <1>3, <1>4 DEF LoadPage

LEMMA OpenKeeps == PageInv /\ OpenSession => PageInv'
<1> SUFFICES ASSUME PageInv, OpenSession PROVE PageInv'
  OBVIOUS
<1>1. asking = "open" /\ page' = page
  BY DEF OpenSession
<1>2. ASSUME NEW d \in Pauses, Spend(d), cookies' = TRUE, asking' = "page",
             UNCHANGED <<refusals, tries, answers>>
      PROVE  PageInv'
  <2>1. due' \in 0..Longest /\ since' \in 0..Longest /\ gap' = gap /\ PaceInv'
    BY <1>2, SpendPaces
  <2>2. PageTypes'
    BY <1>2, <2>1 DEF PageInv, PageTypes, Longest, Answers
  <2>3. AttemptInv' /\ BlockedTwice'
    BY <1>1, <1>2 DEF PageInv, AttemptInv, BlockedTwice
  <2>4. QED
    BY <2>1, <2>2, <2>3 DEF PageInv
<1>3. CASE Refused(refusals)
  BY <1>1, <1>3, RefusedKeeps
<1>4. CASE Yield("failed") /\ UNCHANGED <<cookies, refusals, tries, due, since, gap>>
  BY <1>1, <1>4, FailedKeeps
<1>5. QED
  BY <1>2, <1>3, <1>4 DEF OpenSession

LEMMA NextItemKeeps == PageInv /\ NextItem => PageInv'
<1> SUFFICES ASSUME PageInv, NextItem PROVE PageInv'
  OBVIOUS
<1>1. PICK i \in Intervals : Pace(i)
  BY DEF NextItem
<1>2. due' \in 0..Longest /\ since' \in 0..Longest /\ gap' \in 0..Longest /\ PaceInv'
  BY <1>1, PacePaces
<1>3. /\ asking' = "open" /\ tries' = 1 /\ cookies' = cookies
      /\ refusals' = refusals /\ answers' = answers /\ Len(answers) < ListLength
  BY DEF NextItem
<1>4. PageTypes'
  BY <1>2, <1>3 DEF PageInv, PageTypes, Longest, Answers
<1>5. AttemptInv' /\ BlockedTwice'
  BY <1>3 DEF PageInv, AttemptInv, BlockedTwice
<1>6. QED
  BY <1>2, <1>4, <1>5 DEF PageInv

\* A caption changes nothing of the answer but the caption.
LEMMA CaptionKeeps == PageInv /\ FetchCaption => PageInv'
<1> SUFFICES ASSUME PageInv, FetchCaption PROVE PageInv'
  OBVIOUS
<1> DEFINE k == Len(answers)
<1>1. PICK list \in CaptionLists, d \in Pauses :
          \E text \in IF Original(list) = {} THEN {"none_available"} ELSE {"fetched", "failed"} :
             /\ answers' = [answers EXCEPT ![k].caption = {text}]
             /\ IF Original(list) = {} THEN UNCHANGED <<due, since, gap>> ELSE Spend(d)
  BY DEF FetchCaption
<1>2. PICK text \in {"none_available", "fetched", "failed"} :
          /\ answers' = [answers EXCEPT ![k].caption = {text}]
          /\ UNCHANGED <<due, since, gap>> \/ Spend(d)
  BY <1>1
<1>3. /\ asking = "answered" /\ UNCHANGED <<asking, tries, cookies, refusals, page>>
  BY DEF FetchCaption
<1>4. /\ answers \in Seq(Answers) /\ k \in 1..Len(answers) /\ k = Len(answers)
      /\ BlockedTwice /\ k <= ListLength
  BY <1>3 DEF PageInv, PageTypes, AttemptInv
<1>5. due' \in 0..Longest /\ since' \in 0..Longest /\ gap' = gap /\ PaceInv'
  <2>1. CASE UNCHANGED <<due, since, gap>>
    BY <2>1 DEF PageInv, PageTypes, PaceInv, Shortest
  <2>2. CASE Spend(d)
    BY <2>2, SpendPaces
  <2>3. QED
    BY <1>2, <2>1, <2>2
<1> DEFINE a == answers[k]
           b == [a EXCEPT !.caption = {text}]
<1>6. answers' = [answers EXCEPT ![k] = b]
  BY <1>2
<1> HIDE DEF k
<1>7. a \in Answers
  BY <1>4
<1> HIDE DEF a
<1>8. b \in Answers /\ b.outcome = a.outcome /\ b.tries = a.tries
  BY <1>7 DEF Answers
<1> HIDE DEF b
<1>9. /\ answers' \in Seq(Answers) /\ Len(answers') = Len(answers)
      /\ \A i \in 1..Len(answers) : answers'[i] = IF i = k THEN b ELSE answers[i]
  BY <1>4, <1>6, <1>8
<1>10. BlockedTwice'
  BY <1>4, <1>8, <1>9 DEF BlockedTwice, a
<1>11. PageTypes'
  BY <1>3, <1>4, <1>5, <1>9 DEF PageInv, PageTypes, Longest, Answers, k
<1>12. AttemptInv'
  BY <1>3, <1>4, <1>9 DEF PageInv, AttemptInv, k
<1>13. QED
  BY <1>5, <1>10, <1>11, <1>12 DEF PageInv

LEMMA GoOnKeeps == PageInv /\ GoOn => PageInv'
<1> SUFFICES ASSUME PageInv, GoOn PROVE PageInv'
  OBVIOUS
<1>1. PICK d \in Pauses : Spend(d)
  BY DEF GoOn
<1>2. due' \in 0..Longest /\ since' \in 0..Longest /\ gap' = gap /\ PaceInv'
  BY <1>1, SpendPaces
<1>3. asking' = "next" /\ UNCHANGED <<tries, cookies, refusals, page, answers>>
  BY DEF GoOn
<1>4. PageTypes'
  BY <1>2, <1>3 DEF PageInv, PageTypes, Longest, Answers
<1>5. AttemptInv' /\ BlockedTwice'
  BY <1>3 DEF PageInv, AttemptInv, BlockedTwice
<1>6. QED
  BY <1>2, <1>4, <1>5 DEF PageInv

LEMMA KeepKeeps == PageInv /\ (KeepSession \/ UNCHANGED pageVars) => PageInv'
<1> SUFFICES ASSUME PageInv, KeepSession \/ UNCHANGED pageVars PROVE PageInv'
  OBVIOUS
<1>1. /\ UNCHANGED <<tries, cookies, refusals, due, since, gap, page, answers>>
      /\ asking' = asking \/ (asking = "open" /\ asking' = "page")
  BY DEF KeepSession, pageVars
<1>2. PageTypes' /\ PaceInv'
  BY <1>1 DEF PageInv, PageTypes, PaceInv, Shortest, Longest, Answers
<1>3. AttemptInv' /\ BlockedTwice'
  BY <1>1 DEF PageInv, AttemptInv, BlockedTwice
<1>4. QED
  BY <1>2, <1>3 DEF PageInv

LEMMA InitPages == PagesInit => PageInv
<1> SUFFICES ASSUME PagesInit PROVE PageInv
  OBVIOUS
<1>1. Longest \in Nat /\ Shortest \in Nat /\ Shortest <= Longest /\ ListLength \in Nat
  BY PagesBounds
<1>2. answers = <<>> /\ answers \in Seq(Answers) /\ Len(answers) = 0
  BY DEF PagesInit
<1>3. PageTypes
  <2>1. cookies \in BOOLEAN
    BY Zenon DEF PagesInit
  <2>2. QED
    BY <1>1, <1>2, <2>1 DEF PagesInit, PageTypes
<1>4. PaceInv
  BY <1>1 DEF PagesInit, PaceInv
<1>5. AttemptInv /\ BlockedTwice
  BY <1>2 DEF PagesInit, AttemptInv, BlockedTwice
<1>6. QED
  BY <1>3, <1>4, <1>5 DEF PageInv

LEMMA PagesHold == PagesSpec => []PageInv
<1>1. PageInv /\ [PagesNext]_pageVars => PageInv'
  BY NextItemKeeps, OpenKeeps, LoadKeeps, CaptionKeeps, GoOnKeeps, KeepKeeps
     DEF PagesNext
<1>2. QED
  BY <1>1, InitPages, PTL DEF PagesSpec

\* Whatever a list of items, its pages and captions and the errors of the
\* network are, attempts are paced, the second ones included; a second
\* attempt has a session of its own; and blocked means refused twice.
THEOREM PagesPaced == PagesSpec => [](PagesTypeOK /\ RequestsPaced)
<1>1. PageInv => PagesTypeOK /\ RequestsPaced
  BY DEF PageInv, PageTypes, PaceInv, AttemptInv, BlockedTwice, PagesTypeOK,
     RequestsPaced, Shortest
<1>2. QED
  BY <1>1, PagesHold, PTL
=============================================================================
