------------------------- MODULE DonationCountsProofs -------------------------
(****************************************************************************)
(* Proofs about those who write the counts of the queue.  DonationCounts,   *)
(* for any donors and videos and any number of retries and recounts: the    *)
(* types, that the videos of a processed donation are in the queue and      *)
(* stay there, and that a recount nothing disturbs leaves exact counts.     *)
(* LinkImport, for any lists, origins and numbers of runs: that a list is   *)
(* imported completely and leaves the ranking alone.                        *)
(****************************************************************************)
EXTENDS DonationCounts, LinkImport, FiniteSetTheorems, TLAPS

USE DonorsAssumption, LimitsAssumption

\* What a task is about to create, plus what it has found, is everything its
\* donation shows; past the queue, all of it is there.
QueueInv ==
    /\ \A w \in Writers : at[w] # "idle" => doing[w] \in Donors
    /\ \A d \in Donors :
           /\ doing[d] = d
           /\ at[d] = "write queue" =>
                  shows[d] \ fresh[d] \subseteq rows["queue"]
           /\ at[d] = "report" => shows[d] \subseteq rows["queue"]

IInv == TypeOK /\ QueueInv /\ ProcessedIsQueued

\* The variables of the types that concern counting, and the others.
TableTypes ==
    /\ shows \in [Donors -> SUBSET Videos] /\ donated \in SUBSET Donors
    /\ rows \in [Tables -> SUBSET Videos]
    /\ count \in [Tables -> [Videos -> Nat]]
    /\ inMemory \in SUBSET Videos /\ remembered \in [Videos -> Nat]
WriterTypes ==
    /\ at \in [Writers -> Places] /\ doing \in [Writers -> Writers]
    /\ fresh \in [Writers -> SUBSET Videos]
    /\ raised \in [Writers -> [Videos -> Nat]]
TaskTypes ==
    /\ tries \in [Donors -> 0..MaxRetries]
    /\ registered \in SUBSET Donors
CommandTypes ==
    /\ command \in {"idle", "reset infos", "reset queue", "scan", "purge",
                    "done"}
    /\ scan \in SUBSET Donors /\ doomed \in SUBSET Videos
    /\ outcome \in SUBSET {"read", "unreadable"}
    /\ runs \in 0..RunLimit
    /\ quiet \in BOOLEAN /\ alone \in BOOLEAN

LEMMA TypeParts == TypeOK <=> TableTypes /\ WriterTypes /\ TaskTypes /\ CommandTypes
  BY DEF TypeOK, TableTypes, WriterTypes, TaskTypes, CommandTypes

\* Counts are natural numbers, in the tables and in memory.
LEMMA CountTypes ==
    ASSUME IInv
    PROVE  /\ \A tb \in Tables : count[tb] \in [Videos -> Nat]
           /\ \A tb \in Tables, v \in Videos :
                  count[tb][v] \in Nat /\ count[tb][v] + 1 \in Nat
           /\ \A w \in Writers, v \in Videos : raised[w][v] \in Nat
<1>1. /\ count \in [Tables -> [Videos -> Nat]]
      /\ raised \in [Writers -> [Videos -> Nat]]
  BY DEF IInv, TypeOK
<1>2. \A tb \in Tables : count[tb] \in [Videos -> Nat]
  BY <1>1
<1>3. \A w \in Writers : raised[w] \in [Videos -> Nat]
  BY <1>1
<1>4. QED
  BY <1>2, <1>3

\* So are tries, up to the last.
LEMMA TriesTypes ==
    ASSUME IInv, NEW d \in Donors
    PROVE  /\ tries \in [Donors -> 0..MaxRetries]
           /\ [tries EXCEPT ![d] = 0] \in [Donors -> 0..MaxRetries]
           /\ tries[d] < MaxRetries =>
                  [tries EXCEPT ![d] = @ + 1] \in [Donors -> 0..MaxRetries]
<1>1. tries \in [Donors -> 0..MaxRetries]
  BY DEF IInv, TypeOK
<1>2. 0 \in 0..MaxRetries
  OBVIOUS
<1>3. tries[d] < MaxRetries => tries[d] + 1 \in 0..MaxRetries
  BY <1>1
<1>4. QED
  BY <1>1, <1>2, <1>3

\* Going to a place keeps the types.
LEMMA GoToType ==
    ASSUME WriterTypes, NEW w \in Writers, NEW p \in Places, GoTo(w, p)
    PROVE  /\ at' = [at EXCEPT ![w] = p] /\ at' \in [Writers -> Places]
           /\ fresh' = [fresh EXCEPT ![w] = {}]
           /\ fresh' \in [Writers -> SUBSET Videos]
           /\ raised' \in [Writers -> [Videos -> Nat]]
           /\ at'[w] = p
           /\ \A u \in Writers \ {w} : at'[u] = at[u] /\ fresh'[u] = fresh[u]
<1>1. NoCounts \in [Videos -> Nat]
  BY DEF NoCounts
<1>2. QED
  BY <1>1 DEF GoTo, WriterTypes

\* The places, spelt out.
LEMMA PlaceNames ==
    /\ Reading["infos"] = "read infos" /\ Reading["queue"] = "read queue"
    /\ Writing["infos"] = "write infos" /\ Writing["queue"] = "write queue"
    /\ Places = {"idle", "report", "read infos", "read queue", "write infos",
                 "write queue"}
<1>1. /\ Reading["infos"] = "read infos" /\ Reading["queue"] = "read queue"
      /\ Writing["infos"] = "write infos" /\ Writing["queue"] = "write queue"
  BY DEF Reading, Writing
<1>2. QED
  BY <1>1 DEF Places, Tables

-----------------------------------------------------------------------------
LEMMA InitInv == Init => IInv
<1> SUFFICES ASSUME Init PROVE IInv
  OBVIOUS
<1>1. NoCounts \in [Videos -> Nat]
  BY DEF NoCounts
<1>2. TableTypes
  <2>1. shows \in [Donors -> SUBSET Videos]
    BY DEF Init
  <2>2. /\ rows \in [Tables -> SUBSET Videos]
        /\ count \in [Tables -> [Videos -> Nat]]
    BY <1>1 DEF Init
  <2>3. QED
    BY <1>1, <2>1, <2>2 DEF Init, TableTypes
<1>3. WriterTypes
  <2>1. at \in [Writers -> Places] /\ doing \in [Writers -> Writers]
    BY PlaceNames DEF Init
  <2>2. /\ fresh \in [Writers -> SUBSET Videos]
        /\ raised \in [Writers -> [Videos -> Nat]]
    BY <1>1 DEF Init
  <2>3. QED
    BY <2>1, <2>2 DEF WriterTypes
<1>4. TaskTypes /\ CommandTypes
  <2>1. TaskTypes
    BY DEF Init, TaskTypes
  <2>2. command = "idle" /\ runs \in 0..RunLimit
    BY DEF Init
  <2>3. quiet \in BOOLEAN /\ alone \in BOOLEAN
    BY DEF Init
  <2>4. scan = {} /\ doomed = {} /\ outcome = {}
    BY DEF Init
  <2>5. QED
    BY <2>1, <2>2, <2>3, <2>4 DEF CommandTypes
<1>5. QueueInv /\ ProcessedIsQueued
  BY DEF Init, QueueInv, ProcessedIsQueued, Writers
<1>6. QED
  BY <1>2, <1>3, <1>4, <1>5, TypeParts DEF IInv

\* A step that leaves the tasks alone, and no row of the queue away.
LEMMA QueueOnlyGrows ==
    ASSUME IInv, rows'["queue"] = rows["queue"],
           UNCHANGED <<shows, registered>>,
           UNCHANGED writerVars
    PROVE  QueueInv' /\ ProcessedIsQueued'
  BY DEF IInv, QueueInv, ProcessedIsQueued, writerVars

-----------------------------------------------------------------------------
(* Counting a donation                                                     *)

LEMMA ReadPreserves ==
    ASSUME IInv, NEW w \in Writers, NEW tb \in Tables, Read(w, tb)
    PROVE  IInv'
<1> USE PlaceNames
<1>1. /\ at[w] = Reading[tb] /\ Writing[tb] \in Places /\ at[w] # "idle"
      /\ at' = [at EXCEPT ![w] = Writing[tb]]
      /\ fresh' = [fresh EXCEPT ![w] = shows[doing[w]] \ Known(tb)]
      /\ UNCHANGED <<shows, rows, doing, registered>>
  BY DEF Read, Tables, tableVars, taskVars
<1>2. doing[w] \in Donors /\ shows[doing[w]] \subseteq Videos
  BY <1>1 DEF IInv, QueueInv, TypeOK
<1>3. raised' \in [Writers -> [Videos -> Nat]]
  <2>1. [v \in Videos |-> IF v \in shows[doing[w]] \cap Known(tb)
                          THEN count[tb][v] + 1 ELSE 0] \in [Videos -> Nat]
    <3>1. \A v \in Videos : count[tb][v] + 1 \in Nat
      BY CountTypes
    <3>2. \A v \in Videos : (IF v \in shows[doing[w]] \cap Known(tb)
                             THEN count[tb][v] + 1 ELSE 0) \in Nat
      BY <3>1
    <3>3. QED
      BY <3>2
  <2>2. QED
    BY <2>1 DEF Read, IInv, TypeOK
<1>4. WriterTypes'
  BY <1>1, <1>2, <1>3 DEF IInv, TypeOK, WriterTypes
<1>5. TypeOK'
  BY <1>4, TypeParts DEF Read, tableVars, taskVars, commandVars, scraperVars,
     IInv, TypeOK, WriterTypes
<1>6. QueueInv'
  <2>1. \A d \in Donors \ {w} : at'[d] = at[d] /\ fresh'[d] = fresh[d]
    BY <1>1 DEF Writers, IInv, TypeOK
  <2>2. \A u \in Writers : at'[u] # "idle" => doing[u] \in Donors
    BY <1>1, <1>2 DEF Writers, IInv, TypeOK, QueueInv
  <2>3. ASSUME w \in Donors
        PROVE  /\ at'[w] # "report"
               /\ at'[w] = "write queue" =>
                      shows[w] \ fresh'[w] \subseteq rows["queue"]
    BY <1>1, <2>3 DEF Writers, IInv, TypeOK, QueueInv, Tables, Known
  <2>4. ASSUME NEW d \in Donors
        PROVE  /\ doing'[d] = d
               /\ at'[d] = "write queue" =>
                      shows'[d] \ fresh'[d] \subseteq rows'["queue"]
               /\ at'[d] = "report" => shows'[d] \subseteq rows'["queue"]
    <3>1. /\ doing'[d] = d /\ shows' = shows /\ rows' = rows
          /\ at[d] = "write queue" =>
                 shows[d] \ fresh[d] \subseteq rows["queue"]
          /\ at[d] = "report" => shows[d] \subseteq rows["queue"]
      BY <1>1 DEF IInv, QueueInv
    <3>2. CASE d = w
      BY <2>3, <3>1, <3>2
    <3>3. CASE d # w
      BY <2>1, <3>1, <3>3
    <3>4. QED
      BY <3>2, <3>3
  <2>5. \A u \in Writers : at'[u] # "idle" => doing'[u] \in Donors
    BY <1>1, <2>2
  <2>6. QED
    BY <2>4, <2>5 DEF QueueInv
<1>7. ProcessedIsQueued'
  BY <1>1 DEF IInv, ProcessedIsQueued
<1>8. QED
  BY <1>5, <1>6, <1>7 DEF IInv

\* What is written has its type, and no row of the queue is lost.
LEMMA WritePreserves ==
    ASSUME IInv, NEW w \in Writers, NEW tb \in Tables, Write(w, tb)
    PROVE  IInv'
<1> USE PlaceNames
<1> DEFINE place == IF tb = "infos" THEN Reading.queue
                    ELSE IF w = Command THEN "idle" ELSE "report"
<1>1. /\ at[w] = Writing[tb] /\ at[w] # "idle" /\ place \in Places
      /\ GoTo(w, place)
      /\ rows' = [rows EXCEPT ![tb] = @ \cup (fresh[w] \ rows[tb])]
      /\ UNCHANGED <<shows, registered>>
  BY DEF Write, Created, Tables, tableVars, taskVars
<1>2. /\ at' = [at EXCEPT ![w] = place] /\ at' \in [Writers -> Places]
      /\ fresh' = [fresh EXCEPT ![w] = {}]
      /\ fresh' \in [Writers -> SUBSET Videos]
      /\ raised' \in [Writers -> [Videos -> Nat]]
  BY <1>1, GoToType, TypeParts DEF IInv
<1>3. doing' \in [Writers -> Writers]
  BY DEF Write, IInv, TypeOK
<1>4. rows' \in [Tables -> SUBSET Videos]
  BY <1>1 DEF IInv, TypeOK
<1>5. count' \in [Tables -> [Videos -> Nat]]
  <2>1. Written(w, tb) \in [Videos -> Nat]
    <3>1. \A v \in Videos : count[tb][v] \in Nat /\ raised[w][v] \in Nat
      BY CountTypes
    <3>2. QED
      BY <3>1 DEF Written
  <2>2. QED
    BY <2>1 DEF Write, IInv, TypeOK
<1>6. WriterTypes'
  BY <1>2, <1>3 DEF WriterTypes
<1>7. TypeOK'
  BY <1>4, <1>5, <1>6, TypeParts DEF Write, taskVars, commandVars,
     scraperVars, IInv, TypeOK, WriterTypes
<1>8. rows["queue"] \subseteq rows'["queue"]
  BY <1>1 DEF IInv, TypeOK, Tables
<1>9. QueueInv'
  <2>1. \A d \in Donors \ {w} : /\ at'[d] = at[d] /\ fresh'[d] = fresh[d]
                                /\ doing'[d] = doing[d]
    BY <1>2 DEF Write, Writers, IInv, TypeOK
  <2>2. \A d \in Donors : doing'[d] = d
    BY DEF Write, Writers, IInv, TypeOK, QueueInv
  <2>3. \A u \in Writers : at'[u] # "idle" => doing'[u] \in Donors
    <3>1. doing[w] \in Donors
      BY <1>1 DEF IInv, QueueInv
    <3>2. \A u \in Writers \ {w} : at'[u] = at[u] /\ doing'[u] = doing[u]
      BY <1>2 DEF Write, IInv, TypeOK
    <3>3. at'[w] # "idle" => doing'[w] \in Donors
      BY <1>2, <2>2, <3>1 DEF Write, Writers, Tables
    <3>4. QED
      BY <3>2, <3>3 DEF IInv, QueueInv
  <2>4. ASSUME w \in Donors
        PROVE  /\ at'[w] # "write queue"
               /\ at'[w] = "report" => shows[w] \subseteq rows'["queue"]
    <3>1. at'[w] = place
      BY <1>2 DEF IInv, TypeOK
    <3>2. place = "report" => tb = "queue" /\ at[w] = "write queue"
      BY <1>1 DEF Tables
    <3>3. place = "report" => shows[w] \subseteq rows'["queue"]
      BY <1>1, <2>4, <3>2 DEF IInv, TypeOK, QueueInv, Tables
    <3>4. QED
      BY <3>1, <3>3
  <2>5. ASSUME NEW d \in Donors
        PROVE  /\ at'[d] = "write queue" =>
                      shows'[d] \ fresh'[d] \subseteq rows'["queue"]
               /\ at'[d] = "report" => shows'[d] \subseteq rows'["queue"]
    <3>1. /\ shows' = shows
          /\ at[d] = "write queue" =>
                 shows[d] \ fresh[d] \subseteq rows["queue"]
          /\ at[d] = "report" => shows[d] \subseteq rows["queue"]
      BY <1>1 DEF IInv, QueueInv
    <3>2. CASE d = w
      BY <2>4, <3>1, <3>2
    <3>3. CASE d # w
      BY <1>8, <2>1, <3>1, <3>3
    <3>4. QED
      BY <3>2, <3>3
  <2>6. QED
    BY <2>2, <2>3, <2>5 DEF QueueInv
<1>10. ProcessedIsQueued'
  BY <1>1, <1>8 DEF IInv, ProcessedIsQueued
<1>11. QED
  BY <1>7, <1>9, <1>10 DEF IInv

-----------------------------------------------------------------------------
(* The task                                                                *)

\* A donation comes in, or its task starts again from the beginning.
LEMMA StartPreserves ==
    ASSUME IInv, NEW d \in Donors, Donate(d) \/ Fail(d)
    PROVE  IInv'
<1> USE PlaceNames
<1> DEFINE place == IF at'[d] = "idle" THEN "idle" ELSE "read infos"
<1>1. /\ GoTo(d, "idle") \/ GoTo(d, "read infos")
      /\ UNCHANGED <<shows, rows, count, doing, registered, inMemory,
                     remembered, command, scan, doomed, outcome, runs, alone>>
      /\ quiet' \in {quiet, FALSE}
  BY DEF Donate, Fail, tableVars, taskVars, commandVars, scraperVars
<1>2. donated' \in SUBSET Donors /\ tries' \in [Donors -> 0..MaxRetries]
  <2>1. CASE Donate(d)
    BY <2>1 DEF Donate, taskVars, IInv, TypeOK
  <2>2. CASE Fail(d)
    <3>1. donated' = donated
      BY <2>2 DEF Fail
    <3>2. \/ tries' = tries
          \/ /\ tries[d] < MaxRetries
             /\ tries' = [tries EXCEPT ![d] = @ + 1]
      BY <2>2 DEF Fail
    <3>3. tries' \in [Donors -> 0..MaxRetries]
      BY <3>2, TriesTypes
    <3>4. QED
      BY <3>1, <3>3 DEF IInv, TypeOK
  <2>3. QED
    BY <2>1, <2>2
<1>3. /\ at' \in [Writers -> Places] /\ fresh' \in [Writers -> SUBSET Videos]
      /\ raised' \in [Writers -> [Videos -> Nat]]
      /\ at'[d] \in {"idle", "read infos"}
      /\ \A u \in Writers \ {d} : at'[u] = at[u] /\ fresh'[u] = fresh[u]
  <2>1. d \in Writers /\ WriterTypes
    BY TypeParts DEF Writers, IInv
  <2>2. "idle" \in Places /\ "read infos" \in Places
    OBVIOUS
  <2>3. CASE GoTo(d, "idle")
    BY <2>1, <2>2, <2>3, GoToType
  <2>4. CASE GoTo(d, "read infos")
    BY <2>1, <2>2, <2>4, GoToType
  <2>5. QED
    BY <1>1, <2>3, <2>4
<1>4. TypeOK'
  BY <1>1, <1>2, <1>3 DEF IInv, TypeOK
<1>5. QueueInv'
  BY <1>1, <1>3 DEF IInv, QueueInv, Writers
<1>6. ProcessedIsQueued'
  BY <1>1 DEF IInv, ProcessedIsQueued
<1>7. QED
  BY <1>4, <1>5, <1>6 DEF IInv

\* A task that is done has put its videos in the queue.
LEMMA FinishPreserves ==
    ASSUME IInv, NEW d \in Donors, Finish(d)
    PROVE  IInv'
<1> USE PlaceNames
<1>1. d \in Writers /\ "idle" \in Places /\ GoTo(d, "idle")
  BY DEF Finish, Writers
<1>2. /\ at' \in [Writers -> Places] /\ fresh' \in [Writers -> SUBSET Videos]
      /\ raised' \in [Writers -> [Videos -> Nat]]
      /\ at'[d] = "idle"
      /\ \A u \in Writers \ {d} : at'[u] = at[u] /\ fresh'[u] = fresh[u]
  BY <1>1, GoToType, TypeParts DEF IInv
<1>3. /\ registered' = registered \cup {d}
      /\ tries' = [tries EXCEPT ![d] = 0]
      /\ UNCHANGED <<shows, donated, rows, count, doing, command, scan,
                     doomed, outcome, runs, inMemory, remembered, quiet,
                     alone>>
  BY DEF Finish, tableVars, commandVars, scraperVars
<1>4. TypeOK'
  <2>1. tries' \in [Donors -> 0..MaxRetries] /\ registered' \in SUBSET Donors
    BY <1>3, TriesTypes DEF IInv, TypeOK
  <2>2. QED
    BY <1>2, <1>3, <2>1 DEF IInv, TypeOK
<1>5. QueueInv'
  BY <1>2, <1>3 DEF IInv, QueueInv, Writers
<1>6. ProcessedIsQueued'
  BY <1>3 DEF Finish, IInv, QueueInv, ProcessedIsQueued
<1>7. QED
  BY <1>4, <1>5, <1>6 DEF IInv

-----------------------------------------------------------------------------
(* The command and the scraper                                             *)

\* The command starts on a donation, or stops.
LEMMA ScanPreserves ==
    ASSUME IInv, (\E d \in Donors : ScanNext(d)) \/ InterruptCommand
    PROVE  IInv'
<1> USE PlaceNames
<1>1. /\ UNCHANGED <<shows, donated, rows, count, tries, registered, runs,
                     inMemory, remembered>>
      /\ command' \in {command, "idle"} /\ scan' \in SUBSET Donors
      /\ doomed' \in SUBSET Videos
      /\ outcome' \in SUBSET {"read", "unreadable"}
      /\ quiet' \in BOOLEAN /\ alone' \in BOOLEAN
  BY DEF ScanNext, InterruptCommand, tableVars, taskVars, scraperVars, IInv,
     TypeOK
<1>2. \/ UNCHANGED writerVars
      \/ /\ GoTo(Command, "idle")
         /\ doing' = [doing EXCEPT ![Command] = Command]
      \/ /\ GoTo(Command, "read infos")
         /\ \E d \in Donors : doing' = [doing EXCEPT ![Command] = d]
  BY DEF ScanNext, InterruptCommand
<1>3. /\ WriterTypes' /\ (at'[Command] # "idle" => doing'[Command] \in Donors)
      /\ \A d \in Donors : /\ at'[d] = at[d] /\ fresh'[d] = fresh[d]
                            /\ doing'[d] = doing[d]
  <2>1. /\ Command \in Writers /\ WriterTypes /\ Donors \subseteq Writers
        /\ "idle" \in Places /\ "read infos" \in Places
    BY TypeParts DEF Writers, IInv
  <2>2. CASE UNCHANGED writerVars
    BY <2>1, <2>2 DEF writerVars, WriterTypes, IInv, QueueInv
  <2>3. CASE /\ GoTo(Command, "idle")
             /\ doing' = [doing EXCEPT ![Command] = Command]
    <3>1. doing' \in [Writers -> Writers]
      BY <2>1, <2>3 DEF WriterTypes
    <3>2. QED
      BY <2>1, <2>3, <3>1, GoToType DEF WriterTypes, Writers
  <2>4. CASE /\ GoTo(Command, "read infos")
             /\ \E d \in Donors : doing' = [doing EXCEPT ![Command] = d]
    <3>1. /\ doing' \in [Writers -> Writers] /\ doing'[Command] \in Donors
          /\ \A d \in Donors : doing'[d] = doing[d]
      BY <2>1, <2>4 DEF WriterTypes
    <3>2. QED
      BY <2>1, <2>4, <3>1, GoToType DEF WriterTypes, Writers
  <2>5. QED
    BY <1>2, <2>2, <2>3, <2>4
<1>4. TypeOK'
  BY <1>1, <1>3 DEF IInv, TypeOK, WriterTypes
<1>5. QueueInv' /\ ProcessedIsQueued'
  BY <1>1, <1>3 DEF IInv, QueueInv, ProcessedIsQueued, Writers
<1>6. QED
  BY <1>4, <1>5 DEF IInv

\* The other steps of the command and those of a scraper change counts and
\* infos, but neither tasks nor the rows of the queue.
LEMMA CountsOnly ==
    ASSUME IInv, UNCHANGED <<shows, writerVars, registered>>,
           rows'["queue"] = rows["queue"], TypeOK'
    PROVE  IInv'
  BY QueueOnlyGrows DEF IInv

LEMMA CommandPreserves ==
    ASSUME IInv,
           \/ Rerun \/ ResetQueueNext \/ StartScan \/ EndScan
           \/ \E d \in Donors : SkipUnreadable(d) \/ Withdraw(d)
           \/ \E S \in SUBSET Videos : PurgeList(S)
    PROVE  IInv'
<1>1. UNCHANGED <<shows, rows, count, writerVars, tries, registered, inMemory,
                  remembered>>
  BY DEF Rerun, ResetQueueNext, StartScan, EndScan, SkipUnreadable, Withdraw,
     PurgeList, tableVars, taskVars, scraperVars
<1>2. donated' \in SUBSET Donors /\ scan' \in SUBSET Donors
  BY DEF Rerun, ResetQueueNext, StartScan, EndScan, SkipUnreadable, Withdraw,
     PurgeList, commandVars, IInv, TypeOK
<1>3. doomed' \in SUBSET Videos /\ runs' \in 0..RunLimit
  <2>1. doomed' \in SUBSET Videos
    BY DEF Rerun, ResetQueueNext, StartScan, EndScan, SkipUnreadable, Withdraw,
       PurgeList, commandVars, IInv, TypeOK
  <2>2. runs \in 0..RunLimit
    BY DEF IInv, TypeOK
  <2>3. runs' = runs \/ (runs < RunLimit /\ runs' = runs + 1)
    BY DEF Rerun, ResetQueueNext, StartScan, EndScan, SkipUnreadable, Withdraw,
       PurgeList, commandVars
  <2>4. QED
    BY <2>1, <2>2, <2>3
<1>4. /\ command' \in {"idle", "reset infos", "reset queue", "scan", "purge",
                       "done"}
      /\ outcome' \in SUBSET {"read", "unreadable"}
  BY DEF Rerun, ResetQueueNext, StartScan, EndScan, SkipUnreadable, Withdraw,
     PurgeList, commandVars, IInv, TypeOK
<1>5. quiet' \in BOOLEAN /\ alone' \in BOOLEAN
  BY DEF Rerun, ResetQueueNext, StartScan, EndScan, SkipUnreadable, Withdraw,
     PurgeList, IInv, TypeOK
<1>6. TypeOK'
  BY <1>1, <1>2, <1>3, <1>4, <1>5 DEF writerVars, IInv, TypeOK
<1>7. QED
  BY <1>1, <1>6, CountsOnly

LEMMA ResetPreserves ==
    ASSUME IInv, NEW tb \in Tables, NEW S \in SUBSET Videos, ResetChunk(tb, S)
    PROVE  IInv'
<1>1. count' \in [Tables -> [Videos -> Nat]]
  <2>1. [v \in Videos |-> IF v \in S THEN 0 ELSE count[tb][v]]
            \in [Videos -> Nat]
    BY CountTypes
  <2>2. QED
    BY <2>1 DEF ResetChunk, IInv, TypeOK
<1>2. TypeOK'
  BY <1>1 DEF ResetChunk, writerVars, taskVars, commandVars, scraperVars,
     IInv, TypeOK
<1>3. QED
  BY <1>2, CountsOnly DEF ResetChunk, taskVars

\* Infos are purged, targets are not.
LEMMA PurgePreserves ==
    ASSUME IInv, PurgeDelete
    PROVE  IInv'
<1>1. count' \in [Tables -> [Videos -> Nat]]
  <2>1. [v \in Videos |-> IF v \in doomed THEN 0 ELSE count["infos"][v]]
            \in [Videos -> Nat]
    BY CountTypes DEF Tables
  <2>2. QED
    BY <2>1 DEF PurgeDelete, IInv, TypeOK
<1>2. rows' \in [Tables -> SUBSET Videos] /\ rows'["queue"] = rows["queue"]
  BY DEF PurgeDelete, IInv, TypeOK, Tables
<1>3. TypeOK'
  BY <1>1, <1>2 DEF PurgeDelete, writerVars, taskVars, scraperVars, IInv,
     TypeOK
<1>4. QED
  BY <1>2, <1>3, CountsOnly DEF PurgeDelete, taskVars

LEMMA ScraperPreserves ==
    ASSUME IInv,
           \/ \E S \in SUBSET Videos : ScraperReads(S)
           \/ \E v \in Videos : ScraperSaves(v)
           \/ ScraperReleases
    PROVE  IInv'
<1>1. UNCHANGED <<shows, donated, rows, writerVars, taskVars, commandVars,
                  quiet>>
  BY DEF ScraperReads, ScraperSaves, ScraperReleases, tableVars
<1>2. inMemory' \in SUBSET Videos /\ alone' \in BOOLEAN
  BY DEF ScraperReads, ScraperSaves, ScraperReleases, IInv, TypeOK
<1>3. /\ remembered' \in [Videos -> Nat]
      /\ count' \in [Tables -> [Videos -> Nat]]
  <2>1. /\ \A v \in Videos : count["queue"][v] \in Nat /\ remembered[v] \in Nat
        /\ count \in [Tables -> [Videos -> Nat]] /\ "queue" \in Tables
        /\ remembered \in [Videos -> Nat]
    BY DEF IInv, TypeOK, Tables
  <2>2. ASSUME NEW S \in SUBSET Videos, ScraperReads(S)
        PROVE  remembered' \in [Videos -> Nat] /\ count' = count
    BY <2>1, <2>2 DEF ScraperReads, tableVars
  <2>3. ASSUME NEW v \in Videos, ScraperSaves(v)
        PROVE  /\ remembered' \in [Videos -> Nat]
               /\ count' \in [Tables -> [Videos -> Nat]]
    BY <2>1, <2>3 DEF ScraperSaves
  <2>4. CASE ScraperReleases
    BY <2>1, <2>4 DEF ScraperReleases, tableVars, NoCounts
  <2>5. QED
    BY <2>1, <2>2, <2>3, <2>4
<1>4. TypeOK'
  BY <1>1, <1>2, <1>3 DEF writerVars, taskVars, commandVars, IInv, TypeOK
<1>5. QED
  BY <1>1, <1>4, CountsOnly DEF taskVars

-----------------------------------------------------------------------------
LEMMA StepInv == IInv /\ [Next]_vars => IInv'
<1> SUFFICES ASSUME IInv, [Next]_vars PROVE IInv'
  OBVIOUS
<1>1. ASSUME NEW w \in Writers, NEW tb \in Tables, Read(w, tb) \/ Write(w, tb)
      PROVE  IInv'
  BY <1>1, ReadPreserves, WritePreserves
<1>2. ASSUME NEW d \in Donors,
             Donate(d) \/ Finish(d) \/ Fail(d) \/ Withdraw(d)
                 \/ ScanNext(d) \/ SkipUnreadable(d)
      PROVE  IInv'
  BY <1>2, StartPreserves, FinishPreserves, ScanPreserves, CommandPreserves
<1>3. ASSUME NEW tb \in Tables, NEW S \in SUBSET Videos, ResetChunk(tb, S)
      PROVE  IInv'
  BY <1>3, ResetPreserves
<1>4. CASE \/ Rerun \/ ResetQueueNext \/ StartScan \/ EndScan
           \/ \E S \in SUBSET Videos : PurgeList(S)
  BY <1>4, CommandPreserves
<1>5. CASE InterruptCommand
  BY <1>5, ScanPreserves
<1>6. CASE PurgeDelete
  BY <1>6, PurgePreserves
<1>7. CASE \/ \E S \in SUBSET Videos : ScraperReads(S)
           \/ \E v \in Videos : ScraperSaves(v)
           \/ ScraperReleases
  BY <1>7, ScraperPreserves
<1>8. CASE UNCHANGED vars
  BY <1>8 DEF vars, tableVars, writerVars, taskVars, commandVars, scraperVars,
     IInv, TypeOK, QueueInv, ProcessedIsQueued
<1>9. QED
  BY <1>1, <1>2, <1>3, <1>4, <1>5, <1>6, <1>7, <1>8 DEF Next

LEMMA Invariance == Spec => []IInv
  BY InitInv, StepInv, PTL DEF Spec

\* Every variable keeps its type.
THEOREM TypeCorrect == Spec => []TypeOK
  BY Invariance, PTL DEF IInv

\* Once the task of a donation is done, the donation's videos are in the
\* queue for good, whatever other tasks, recounts and scrapers do.
THEOREM ProcessedStaysQueued == Spec => []ProcessedIsQueued
  BY Invariance, PTL DEF IInv

-----------------------------------------------------------------------------
(* The recount                                                             *)

\* The places at which the command has yet to write its donation to a table.
Before(tb) == IF tb = "infos" THEN {"read infos", "write infos"}
              ELSE {"read infos", "write infos", "read queue", "write queue"}

\* The donations the run has counted so far in a table.
SoFar(tb) ==
    {d \in (donated \ Excluded) \ scan :
        ~(d = doing[Command] /\ at[Command] \in Before(tb))}

\* The counts are those of the donations in S, each once.
Tally(S, counts) ==
    \A v \in Videos : counts[v] = Cardinality({d \in S : v \in shows[d]})

\* One donation more is counted.
OneMore(d, counts, new) ==
    \A v \in Videos :
        new[v] = IF v \in shows[d] THEN counts[v] + 1 ELSE counts[v]

\* Only rows count anything, and a scraper remembers only rows.
RowInv ==
    /\ \A tb \in Tables, v \in Videos : count[tb][v] # 0 => v \in rows[tb]
    /\ inMemory \subseteq rows["queue"]
    /\ alone => inMemory = {}

\* The command counts, scans and deletes each at its own stage.
StageInv ==
    /\ at[Command] # "idle" => command = "scan"
    /\ at[Command] # "report"
    /\ command # "scan" => scan = {}
    /\ doomed # {} => command = "purge"

\* During a quiet run no task is at work, and the command counts donations
\* that are there and that it has taken off its list.
CalmInv ==
    quiet =>
        /\ \A d \in Donors : at[d] = "idle"
        /\ scan \subseteq donated \ Excluded
        /\ at[Command] # "idle" =>
               doing[Command] \in (donated \ Excluded) \ scan

\* The table whose counts nobody but the command writes in a quiet run.
Sure(tb) == tb = "infos" \/ alone

\* What it is about to write then is what it read, raised by one.
PrepInv ==
    quiet =>
        \A tb \in Tables :
            at[Command] = Writing[tb] =>
                /\ fresh[Command] = shows[doing[Command]] \ rows[tb]
                /\ Sure(tb) =>
                       \A v \in shows[doing[Command]] \cap rows[tb] :
                           raised[Command][v] = count[tb][v] + 1

\* The counts start from zero and are those of the donations so far.
TallyInv ==
    quiet =>
        /\ command = "reset queue" => \A v \in Videos : count["infos"][v] = 0
        /\ command \in {"scan", "purge", "done"} /\ "unreadable" \notin outcome =>
               \A tb \in Tables : Sure(tb) => Tally(SoFar(tb), count[tb])

\* Rows listed for deletion count nothing; in the end there are none such.
PurgeInv ==
    quiet =>
        /\ \A v \in doomed : count["infos"][v] = 0
        /\ command = "done" /\ outcome = {"read"} => Uncounted = {}

RecountInv ==
    RowInv /\ StageInv /\ CalmInv /\ PrepInv /\ TallyInv /\ PurgeInv

\* Nothing counted is zero, and one donation more counts once.
LEMMA TallyNone ==
    ASSUME NEW counts, \A v \in Videos : counts[v] = 0
    PROVE  Tally({}, counts)
<1>1. \A v \in Videos : {d \in {} : v \in shows[d]} = {}
  OBVIOUS
<1>2. QED
  BY <1>1, FS_EmptySet DEF Tally

LEMMA TallyOne ==
    ASSUME NEW S \in SUBSET Donors, NEW d \in Donors, d \notin S,
           NEW counts, NEW new, Tally(S, counts), OneMore(d, counts, new)
    PROVE  Tally(S \cup {d}, new)
<1> SUFFICES ASSUME NEW v \in Videos
             PROVE  new[v] = Cardinality({e \in S \cup {d} : v \in shows[e]})
  BY DEF Tally
<1> DEFINE B == {e \in S : v \in shows[e]}
<1>1. IsFiniteSet(B) /\ d \notin B /\ counts[v] = Cardinality(B)
  <2>1. B \in SUBSET Donors
    OBVIOUS
  <2>2. IsFiniteSet(B)
    BY <2>1, FS_Subset
  <2>3. QED
    BY <2>2 DEF Tally
<1>2. CASE v \in shows[d]
  <2>1. {e \in S \cup {d} : v \in shows[e]} = B \cup {d}
    BY <1>2
  <2>2. Cardinality(B \cup {d}) = Cardinality(B) + 1
    BY <1>1, FS_AddElement
  <2>3. QED
    BY <1>1, <1>2, <2>1, <2>2 DEF OneMore
<1>3. CASE v \notin shows[d]
  <2>1. {e \in S \cup {d} : v \in shows[e]} = B
    BY <1>3
  <2>2. QED
    BY <1>1, <1>3, <2>1 DEF OneMore
<1>4. QED
  BY <1>2, <1>3

LEMMA TallyKept ==
    ASSUME NEW tb \in Tables, Tally(SoFar(tb), count[tb]), shows' = shows,
           SoFar(tb)' = SoFar(tb),
           \A v \in Videos : count'[tb][v] = count[tb][v]
    PROVE  Tally(SoFar(tb), count[tb])'
  BY DEF Tally

-----------------------------------------------------------------------------
LEMMA InitRecount == Init => RecountInv
<1> SUFFICES ASSUME Init PROVE RecountInv
  OBVIOUS
<1>1. RowInv
  BY DEF Init, RowInv, NoCounts
<1>2. StageInv
  BY DEF Init, StageInv, Writers
<1>3. QED
  BY <1>1, <1>2 DEF Init, RecountInv, CalmInv, PrepInv, TallyInv, PurgeInv

\* A table a step leaves alone.
LEMMA RowStep == IInv /\ RowInv /\ [Next]_vars => RowInv'
<1> SUFFICES ASSUME IInv, RowInv, [Next]_vars PROVE RowInv'
  OBVIOUS
<1>1. /\ rows \in [Tables -> SUBSET Videos]
      /\ count \in [Tables -> [Videos -> Nat]]
      /\ inMemory \in SUBSET Videos
  BY DEF IInv, TypeOK
<1>2. ASSUME UNCHANGED <<tableVars, inMemory>>, alone' => alone \/ inMemory = {}
      PROVE  RowInv'
  BY <1>2 DEF RowInv, tableVars
<1>3. ASSUME NEW w \in Writers, NEW tb \in Tables, Write(w, tb)
      PROVE  RowInv'
  <2>1. /\ rows' = [rows EXCEPT ![tb] = @ \cup Created(w, tb)]
        /\ count' = [count EXCEPT ![tb] = Written(w, tb)]
        /\ inMemory' = inMemory /\ alone' = alone
    BY <1>3 DEF Write, scraperVars
  <2>2. rows["queue"] \subseteq rows'["queue"]
    BY <1>1, <2>1 DEF Tables
  <2>3. ASSUME NEW v \in Videos, count'[tb][v] # 0
        PROVE  v \in rows'[tb]
    <3>1. rows'[tb] = rows[tb] \cup Created(w, tb)
      BY <1>1, <2>1
    <3>2. count'[tb][v] = IF v \in Created(w, tb) THEN 1
                          ELSE IF v \in (shows[doing[w]] \ fresh[w]) \cap rows[tb]
                               THEN raised[w][v] ELSE count[tb][v]
      BY <1>1, <2>1 DEF Written
    <3>3. QED
      BY <2>3, <3>1, <3>2 DEF RowInv
  <2>4. ASSUME NEW u \in Tables \ {tb}, NEW v \in Videos, count'[u][v] # 0
        PROVE  v \in rows'[u]
    BY <1>1, <2>1, <2>4 DEF RowInv
  <2>5. QED
    BY <2>1, <2>2, <2>3, <2>4 DEF RowInv
<1>4. ASSUME NEW tb \in Tables, NEW S \in SUBSET Videos, ResetChunk(tb, S)
      PROVE  RowInv'
  <2>1. UNCHANGED <<rows, inMemory, alone>>
    BY <1>4 DEF ResetChunk, scraperVars
  <2>2. \A u \in Tables, v \in Videos : count'[u][v] \in {0, count[u][v]}
    BY <1>1, <1>4 DEF ResetChunk
  <2>3. QED
    BY <2>1, <2>2 DEF RowInv
<1>5. CASE PurgeDelete
  <2>1. /\ rows' = [rows EXCEPT !["infos"] = @ \ doomed]
        /\ UNCHANGED <<inMemory, alone>>
    BY <1>5 DEF PurgeDelete, scraperVars
  <2>2. \A v \in Videos :
            /\ count'["infos"][v] = IF v \in doomed THEN 0 ELSE count["infos"][v]
            /\ count'["queue"][v] = count["queue"][v]
    BY <1>1, <1>5 DEF PurgeDelete, Tables
  <2>3. rows'["infos"] = rows["infos"] \ doomed /\ rows'["queue"] = rows["queue"]
    BY <1>1, <2>1 DEF Tables
  <2>4. QED
    BY <2>1, <2>2, <2>3 DEF RowInv, Tables
<1>6. ASSUME NEW S \in SUBSET Videos, ScraperReads(S)
      PROVE  RowInv'
  BY <1>6 DEF ScraperReads, RowInv, tableVars
<1>7. ASSUME NEW u \in Videos, ScraperSaves(u)
      PROVE  RowInv'
  <2>1. /\ count'["infos"] = count["infos"]
        /\ \A v \in Videos : v # u => count'["queue"][v] = count["queue"][v]
    BY <1>1, <1>7 DEF ScraperSaves, Tables
  <2>2. QED
    BY <1>7, <2>1 DEF ScraperSaves, RowInv, Tables
<1>8. CASE ScraperReleases
  BY <1>8 DEF ScraperReleases, RowInv, tableVars
<1>9. ASSUME NEW w \in Writers, NEW tb \in Tables, Read(w, tb)
      PROVE  RowInv'
  BY <1>2, <1>9 DEF Read, scraperVars
<1>10. ASSUME NEW d \in Donors,
              Donate(d) \/ Finish(d) \/ Fail(d) \/ Withdraw(d)
                  \/ ScanNext(d) \/ SkipUnreadable(d)
       PROVE  RowInv'
  BY <1>2, <1>10 DEF Donate, Finish, Fail, Withdraw, ScanNext, SkipUnreadable,
     scraperVars, tableVars
<1>11. CASE \/ Rerun \/ ResetQueueNext \/ StartScan \/ EndScan
            \/ InterruptCommand \/ \E S \in SUBSET Videos : PurgeList(S)
  BY <1>2, <1>11 DEF Rerun, ResetQueueNext, StartScan, EndScan,
     InterruptCommand, PurgeList, scraperVars, tableVars
<1>12. CASE UNCHANGED vars
  BY <1>2, <1>12 DEF vars, scraperVars
<1>13. QED
  BY <1>3, <1>4, <1>5, <1>6, <1>7, <1>8, <1>9, <1>10, <1>11, <1>12 DEF Next

-----------------------------------------------------------------------------
\* Where the command goes, and what it takes along.
LEMMA CommandGoes ==
    ASSUME IInv, NEW p \in Places, GoTo(Command, p)
    PROVE  at'[Command] = p /\ \A d \in Donors : at'[d] = at[d]
<1>1. WriterTypes /\ Command \in Writers /\ Donors \subseteq Writers \ {Command}
  BY TypeParts DEF IInv, Writers
<1>2. QED
  BY <1>1, GoToType

LEMMA DonorGoes ==
    ASSUME IInv, NEW d \in Donors, NEW p \in Places, GoTo(d, p)
    PROVE  at'[Command] = at[Command]
<1>1. WriterTypes /\ d \in Writers /\ Command \in Writers \ {d}
  BY TypeParts DEF IInv, Writers
<1>2. QED
  BY <1>1, GoToType

\* The steps of a quiet run: those of its command and of a scraper.
QuietStep ==
    \/ \E tb \in Tables : Read(Command, tb) \/ Write(Command, tb)
    \/ \E d \in Donors : ScanNext(d) \/ SkipUnreadable(d)
    \/ \E tb \in Tables, S \in SUBSET Videos : ResetChunk(tb, S)
    \/ ResetQueueNext \/ StartScan \/ EndScan \/ PurgeDelete
    \/ \E S \in SUBSET Videos : PurgeList(S) \/ ScraperReads(S)
    \/ \E v \in Videos : ScraperSaves(v)
    \/ ScraperReleases
    \/ UNCHANGED vars

LEMMA QuietSteps ==
    ASSUME IInv, CalmInv, [Next]_vars, quiet'
    PROVE  Rerun \/ (quiet /\ QuietStep)
<1>1. CASE \E d \in Donors : Donate(d) \/ Withdraw(d)
  BY <1>1 DEF Donate, Withdraw
<1>2. CASE InterruptCommand
  BY <1>2 DEF InterruptCommand
<1>3. ASSUME NEW w \in Writers, NEW tb \in Tables, Read(w, tb) \/ Write(w, tb)
      PROVE  quiet /\ QuietStep
  <2>1. quiet /\ at[w] # "idle"
    BY <1>3, PlaceNames DEF Read, Write, Tables
  <2>2. w = Command
    BY <2>1 DEF CalmInv, Writers
  <2>3. QED
    BY <1>3, <2>1, <2>2 DEF QuietStep
<1>4. ASSUME NEW d \in Donors, Finish(d) \/ Fail(d)
      PROVE  FALSE
  BY <1>4 DEF Finish, Fail, CalmInv
<1>5. CASE \/ \E d \in Donors : ScanNext(d) \/ SkipUnreadable(d)
           \/ \E tb \in Tables, S \in SUBSET Videos : ResetChunk(tb, S)
           \/ ResetQueueNext \/ StartScan \/ EndScan \/ PurgeDelete
  BY <1>5 DEF QuietStep, ScanNext, SkipUnreadable, ResetChunk, ResetQueueNext,
     StartScan, EndScan, PurgeDelete
<1>6. CASE \/ \E S \in SUBSET Videos : PurgeList(S) \/ ScraperReads(S)
           \/ \E v \in Videos : ScraperSaves(v)
           \/ ScraperReleases
           \/ UNCHANGED vars
  BY <1>6 DEF QuietStep, PurgeList, ScraperReads, ScraperSaves,
     ScraperReleases, vars
<1>7. QED
  BY <1>1, <1>2, <1>3, <1>4, <1>5, <1>6 DEF Next

LEMMA StageStep == IInv /\ StageInv /\ [Next]_vars => StageInv'
<1> SUFFICES ASSUME IInv, StageInv, [Next]_vars PROVE StageInv'
  OBVIOUS
<1> USE PlaceNames
<1>1. ASSUME UNCHANGED <<command, scan, doomed>>, at'[Command] = at[Command]
      PROVE  StageInv'
  BY <1>1 DEF StageInv
<1>2. ASSUME NEW w \in Writers, NEW tb \in Tables, Read(w, tb) \/ Write(w, tb)
      PROVE  StageInv'
  <2>1. UNCHANGED <<command, scan, doomed>> /\ at[w] # "idle"
    BY <1>2 DEF Read, Write, commandVars, Tables
  <2>2. CASE w = Command
    <3>1. at'[Command] # "report" /\ command = "scan"
      <4>1. CASE Read(w, tb)
        BY <2>1, <2>2, <4>1 DEF Read, IInv, TypeOK, Writers, Tables, StageInv
      <4>2. CASE Write(w, tb)
        <5>1. GoTo(Command, IF tb = "infos" THEN "read queue" ELSE "idle")
          BY <2>2, <4>2 DEF Write
        <5>2. QED
          BY <2>1, <2>2, <5>1, CommandGoes DEF StageInv
      <4>3. QED
        BY <1>2, <4>1, <4>2
    <3>2. QED
      BY <2>1, <3>1 DEF StageInv
  <2>3. CASE w # Command
    <3>1. at'[Command] = at[Command]
      <4>1. CASE Read(w, tb)
        BY <2>3, <4>1 DEF Read, IInv, TypeOK, Writers
      <4>2. CASE Write(w, tb)
        <5>1. w \in Donors
          BY <2>3 DEF Writers
        <5>2. GoTo(w, IF tb = "infos" THEN "read queue" ELSE "report")
          BY <2>3, <4>2 DEF Write
        <5>3. QED
          BY <5>1, <5>2, DonorGoes
      <4>3. QED
        BY <1>2, <4>1, <4>2
    <3>2. QED
      BY <1>1, <2>1, <3>1
  <2>4. QED
    BY <2>2, <2>3
<1>3. ASSUME NEW d \in Donors, Donate(d) \/ Finish(d) \/ Fail(d)
      PROVE  StageInv'
  <2>1. GoTo(d, "idle") \/ GoTo(d, "read infos")
    BY <1>3 DEF Donate, Finish, Fail
  <2>2. at'[Command] = at[Command]
    BY <2>1, DonorGoes
  <2>3. QED
    BY <1>1, <1>3, <2>2 DEF Donate, Finish, Fail, commandVars
<1>4. ASSUME NEW d \in Donors, ScanNext(d)
      PROVE  StageInv'
  <2>1. command' = command /\ doomed' = doomed /\ command = "scan"
    BY <1>4 DEF ScanNext
  <2>2. at'[Command] \in {"idle", "read infos"}
    <3>1. GoTo(Command, "read infos") \/ at'[Command] = at[Command]
      BY <1>4 DEF ScanNext, writerVars
    <3>2. QED
      BY <1>4, <3>1, CommandGoes DEF ScanNext
  <2>3. QED
    BY <2>1, <2>2 DEF StageInv
<1>5. ASSUME NEW d \in Donors, Withdraw(d) \/ SkipUnreadable(d)
      PROVE  StageInv'
  BY <1>5 DEF Withdraw, SkipUnreadable, writerVars, commandVars, StageInv
<1>6. CASE \/ Rerun \/ ResetQueueNext \/ StartScan \/ EndScan
           \/ \E S \in SUBSET Videos : PurgeList(S)
           \/ PurgeDelete
  BY <1>6 DEF Rerun, ResetQueueNext, StartScan, EndScan, PurgeList,
     PurgeDelete, writerVars, StageInv
<1>7. CASE InterruptCommand
  <2>1. at'[Command] = "idle"
    BY <1>7, CommandGoes DEF InterruptCommand
  <2>2. QED
    BY <1>7, <2>1 DEF InterruptCommand, StageInv
<1>8. CASE \/ \E tb \in Tables, S \in SUBSET Videos : ResetChunk(tb, S)
           \/ \E S \in SUBSET Videos : ScraperReads(S)
           \/ \E v \in Videos : ScraperSaves(v)
           \/ ScraperReleases
           \/ UNCHANGED vars
  BY <1>1, <1>8 DEF ResetChunk, ScraperReads, ScraperSaves, ScraperReleases,
     vars, writerVars, commandVars
<1>9. QED
  BY <1>2, <1>3, <1>4, <1>5, <1>6, <1>7, <1>8 DEF Next

\* A reading command is about to write what it read, ...
LEMMA CommandReads ==
    ASSUME IInv, NEW tb \in Tables, Read(Command, tb)
    PROVE  /\ at[Command] = Reading[tb] /\ at'[Command] = Writing[tb]
           /\ \A d \in Donors : at'[d] = at[d]
           /\ fresh'[Command] = shows[doing[Command]] \ rows[tb]
           /\ \A v \in Videos :
                  v \in shows[doing[Command]] \cap rows[tb] =>
                      raised'[Command][v] = count[tb][v] + 1
           /\ UNCHANGED <<shows, donated, rows, count, doing, command, scan,
                          doomed, outcome, inMemory, quiet, alone>>
<1>1. /\ Command \in Writers /\ Donors \subseteq Writers \ {Command}
      /\ at \in [Writers -> Places] /\ fresh \in [Writers -> SUBSET Videos]
      /\ raised \in [Writers -> [Videos -> Nat]]
  BY DEF IInv, TypeOK, Writers
<1>2. raised'[Command] =
          [v \in Videos |-> IF v \in shows[doing[Command]] \cap rows[tb]
                            THEN count[tb][v] + 1 ELSE 0]
  BY <1>1 DEF Read, Known
<1>3. QED
  BY <1>1, <1>2 DEF Read, Known, tableVars, commandVars, scraperVars

\* ... and a writing one goes on.
LEMMA CommandWrites ==
    ASSUME IInv, NEW tb \in Tables, Write(Command, tb)
    PROVE  /\ at[Command] = Writing[tb]
           /\ at'[Command] = IF tb = "infos" THEN "read queue" ELSE "idle"
           /\ \A d \in Donors : at'[d] = at[d]
           /\ tb = "infos" => doing' = doing
           /\ count' = [count EXCEPT ![tb] = Written(Command, tb)]
           /\ UNCHANGED <<shows, donated, command, scan, doomed, outcome,
                          inMemory, quiet, alone>>
<1>1. GoTo(Command, IF tb = "infos" THEN "read queue" ELSE "idle")
  BY PlaceNames DEF Write
<1>2. /\ at'[Command] = IF tb = "infos" THEN "read queue" ELSE "idle"
      /\ \A d \in Donors : at'[d] = at[d]
  BY <1>1, CommandGoes, PlaceNames
<1>3. QED
  BY <1>2 DEF Write, Tables, commandVars, scraperVars

\* It starts on a donation that is still there.
LEMMA CommandScans ==
    ASSUME IInv, CalmInv, quiet, NEW d \in Donors, ScanNext(d)
    PROVE  /\ d \in scan /\ d \in donated \ Excluded /\ scan' = scan \ {d}
           /\ at[Command] = "idle" /\ at'[Command] = "read infos"
           /\ doing'[Command] = d /\ \A e \in Donors : at'[e] = at[e]
           /\ command = "scan" /\ outcome' = outcome \cup {"read"}
           /\ UNCHANGED <<shows, donated, rows, count, command, doomed,
                          inMemory, quiet, alone>>
<1>1. d \in scan /\ d \in donated \ Excluded /\ at[Command] = "idle"
  BY DEF ScanNext, CalmInv
<1>2. /\ GoTo(Command, "read infos")
      /\ doing' = [doing EXCEPT ![Command] = d]
  BY <1>1, PlaceNames DEF ScanNext
<1>3. /\ at'[Command] = "read infos" /\ \A e \in Donors : at'[e] = at[e]
      /\ doing'[Command] = d
  BY <1>2, CommandGoes, PlaceNames DEF IInv, TypeOK, Writers
<1>4. QED
  BY <1>1, <1>3 DEF ScanNext, tableVars, scraperVars

\* The other steps of a quiet run leave the writers where they are.
OtherStep ==
    \/ \E d \in Donors : SkipUnreadable(d)
    \/ \E tb \in Tables, S \in SUBSET Videos : ResetChunk(tb, S)
    \/ ResetQueueNext \/ StartScan \/ EndScan \/ PurgeDelete
    \/ \E S \in SUBSET Videos : PurgeList(S) \/ ScraperReads(S)
    \/ \E v \in Videos : ScraperSaves(v)
    \/ ScraperReleases
    \/ UNCHANGED vars

LEMMA OtherSteps ==
    ASSUME OtherStep
    PROVE  /\ UNCHANGED <<shows, donated, at, doing, fresh, raised, quiet>>
           /\ scan' \subseteq scan \/ StartScan
           /\ alone' => alone
<1>1. UNCHANGED <<shows, donated, writerVars, quiet>>
  <2>1. CASE \/ \E d \in Donors : SkipUnreadable(d)
             \/ \E tb \in Tables, S \in SUBSET Videos : ResetChunk(tb, S)
             \/ ResetQueueNext \/ StartScan \/ EndScan \/ PurgeDelete
    BY <2>1 DEF SkipUnreadable, ResetChunk, ResetQueueNext, StartScan,
       EndScan, PurgeDelete
  <2>2. CASE \/ \E S \in SUBSET Videos : PurgeList(S) \/ ScraperReads(S)
             \/ \E v \in Videos : ScraperSaves(v)
             \/ ScraperReleases \/ UNCHANGED vars
    BY <2>2 DEF PurgeList, ScraperReads, ScraperSaves, ScraperReleases, vars
  <2>3. QED
    BY <2>1, <2>2 DEF OtherStep
<1>2. alone' = alone \/ alone' = FALSE
  <2>1. CASE \/ \E d \in Donors : SkipUnreadable(d)
             \/ \E tb \in Tables, S \in SUBSET Videos : ResetChunk(tb, S)
             \/ ResetQueueNext \/ StartScan \/ EndScan \/ PurgeDelete
    BY <2>1 DEF SkipUnreadable, ResetChunk, ResetQueueNext, StartScan,
       EndScan, PurgeDelete
  <2>2. CASE \/ \E S \in SUBSET Videos : PurgeList(S) \/ ScraperReads(S)
             \/ \E v \in Videos : ScraperSaves(v)
             \/ ScraperReleases \/ UNCHANGED vars
    BY <2>2 DEF PurgeList, ScraperReads, ScraperSaves, ScraperReleases, vars
  <2>3. QED
    BY <2>1, <2>2 DEF OtherStep
<1>3. scan' \subseteq scan \/ StartScan
  <2>1. CASE \E d \in Donors : SkipUnreadable(d)
    BY <2>1 DEF SkipUnreadable
  <2>2. CASE ~(StartScan \/ \E d \in Donors : SkipUnreadable(d))
    <3>1. scan' = scan
      BY <2>2 DEF OtherStep, ResetChunk, ResetQueueNext, EndScan, PurgeDelete,
         PurgeList, ScraperReads, ScraperSaves, ScraperReleases, vars,
         commandVars
    <3>2. QED
      BY <3>1
  <2>3. QED
    BY <2>1, <2>2
<1>4. QED
  BY <1>1, <1>2, <1>3 DEF writerVars

LEMMA RerunStarts ==
    ASSUME StageInv, Rerun, quiet'
    PROVE  /\ \A d \in Donors : at[d] = "idle"
           /\ scan = {} /\ doomed = {} /\ at[Command] = "idle"
           /\ command' = "reset infos"
           /\ UNCHANGED <<shows, donated, tableVars, writerVars, scan, doomed,
                          outcome>>
  BY DEF Rerun, StageInv

LEMMA CalmStep ==
    ASSUME IInv, StageInv, CalmInv, [Next]_vars
    PROVE  CalmInv'
<1> SUFFICES ASSUME quiet' PROVE CalmInv'
  BY DEF CalmInv
<1> USE PlaceNames
<1>1. CASE Rerun
  BY <1>1, RerunStarts DEF CalmInv, writerVars
<1>2. ASSUME quiet, NEW tb \in Tables, Read(Command, tb)
      PROVE  CalmInv'
  BY <1>2, CommandReads DEF CalmInv, Tables
<1>3. ASSUME quiet, NEW tb \in Tables, Write(Command, tb)
      PROVE  CalmInv'
  BY <1>3, CommandWrites DEF CalmInv, Tables
<1>4. ASSUME quiet, NEW d \in Donors, ScanNext(d)
      PROVE  CalmInv'
  BY <1>4, CommandScans DEF CalmInv
<1>5. CASE quiet /\ OtherStep
  <2>1. CASE StartScan
    BY <1>5, <2>1, OtherSteps DEF CalmInv, StartScan, StageInv
  <2>2. CASE ~StartScan
    BY <1>5, <2>2, OtherSteps DEF CalmInv
  <2>3. QED
    BY <2>1, <2>2
<1>6. QED
  BY <1>1, <1>2, <1>3, <1>4, <1>5, QuietSteps DEF QuietStep, OtherStep

LEMMA PrepStep ==
    ASSUME IInv, RowInv, StageInv, CalmInv, PrepInv, [Next]_vars
    PROVE  PrepInv'
<1> SUFFICES ASSUME quiet' PROVE PrepInv'
  BY DEF PrepInv
<1> USE PlaceNames
<1>1. CASE Rerun
  BY <1>1, RerunStarts DEF PrepInv, writerVars, Tables
<1>2. ASSUME quiet, NEW tb \in Tables, Read(Command, tb)
      PROVE  PrepInv'
  <2>1. \A u \in Tables : at'[Command] = Writing[u] => u = tb
    BY <1>2, CommandReads DEF Tables
  <2>2. /\ fresh'[Command] = shows'[doing'[Command]] \ rows'[tb]
        /\ \A v \in shows'[doing'[Command]] \cap rows'[tb] :
               raised'[Command][v] = count'[tb][v] + 1
    <3>1. \A v \in rows[tb] : v \in Videos
      BY DEF IInv, TypeOK
    <3>2. /\ UNCHANGED <<shows, doing, rows, count>>
          /\ fresh'[Command] = shows[doing[Command]] \ rows[tb]
          /\ \A v \in Videos :
                 v \in shows[doing[Command]] \cap rows[tb] =>
                     raised'[Command][v] = count[tb][v] + 1
      BY <1>2, CommandReads
    <3>3. QED
      BY <3>1, <3>2
  <2>3. QED
    BY <2>1, <2>2 DEF PrepInv
<1>3. ASSUME quiet, NEW tb \in Tables, Write(Command, tb)
      PROVE  PrepInv'
  BY <1>3, CommandWrites DEF PrepInv, Tables
<1>4. ASSUME quiet, NEW d \in Donors, ScanNext(d)
      PROVE  PrepInv'
  BY <1>4, CommandScans DEF PrepInv, Tables
<1>5. CASE quiet /\ OtherStep
  <2> SUFFICES ASSUME NEW tb \in Tables, at'[Command] = Writing[tb]
               PROVE  /\ fresh'[Command] = shows'[doing'[Command]] \ rows'[tb]
                      /\ Sure(tb)' =>
                           \A v \in shows'[doing'[Command]] \cap rows'[tb] :
                               raised'[Command][v] = count'[tb][v] + 1
    BY DEF PrepInv
  <2>1. /\ at[Command] = Writing[tb] /\ command = "scan"
        /\ UNCHANGED <<shows, doing, fresh, raised>>
    BY <1>5, OtherSteps DEF StageInv, Tables
  <2>2. rows' = rows /\ (Sure(tb)' => Sure(tb) /\ count'[tb] = count[tb])
    <3>1. CASE \E u \in Tables, S \in SUBSET Videos : ResetChunk(u, S)
      BY <2>1, <3>1 DEF ResetChunk
    <3>2. CASE PurgeDelete \/ ResetQueueNext \/ StartScan
      BY <2>1, <3>2 DEF PurgeDelete, ResetQueueNext, StartScan
    <3>3. CASE \/ \E d \in Donors : SkipUnreadable(d)
               \/ EndScan \/ \E S \in SUBSET Videos : PurgeList(S)
               \/ ScraperReleases \/ UNCHANGED vars
      <4>1. UNCHANGED <<rows, count, alone>>
        BY <3>3 DEF SkipUnreadable, EndScan, PurgeList, ScraperReleases, vars,
           tableVars
      <4>2. QED
        BY <4>1 DEF Sure
    <3>4. CASE \E S \in SUBSET Videos : ScraperReads(S)
      BY <3>4 DEF ScraperReads, tableVars, Sure
    <3>5. CASE \E v \in Videos : ScraperSaves(v)
      <4>1. ~alone /\ ~alone' /\ rows' = rows
        <5>1. inMemory # {} /\ alone' = alone /\ rows' = rows
          BY <3>5 DEF ScraperSaves
        <5>2. QED
          BY <5>1 DEF RowInv
      <4>2. count'["infos"] = count["infos"]
        BY <3>5 DEF ScraperSaves, IInv, TypeOK, Tables
      <4>3. QED
        BY <4>1, <4>2 DEF Sure
    <3>6. QED
      BY <1>5, <3>1, <3>2, <3>3, <3>4, <3>5 DEF OtherStep
  <2>3. QED
    BY <1>5, <2>1, <2>2 DEF PrepInv
<1>6. QED
  BY <1>1, <1>2, <1>3, <1>4, <1>5, QuietSteps DEF QuietStep, OtherStep

\* What a quiet command writes is one more for each video of its donation.
LEMMA CommandRaises ==
    ASSUME IInv, RowInv, PrepInv, quiet, NEW tb \in Tables, Sure(tb),
           Write(Command, tb), NEW v \in Videos
    PROVE  count'[tb][v] = IF v \in shows[doing[Command]]
                           THEN count[tb][v] + 1 ELSE count[tb][v]
<1>1. at[Command] = Writing[tb] /\ count' = [count EXCEPT ![tb] = Written(Command, tb)]
  BY CommandWrites
<1>2. count \in [Tables -> [Videos -> Nat]]
  BY DEF IInv, TypeOK
<1>3. count'[tb] = Written(Command, tb)
  BY <1>1, <1>2
<1>4. /\ fresh[Command] = shows[doing[Command]] \ rows[tb]
      /\ \A u \in shows[doing[Command]] \cap rows[tb] :
             raised[Command][u] = count[tb][u] + 1
  BY <1>1 DEF PrepInv
<1>5. v \notin rows[tb] => count[tb][v] = 0
  BY DEF RowInv
<1>6. count'[tb][v] = IF v \in Created(Command, tb) THEN 1
                      ELSE IF v \in (shows[doing[Command]] \ fresh[Command]) \cap rows[tb]
                           THEN raised[Command][v] ELSE count[tb][v]
  BY <1>3 DEF Written
<1>7. QED
  BY <1>4, <1>5, <1>6 DEF Created

\* A table that counts nothing counts nothing for any video.
LEMMA NothingCounted ==
    ASSUME IInv, RowInv, NEW tb \in Tables, Counted(tb) = {}
    PROVE  \A v \in Videos : count[tb][v] = 0
<1> SUFFICES ASSUME NEW v \in Videos PROVE count[tb][v] = 0
  OBVIOUS
<1>1. count[tb][v] \in Nat /\ (count[tb][v] # 0 => v \in rows[tb])
  BY CountTypes DEF RowInv
<1>2. v \in rows[tb] => ~(count[tb][v] > 0)
  BY DEF Counted
<1> DEFINE n == count[tb][v]
<1> HIDE DEF n
<1>3. n \in Nat /\ ~(n # 0 /\ n > 0)
  BY <1>1, <1>2 DEF n
<1>4. QED
  BY <1>3 DEF n

\* The stages at which the counts are those of the donations so far.
Scanned == command \in {"scan", "purge", "done"} /\ "unreadable" \notin outcome

LEMMA TallyOnceMore ==
    ASSUME IInv, RowInv, StageInv, CalmInv, PrepInv, TallyInv, quiet,
           NEW tb \in Tables, Write(Command, tb), Scanned,
           NEW u \in Tables, Sure(u)
    PROVE  Tally(SoFar(u), count[u])'
<1> USE PlaceNames
<1> DEFINE d == doing[Command]
<1>1. /\ at[Command] = Writing[tb] /\ d \in (donated \ Excluded) \ scan
      /\ at'[Command] = IF tb = "infos" THEN "read queue" ELSE "idle"
      /\ tb = "infos" => doing' = doing
      /\ UNCHANGED <<shows, donated, scan>>
  BY CommandWrites DEF CalmInv, Tables
<1>2. Tally(SoFar(u), count[u])
  BY DEF TallyInv, Scanned
<1>3. CASE u # tb
  <2>1. SoFar(u)' = SoFar(u)
    BY <1>1, <1>3 DEF SoFar, Before, Tables
  <2>2. count'[u] = count[u]
    <3>1. count' = [count EXCEPT ![tb] = Written(Command, tb)]
      BY CommandWrites
    <3>2. QED
      BY <1>3, <3>1 DEF IInv, TypeOK
  <2>3. QED
    BY <1>1, <1>2, <2>1, <2>2, TallyKept
<1>4. CASE u = tb
  <2>1. SoFar(u)' = SoFar(u) \cup {d} /\ d \notin SoFar(u)
    BY <1>1, <1>4 DEF SoFar, Before, Tables
  <2>2. d \in Donors /\ SoFar(u) \in SUBSET Donors
    BY <1>1 DEF SoFar, IInv, TypeOK
  <2>3. \A v \in Videos : count'[u][v] = IF v \in shows[d]
                                         THEN count[u][v] + 1 ELSE count[u][v]
    BY <1>4, CommandRaises
  <2> DEFINE S == SoFar(u)
             counts == count[u]
             new == count'[u]
  <2>4. Tally(S \cup {d}, new)
    <3>1. /\ d \in Donors /\ d \notin S /\ S \in SUBSET Donors
          /\ Tally(S, counts) /\ OneMore(d, counts, new)
      BY <1>2, <2>1, <2>2, <2>3 DEF OneMore
    <3> HIDE DEF d, S, counts, new
    <3>2. QED
      BY <3>1, TallyOne
  <2>5. QED
    BY <1>1, <2>1, <2>4 DEF Tally
<1>5. QED
  BY <1>3, <1>4

LEMMA TallyStep ==
    ASSUME IInv, RowInv, StageInv, CalmInv, PrepInv, TallyInv, PurgeInv,
           [Next]_vars
    PROVE  TallyInv'
<1> SUFFICES ASSUME quiet' PROVE TallyInv'
  BY DEF TallyInv
<1> USE PlaceNames
<1>0. ASSUME quiet, UNCHANGED <<shows, command, outcome>>,
             \A tb \in Tables : Sure(tb)' => Sure(tb) /\ count'[tb] = count[tb],
             \A tb \in Tables : SoFar(tb)' = SoFar(tb)
      PROVE  TallyInv'
  <2>1. "infos" \in Tables /\ Sure("infos") /\ Sure("infos")'
    BY DEF Tables, Sure
  <2>2. command = "reset queue" => \A v \in Videos : count'["infos"][v] = 0
    BY <1>0, <2>1 DEF TallyInv
  <2>3. ASSUME Scanned, NEW tb \in Tables, Sure(tb)'
        PROVE  Tally(SoFar(tb), count[tb])'
    BY <1>0, <2>3, TallyKept DEF TallyInv, Scanned
  <2>4. QED
    BY <1>0, <2>2, <2>3 DEF TallyInv, Scanned
<1>1. CASE Rerun
  BY <1>1, RerunStarts DEF TallyInv
<1>2. ASSUME quiet, NEW tb \in Tables, Read(Command, tb)
      PROVE  TallyInv'
  <2>1. \A u \in Tables : SoFar(u)' = SoFar(u)
    BY <1>2, CommandReads DEF SoFar, Before, Tables
  <2>2. QED
    BY <1>0, <1>2, <2>1, CommandReads DEF Sure
<1>3. ASSUME quiet, NEW tb \in Tables, Write(Command, tb)
      PROVE  TallyInv'
  <2>1. command = "scan" /\ UNCHANGED <<command, outcome, alone>>
    BY <1>3, CommandWrites DEF StageInv, Tables
  <2>2. ASSUME Scanned, NEW u \in Tables, Sure(u)
        PROVE  Tally(SoFar(u), count[u])'
    BY <1>3, <2>2, TallyOnceMore
  <2>3. QED
    BY <2>1, <2>2 DEF TallyInv, Scanned, Sure
<1>4. ASSUME quiet, NEW d \in Donors, ScanNext(d)
      PROVE  TallyInv'
  <2>1. \A u \in Tables : SoFar(u)' = SoFar(u)
    BY <1>4, CommandScans DEF SoFar, Before, Tables
  <2>2. /\ command = "scan" /\ ("unreadable" \notin outcome' => Scanned)
        /\ UNCHANGED <<shows, command, count, alone>>
    BY <1>4, CommandScans DEF Scanned
  <2>3. ASSUME "unreadable" \notin outcome', NEW tb \in Tables, Sure(tb)
        PROVE  Tally(SoFar(tb), count[tb])'
    BY <1>4, <2>1, <2>2, <2>3, TallyKept DEF TallyInv, Scanned
  <2>4. QED
    BY <2>2, <2>3 DEF TallyInv, Sure
<1>5. ASSUME quiet, NEW d \in Donors, SkipUnreadable(d)
      PROVE  TallyInv'
  BY <1>5 DEF SkipUnreadable, TallyInv
<1>6. ASSUME quiet, NEW tb \in Tables, NEW S \in SUBSET Videos,
             ResetChunk(tb, S)
      PROVE  TallyInv'
  <2>1. command' = command /\ command \in {"reset infos", "reset queue"}
    BY <1>6 DEF ResetChunk, commandVars
  <2>2. command = "reset queue" => count'["infos"] = count["infos"]
    BY <1>6 DEF ResetChunk, IInv, TypeOK, Tables
  <2>3. QED
    BY <1>6, <2>1, <2>2 DEF TallyInv
<1>7. CASE quiet /\ ResetQueueNext
  <2>1. \A v \in Videos : count["infos"][v] = 0
    BY <1>7, NothingCounted DEF ResetQueueNext, Tables
  <2>2. QED
    BY <1>7, <2>1 DEF ResetQueueNext, TallyInv, tableVars
<1>8. CASE quiet /\ StartScan
  <2>1. /\ command = "reset queue" /\ Counted("queue") = {}
        /\ command' = "scan" /\ scan' = donated \ Excluded
        /\ UNCHANGED <<shows, donated, rows, count, at, doing>>
    BY <1>8 DEF StartScan, tableVars, writerVars
  <2>2. \A v \in Videos : count["infos"][v] = 0
    BY <1>8, <2>1 DEF TallyInv
  <2>3. \A v \in Videos : count["queue"][v] = 0
    BY <2>1, NothingCounted DEF Tables
  <2>4. ASSUME NEW tb \in Tables
        PROVE  Tally(SoFar(tb), count[tb])'
    <3>1. SoFar(tb)' = {}
      BY <2>1 DEF SoFar
    <3>2. Tally({}, count[tb])
      BY <2>2, <2>3, TallyNone DEF Tables
    <3>3. QED
      BY <2>1, <3>1, <3>2 DEF Tally
  <2>5. QED
    BY <2>1, <2>4 DEF TallyInv
<1>9. CASE quiet /\ (EndScan \/ \E S \in SUBSET Videos : PurgeList(S))
  <2>1. /\ command \in {"scan", "purge"} /\ command' # "reset queue"
        /\ UNCHANGED <<shows, donated, scan, at, doing, count, outcome, alone>>
    BY <1>9 DEF EndScan, PurgeList, tableVars, writerVars
  <2>2. \A tb \in Tables : SoFar(tb)' = SoFar(tb)
    BY <2>1 DEF SoFar
  <2>3. ASSUME "unreadable" \notin outcome, NEW tb \in Tables, Sure(tb)
        PROVE  Tally(SoFar(tb), count[tb])'
    BY <1>9, <2>1, <2>2, <2>3, TallyKept DEF TallyInv
  <2>4. QED
    BY <2>1, <2>3 DEF TallyInv, Sure
<1>10. CASE quiet /\ PurgeDelete
  <2>1. \A tb \in Tables, v \in Videos : count'[tb][v] = count[tb][v]
    BY <1>10 DEF PurgeDelete, PurgeInv, IInv, TypeOK, Tables
  <2>2. /\ command = "purge"
        /\ UNCHANGED <<shows, donated, scan, at, doing, command, outcome, alone>>
    BY <1>10 DEF PurgeDelete, writerVars
  <2>3. \A tb \in Tables : SoFar(tb)' = SoFar(tb)
    BY <2>2 DEF SoFar
  <2>4. ASSUME "unreadable" \notin outcome, NEW tb \in Tables, Sure(tb)
        PROVE  Tally(SoFar(tb), count[tb])'
    BY <1>10, <2>1, <2>2, <2>3, <2>4, TallyKept DEF TallyInv
  <2>5. QED
    BY <2>2, <2>4 DEF TallyInv, Sure
<1>11. CASE quiet /\ (\/ \E S \in SUBSET Videos : ScraperReads(S)
                      \/ \E v \in Videos : ScraperSaves(v)
                      \/ ScraperReleases \/ UNCHANGED vars)
  <2>1. UNCHANGED <<shows, donated, scan, at, doing, command, outcome>>
    BY <1>11 DEF ScraperReads, ScraperSaves, ScraperReleases, vars,
       writerVars, commandVars
  <2>2. \A tb \in Tables : SoFar(tb)' = SoFar(tb)
    BY <2>1 DEF SoFar
  <2>3. ASSUME NEW tb \in Tables, Sure(tb)'
        PROVE  Sure(tb) /\ count'[tb] = count[tb]
    <3>1. CASE \E v \in Videos : ScraperSaves(v)
      <4>1. inMemory # {} /\ alone' = alone
        BY <3>1 DEF ScraperSaves
      <4>2. tb = "infos"
        BY <2>3, <4>1 DEF RowInv, Sure
      <4>3. count'["infos"] = count["infos"]
        BY <3>1 DEF ScraperSaves, IInv, TypeOK, Tables
      <4>4. QED
        BY <4>2, <4>3 DEF Sure
    <3>2. CASE \/ \E S \in SUBSET Videos : ScraperReads(S)
               \/ ScraperReleases \/ UNCHANGED vars
      <4>1. count' = count /\ (alone' = alone \/ alone' = FALSE)
        BY <3>2 DEF ScraperReads, ScraperReleases, vars, tableVars
      <4>2. QED
        BY <2>3, <4>1 DEF Sure
    <3>3. QED
      BY <1>11, <3>1, <3>2
  <2>4. QED
    BY <1>0, <1>11, <2>1, <2>2, <2>3
<1>12. QED
  BY <1>1, <1>2, <1>3, <1>4, <1>5, <1>6, <1>7, <1>8, <1>9, <1>10, <1>11,
     QuietSteps DEF QuietStep

LEMMA PurgeStep ==
    ASSUME IInv, RowInv, StageInv, CalmInv, PurgeInv, [Next]_vars
    PROVE  PurgeInv'
<1> SUFFICES ASSUME quiet' PROVE PurgeInv'
  BY DEF PurgeInv
<1> USE PlaceNames
<1>1. CASE Rerun
  BY <1>1, RerunStarts DEF PurgeInv
<1>2. ASSUME quiet, UNCHANGED <<command, outcome, doomed>>,
             rows'["infos"] = rows["infos"], count'["infos"] = count["infos"]
      PROVE  PurgeInv'
  BY <1>2 DEF PurgeInv, Uncounted
<1>3. ASSUME doomed = {}, doomed' = doomed, command' # "done"
      PROVE  PurgeInv'
  BY <1>3 DEF PurgeInv
<1>4. ASSUME quiet, NEW tb \in Tables, Read(Command, tb) \/ Write(Command, tb)
      PROVE  PurgeInv'
  <2>1. command = "scan" /\ command' = command /\ doomed' = doomed
    BY <1>4 DEF StageInv, Read, Write, commandVars, Tables
  <2>2. QED
    BY <1>3, <2>1 DEF StageInv
<1>5. CASE \/ \E d \in Donors : ScanNext(d) \/ SkipUnreadable(d)
           \/ \E tb \in Tables, S \in SUBSET Videos : ResetChunk(tb, S)
           \/ ResetQueueNext \/ StartScan
  <2>1. doomed' = doomed /\ command # "purge" /\ command' # "done"
    BY <1>5 DEF ScanNext, SkipUnreadable, ResetChunk, ResetQueueNext,
       StartScan, commandVars
  <2>2. QED
    BY <1>3, <2>1 DEF StageInv
<1>6. CASE EndScan
  BY <1>6 DEF EndScan, PurgeInv, StageInv
<1>7. ASSUME NEW S \in SUBSET Videos, PurgeList(S)
      PROVE  PurgeInv'
  <2>1. doomed' = S /\ S \subseteq Uncounted /\ (S = {} => Uncounted = {})
    BY <1>7 DEF PurgeList
  <2>2. UNCHANGED <<rows, count>> /\ command' = IF S = {} THEN "done" ELSE "purge"
    BY <1>7 DEF PurgeList, tableVars
  <2>3. QED
    BY <2>1, <2>2 DEF PurgeInv, Uncounted
<1>8. CASE PurgeDelete
  BY <1>8 DEF PurgeDelete, PurgeInv
<1>9. CASE quiet /\ (\/ \E S \in SUBSET Videos : ScraperReads(S)
                     \/ \E v \in Videos : ScraperSaves(v)
                     \/ ScraperReleases \/ UNCHANGED vars)
  <2>1. UNCHANGED <<command, outcome, doomed, rows>>
    BY <1>9 DEF ScraperReads, ScraperSaves, ScraperReleases, vars, tableVars,
       commandVars
  <2>2. count'["infos"] = count["infos"]
    BY <1>9 DEF ScraperReads, ScraperSaves, ScraperReleases, vars, tableVars,
       IInv, TypeOK, Tables
  <2>3. QED
    BY <1>2, <1>9, <2>1, <2>2
<1>10. QED
  BY <1>1, <1>4, <1>5, <1>6, <1>7, <1>8, <1>9, QuietSteps DEF QuietStep

LEMMA RecountStep == IInv /\ RecountInv /\ [Next]_vars => RecountInv'
  BY RowStep, StageStep, CalmStep, PrepStep, TallyStep, PurgeStep
     DEF RecountInv

\* At the end every donation is counted.
LEMMA RecountEnds ==
    ASSUME IInv, RecountInv
    PROVE  RecountExact
<1> SUFFICES ASSUME CompleteRun, quiet
             PROVE  /\ Exact("infos")
                    /\ alone => Exact("queue")
                    /\ "read" \in outcome =>
                           rows["infos"] = {v \in Videos : Backing(v) # {}}
  BY DEF RecountExact
<1>1. /\ command = "done" /\ "unreadable" \notin outcome
      /\ scan = {} /\ at[Command] = "idle"
  BY DEF CompleteRun, RecountInv, StageInv
<1>2. \A tb \in Tables, v \in Videos :
          {d \in SoFar(tb) : v \in shows[d]} = Backing(v)
  BY <1>1 DEF SoFar, Before, Backing
<1>3. \A tb \in Tables : Sure(tb) => Exact(tb)
  BY <1>1, <1>2 DEF RecountInv, TallyInv, Tally, Exact
<1>4. Exact("infos") /\ (alone => Exact("queue"))
  BY <1>3 DEF Tables, Sure
<1>5. ASSUME "read" \in outcome
      PROVE  rows["infos"] = {v \in Videos : Backing(v) # {}}
  <2>1. outcome = {"read"}
    BY <1>1, <1>5 DEF IInv, TypeOK
  <2>2. \A v \in rows["infos"] : v \in Videos /\ count["infos"][v] # 0
    BY <1>1, <2>1 DEF RecountInv, PurgeInv, Uncounted, IInv, TypeOK, Tables
  <2>3. \A v \in Videos : count["infos"][v] # 0 <=> Backing(v) # {}
    <3>1. \A v \in Videos : IsFiniteSet(Backing(v))
      <4>1. \A v \in Videos : Backing(v) \in SUBSET Donors
        BY DEF Backing, IInv, TypeOK
      <4>2. QED
        BY <4>1, FS_Subset
    <3>2. QED
      BY <1>4, <3>1, FS_EmptySet DEF Exact
  <2>4. \A v \in Videos : count["infos"][v] # 0 => v \in rows["infos"]
    BY DEF RecountInv, RowInv, Tables
  <2>5. QED
    BY <2>2, <2>3, <2>4
<1>6. QED
  BY <1>4, <1>5

\* A complete recount in a quiet time leaves exact counts, whatever tasks,
\* scrapers and interrupted recounts did before it, and infos for exactly
\* the videos a donation shows.
THEOREM RecountIsExact == Spec => []RecountExact
<1>1. Init => IInv /\ RecountInv
  BY InitInv, InitRecount
<1>2. IInv /\ RecountInv /\ [Next]_vars => IInv' /\ RecountInv'
  BY StepInv, RecountStep
<1>3. IInv /\ RecountInv => RecountExact
  BY RecountEnds
<1>4. QED
  BY <1>1, <1>2, <1>3, PTL DEF Spec

-----------------------------------------------------------------------------
(* The import of links                                                     *)

Jobs == [list : Lists, origin : Origins]
LinkRow == [origin : Origins \cup {"none", "DONATION", "RESEARCH_API"},
            datapods : BOOLEAN, moved : Nat]
Targets == {NoTarget} \cup Nat
ReadTypes == [LinkIds -> {Skipped} \cup Targets]
ImportStages == {"idle", "rows", "mark", "read", "write", "next"}

ImportType == [at : ImportStages, job : Jobs \cup {<<>>}, chunk : Nat,
               read : ReadTypes, alone : BOOLEAN]

ImportTypes ==
    /\ catalogued \in [LinkIds -> LinkRow] /\ queued \in [LinkIds -> Targets]
    /\ delivered \in SUBSET LinkIds /\ counting \in ReadTypes
    /\ counted \in [LinkIds -> Nat]
    /\ import \in ImportType

\* What an import leaves of a video.
Imported(v, origin, cat, q, del) ==
    /\ cat[v] # Unregistered /\ (origin = "DATAPODS" => cat[v].datapods)
    /\ v \in del \/ q[v] # NoTarget

\* The chunks before the present one are done; of that, what the steps before
\* the present one do.
ChunkInv(stage, job, n, read, cat, q, del) ==
    /\ stage = "next" =>
           \A v \in ChunkIds(job.list, n) : Imported(v, job.origin, cat, q, del)
    /\ stage \in {"mark", "read", "write"} =>
           \A v \in ChunkIds(job.list, n) : cat[v] # Unregistered
    /\ stage \in {"read", "write"} /\ job.origin = "DATAPODS" =>
           \A v \in ChunkIds(job.list, n) : cat[v].datapods
    /\ stage = "write" =>
           /\ \A v \in ChunkIds(job.list, n) : read[v] # Skipped \/ v \in del
           /\ \A v \in LinkIds : read[v] # Skipped => v \in ChunkIds(job.list, n)

PlaceInv(stage, job, n, read, cat, q, del) ==
    /\ stage # "write" => read = NothingRead
    /\ stage # "idle" =>
           /\ job \in Jobs /\ n \in 1..Len(job.list.chunks)
           /\ \A m \in 1..n - 1, v \in LinkIds :
                  v \in ChunkIds(job.list, m) => Imported(v, job.origin, cat, q, del)
           /\ ChunkInv(stage, job, n, read, cat, q, del)

DoneInv(done, cat, q, del) ==
    \A job \in done :
        job \in Jobs /\ \A v \in job.list.means : Imported(v, job.origin, cat, q, del)

MarkInv(cat) ==
    \A v \in LinkIds : cat[v].datapods => \E list \in Lists : v \in list.means

\* What a writer has in memory is what is stored, unless it was crossed; and
\* what is stored is what was counted.
RankInv(q, n, read, other, cross) ==
    \A v \in LinkIds :
        /\ q[v] = NoTarget => n[v] = 0
        /\ v \notin cross =>
               /\ q[v] # NoTarget => q[v] = n[v]
               /\ read[v] # Skipped => read[v] = q[v]
               /\ other[v] # Skipped => other[v] = q[v]

\* What an import has read while it was alone is up to date.
AloneInv(single, read, q, del) ==
    single => \A v \in LinkIds : read[v] # Skipped => read[v] = q[v] /\ v \notin del

ImportInv ==
    /\ ImportTypes
    /\ PlaceInv(import.at, import.job, import.chunk, import.read,
                catalogued, queued, delivered)
    /\ DoneInv(completed, catalogued, queued, delivered)
    /\ MarkInv(catalogued)
    /\ RankInv(queued, counted, import.read, counting, crossed)
    /\ AloneInv(import.alone, import.read, queued, delivered)
    /\ redone = {}

-----------------------------------------------------------------------------
\* Nothing an import leaves is taken back.
Grows(cat, q, del, cat2, q2, del2) ==
    \A v \in LinkIds :
        /\ cat[v] # Unregistered => cat2[v] # Unregistered
        /\ cat[v].datapods => cat2[v].datapods
        /\ v \in del => v \in del2
        /\ q[v] # NoTarget => q2[v] # NoTarget

LEMMA ChunkOfList ==
    ASSUME Understood, NEW list \in Lists, NEW n \in 1..Len(list.chunks)
    PROVE  ChunkIds(list, n) \subseteq list.means /\ ChunkIds(list, n) \subseteq LinkIds
<1>1. /\ list.means \subseteq LinkIds
      /\ list.means = UNION {ChunkIds(list, m) : m \in 1..Len(list.chunks)}
  BY DEF Understood
<1>2. QED
  BY <1>1

LEMMA ImportedGrows ==
    ASSUME NEW v \in LinkIds, NEW origin, NEW cat, NEW q, NEW del,
           NEW cat2, NEW q2, NEW del2, Grows(cat, q, del, cat2, q2, del2),
           Imported(v, origin, cat, q, del)
    PROVE  Imported(v, origin, cat2, q2, del2)
  BY DEF Imported, Grows

LEMMA PlaceGrows ==
    ASSUME Understood, NEW stage, NEW job, NEW n, NEW read, NEW cat, NEW q, NEW del,
           NEW cat2, NEW q2, NEW del2, Grows(cat, q, del, cat2, q2, del2),
           PlaceInv(stage, job, n, read, cat, q, del)
    PROVE  PlaceInv(stage, job, n, read, cat2, q2, del2)
<1>1. CASE stage = "idle"
  BY <1>1 DEF PlaceInv
<1>2. CASE stage # "idle"
  <2>1. /\ job \in Jobs /\ n \in 1..Len(job.list.chunks) /\ job.list \in Lists
        /\ ChunkInv(stage, job, n, read, cat, q, del)
    BY <1>2 DEF PlaceInv, Jobs
  <2>2. \A v \in ChunkIds(job.list, n) : v \in LinkIds
    BY <2>1, ChunkOfList
  <2>3. \A m \in 1..n - 1, v \in LinkIds :
            v \in ChunkIds(job.list, m) => Imported(v, job.origin, cat2, q2, del2)
    BY <1>2, ImportedGrows DEF PlaceInv
  <2>4. ChunkInv(stage, job, n, read, cat2, q2, del2)
    <3>1. ASSUME stage = "next", NEW v \in ChunkIds(job.list, n)
          PROVE  Imported(v, job.origin, cat2, q2, del2)
      <4>1. v \in LinkIds /\ Imported(v, job.origin, cat, q, del)
        BY <2>1, <2>2, <3>1 DEF ChunkInv
      <4>2. QED
        BY <4>1, ImportedGrows
    <3>2. QED
      BY <2>1, <2>2, <3>1 DEF ChunkInv, Grows
  <2>5. QED
    BY <1>2, <2>1, <2>3, <2>4 DEF PlaceInv
<1>3. QED
  BY <1>1, <1>2

LEMMA DoneGrows ==
    ASSUME Understood, NEW done, NEW cat, NEW q, NEW del,
           NEW cat2, NEW q2, NEW del2, Grows(cat, q, del, cat2, q2, del2),
           DoneInv(done, cat, q, del)
    PROVE  DoneInv(done, cat2, q2, del2)
<1> SUFFICES ASSUME NEW job \in done
             PROVE  job \in Jobs /\ \A v \in job.list.means :
                                        Imported(v, job.origin, cat2, q2, del2)
  BY DEF DoneInv
<1>1. job \in Jobs /\ job.list \in Lists
  BY DEF DoneInv, Jobs
<1>2. \A v \in job.list.means : v \in LinkIds /\ Imported(v, job.origin, cat, q, del)
  BY <1>1 DEF DoneInv, Understood
<1>3. QED
  BY <1>1, <1>2, ImportedGrows

\* The fields of an import that goes on, and of one that is not alone.
LEMMA FieldsKept ==
    ASSUME import \in ImportType
    PROVE  /\ \A s \in ImportStages :
                  LET i == [import EXCEPT !.at = s] IN
                  /\ i \in ImportType /\ i.at = s /\ i.job = import.job
                  /\ i.chunk = import.chunk /\ i.read = import.read
                  /\ i.alone = import.alone
           /\ LET i == [import EXCEPT !.alone = FALSE] IN
              /\ i \in ImportType /\ i.at = import.at /\ i.job = import.job
              /\ i.chunk = import.chunk /\ i.read = import.read /\ ~i.alone
  BY DEF ImportType

LEMMA ReadKinds ==
    /\ NothingRead \in ReadTypes /\ \A v \in LinkIds : NothingRead[v] = Skipped
    /\ 0 \in Nat /\ 1 \in Nat /\ Skipped # NoTarget
    /\ \A n \in Nat : n # NoTarget /\ n # Skipped
  BY DEF NothingRead, ReadTypes, Skipped, NoTarget, Targets

\* Rows are added, and none is changed.
LEMMA WithRowsAdds ==
    ASSUME ImportTypes, NEW S,
           NEW origin \in Origins \cup {"DONATION", "RESEARCH_API"}
    PROVE  /\ WithRows(S, origin) \in [LinkIds -> LinkRow]
           /\ \A v \in LinkIds :
                  /\ catalogued[v] # Unregistered =>
                         WithRows(S, origin)[v] = catalogued[v]
                  /\ WithRows(S, origin)[v].datapods = catalogued[v].datapods
                  /\ v \in S => WithRows(S, origin)[v] # Unregistered
                  /\ v \notin S => WithRows(S, origin)[v] = catalogued[v]
<1> DEFINE r == [Unregistered EXCEPT !.origin = origin]
<1>1. origin # "none"
  BY OriginsAssumption
<1>2. r \in LinkRow /\ r # Unregistered /\ r.datapods = FALSE
  <2>1. /\ Unregistered \in LinkRow /\ Unregistered.origin = "none"
        /\ Unregistered.datapods = FALSE
    BY DEF Unregistered, LinkRow
  <2>2. r \in LinkRow /\ r.origin = origin /\ r.datapods = Unregistered.datapods
    BY <2>1 DEF LinkRow
  <2> HIDE DEF r
  <2>3. QED
    BY <1>1, <2>1, <2>2
<1>3. Unregistered.datapods = FALSE
  BY DEF Unregistered
<1>4. WithRows(S, origin) = [v \in LinkIds |->
                             IF v \in S /\ catalogued[v] = Unregistered
                             THEN r ELSE catalogued[v]]
  BY DEF WithRows
<1> HIDE DEF r
<1>5. QED
  BY <1>2, <1>3, <1>4 DEF ImportTypes

\* Targets are added and raised, none is taken off the queue.
LEMMA EnqueuedAdds ==
    ASSUME ImportTypes, NEW read \in ReadTypes, NEW n \in Nat
    PROVE  /\ Enqueued(read, n) \in [LinkIds -> Targets]
           /\ \A v \in LinkIds :
                  /\ read[v] = Skipped => Enqueued(read, n)[v] = queued[v]
                  /\ read[v] = NoTarget /\ queued[v] = NoTarget =>
                         Enqueued(read, n)[v] = n
                  /\ read[v] \in Nat => Enqueued(read, n)[v] = read[v] + n
                  /\ read[v] # Skipped \/ queued[v] # NoTarget =>
                         Enqueued(read, n)[v] # NoTarget
<1>1. \A v \in LinkIds :
          Enqueued(read, n)[v] = IF read[v] = Skipped THEN queued[v]
                                 ELSE IF read[v] = NoTarget
                                 THEN IF queued[v] = NoTarget THEN n ELSE queued[v]
                                 ELSE read[v] + n
  BY ReadKinds DEF Enqueued
<1>2. \A v \in LinkIds : /\ read[v] \in {Skipped, NoTarget} \cup Nat
                         /\ queued[v] \in {NoTarget} \cup Nat
  BY DEF ReadTypes, Targets, ImportTypes
<1>3. Skipped = -2 /\ NoTarget = -1
  BY DEF Skipped, NoTarget
<1>4. ASSUME NEW v \in LinkIds PROVE Enqueued(read, n)[v] \in {NoTarget} \cup Nat
  <2>1. CASE read[v] \in Nat
    <3>1. Enqueued(read, n)[v] = read[v] + n
      BY <1>1, <1>3, <2>1
    <3>2. QED
      BY <2>1, <3>1
  <2>2. CASE read[v] \in {Skipped, NoTarget}
    <3>1. Enqueued(read, n)[v] \in {n, queued[v]}
      BY <1>1, <1>3, <2>2
    <3>2. QED
      BY <1>2, <3>1
  <2>3. QED
    BY <1>2, <2>1, <2>2
<1>5. Enqueued(read, n) \in [LinkIds -> Targets]
  BY <1>4 DEF Enqueued, Targets
<1>6. QED
  BY <1>1, <1>2, <1>3, <1>5

LEMMA CountsRead ==
    ASSUME ImportTypes, NEW S
    PROVE  /\ CountsOf(S) \in ReadTypes
           /\ \A v \in LinkIds :
                  /\ CountsOf(S)[v] # Skipped =>
                         CountsOf(S)[v] = queued[v] /\ v \in S /\ v \notin delivered
                  /\ v \in S => CountsOf(S)[v] # Skipped \/ v \in delivered
<1>1. \A v \in LinkIds : queued[v] # Skipped /\ queued[v] \in Targets
  BY DEF ImportTypes, Targets, Skipped, NoTarget
<1>2. QED
  BY <1>1 DEF CountsOf, ReadTypes

-----------------------------------------------------------------------------
\* An import that has read nothing.
LEMMA NothingIsRead ==
    ASSUME NEW q, NEW n, NEW read, NEW other, NEW cross, NEW del, NEW single,
           RankInv(q, n, read, other, cross)
    PROVE  /\ RankInv(q, n, NothingRead, other, cross)
           /\ AloneInv(single, NothingRead, q, del)
  BY ReadKinds DEF RankInv, AloneInv

LEMMA IdleFields ==
    /\ Idle \in ImportType /\ Idle.at = "idle" /\ Idle.read = NothingRead
    /\ \A job \in Jobs :
           LET i == [Idle EXCEPT !.at = "rows", !.job = job] IN
           /\ i \in ImportType /\ i.at = "rows" /\ i.job = job /\ i.chunk = 1
           /\ i.read = NothingRead /\ i.alone = TRUE
  BY ReadKinds DEF Idle, ImportType, ImportStages

LEMMA StartKeeps ==
    ASSUME Understood, ImportInv, NEW list \in Lists, NEW origin \in Origins,
           StartImport(list, origin)
    PROVE  ImportInv'
<1> DEFINE job == [list |-> list, origin |-> origin]
<1>1. job \in Jobs /\ job.list = list /\ Len(list.chunks) \in Nat \ {0}
  BY DEF Jobs, Understood
<1>2. import' = [Idle EXCEPT !.at = "rows", !.job = job]
  BY DEF StartImport
<1> HIDE DEF job
<1>3. /\ import' \in ImportType /\ import'.at = "rows" /\ import'.job = job
      /\ import'.chunk = 1 /\ import'.read = NothingRead
  BY <1>1, <1>2, IdleFields
<1>4. UNCHANGED <<catalogued, queued, delivered, counting, counted, completed,
                  crossed, redone>>
  BY DEF StartImport
<1>5. ImportTypes'
  BY <1>3, <1>4 DEF ImportInv, ImportTypes
<1>6. PlaceInv("rows", job, 1, NothingRead, catalogued, queued, delivered)
  BY <1>1 DEF PlaceInv, ChunkInv
<1>7. /\ RankInv(queued, counted, NothingRead, counting, crossed)
      /\ AloneInv(import'.alone, NothingRead, queued, delivered)
  BY NothingIsRead DEF ImportInv
<1>8. QED
  BY <1>3, <1>4, <1>5, <1>6, <1>7 DEF ImportInv

LEMMA EndKeeps ==
    ASSUME Understood, ImportInv, FinishImport \/ StopImport
    PROVE  ImportInv'
<1>1. /\ import' = Idle
      /\ UNCHANGED <<catalogued, queued, delivered, counting, counted>>
      /\ UNCHANGED <<crossed, redone>>
  BY DEF FinishImport, StopImport
<1>2. ImportTypes'
  BY <1>1, IdleFields DEF ImportInv, ImportTypes
<1>3. PlaceInv("idle", import'.job, import'.chunk, NothingRead,
               catalogued, queued, delivered)
  BY DEF PlaceInv
<1>4. /\ RankInv(queued, counted, NothingRead, counting, crossed)
      /\ AloneInv(import'.alone, NothingRead, queued, delivered)
  BY NothingIsRead DEF ImportInv
<1>5. DoneInv(completed', catalogued, queued, delivered)
  <2>1. CASE StopImport
    BY <2>1 DEF StopImport, ImportInv
  <2>2. CASE FinishImport
    <3> DEFINE job == import.job
    <3>1. /\ import.at = "next" /\ import.chunk = Len(job.list.chunks)
          /\ completed' = completed \cup {job}
      BY <2>2 DEF FinishImport
    <3>2. /\ job \in Jobs /\ job.list \in Lists
          /\ import.chunk \in 1..Len(job.list.chunks)
          /\ \A m \in 1..import.chunk - 1, v \in LinkIds :
                 v \in ChunkIds(job.list, m) =>
                     Imported(v, job.origin, catalogued, queued, delivered)
          /\ \A v \in ChunkIds(job.list, import.chunk) :
                 Imported(v, job.origin, catalogued, queued, delivered)
      BY <3>1 DEF ImportInv, PlaceInv, ChunkInv, Jobs
    <3>3. /\ Len(job.list.chunks) \in Nat /\ job.list.means \subseteq LinkIds
          /\ job.list.means =
                 UNION {ChunkIds(job.list, m) : m \in 1..Len(job.list.chunks)}
      BY <3>2 DEF Understood
    <3> HIDE DEF job
    <3>4. ASSUME NEW v \in job.list.means
          PROVE  Imported(v, job.origin, catalogued, queued, delivered)
      <4>1. PICK m \in 1..Len(job.list.chunks) : v \in ChunkIds(job.list, m)
        BY <3>3
      <4>2. m \in 1..import.chunk - 1 \/ m = import.chunk
        BY <3>1, <3>3, <4>1
      <4>3. v \in LinkIds
        BY <3>3
      <4>4. QED
        BY <3>2, <4>1, <4>2, <4>3
    <3>5. QED
      BY <3>1, <3>2, <3>4 DEF ImportInv, DoneInv
  <2>3. QED
    BY <2>1, <2>2
<1>6. QED
  BY <1>1, <1>2, <1>3, <1>4, <1>5, IdleFields DEF ImportInv

-----------------------------------------------------------------------------
\* A row that is added takes nothing back.
LEMMA RowsGrow ==
    ASSUME ImportTypes, NEW S, NEW del, NEW del2, del \subseteq del2,
           NEW origin \in Origins \cup {"DONATION", "RESEARCH_API"},
           MarkInv(catalogued)
    PROVE  /\ Grows(catalogued, queued, del, WithRows(S, origin), queued, del2)
           /\ MarkInv(WithRows(S, origin))
<1>1. \A v \in LinkIds :
          /\ catalogued[v] # Unregistered =>
                 WithRows(S, origin)[v] = catalogued[v]
          /\ WithRows(S, origin)[v].datapods = catalogued[v].datapods
  BY WithRowsAdds
<1>2. QED
  BY <1>1 DEF Grows, MarkInv

LEMMA CountKeeps ==
    ASSUME Understood, ImportInv, NEW v \in LinkIds, CountDonation(v)
    PROVE  ImportInv'
<1>1. /\ catalogued' = WithRows({v}, "DONATION") /\ counting' = CountsOf({v})
      /\ import' = [import EXCEPT !.alone = FALSE]
      /\ UNCHANGED <<queued, delivered, counted, completed, crossed, redone>>
  BY DEF CountDonation, NotAlone
<1>2. ImportTypes /\ import \in ImportType
  BY DEF ImportInv, ImportTypes
<1>3. /\ import' \in ImportType /\ import'.at = import.at /\ import'.job = import.job
      /\ import'.chunk = import.chunk /\ import'.read = import.read /\ ~import'.alone
  BY <1>1, <1>2, FieldsKept
<1>4. /\ catalogued' \in [LinkIds -> LinkRow] /\ counting' \in ReadTypes
      /\ \A w \in LinkIds : counting'[w] # Skipped => counting'[w] = queued[w]
  BY <1>1, <1>2, WithRowsAdds, CountsRead
<1>5. ImportTypes'
  BY <1>1, <1>2, <1>3, <1>4 DEF ImportTypes
<1>6. /\ Grows(catalogued, queued, delivered, catalogued', queued, delivered)
      /\ MarkInv(catalogued')
  BY <1>1, <1>2, RowsGrow DEF ImportInv
<1>7. /\ PlaceInv(import.at, import.job, import.chunk, import.read,
                  catalogued', queued, delivered)
      /\ DoneInv(completed, catalogued', queued, delivered)
  BY <1>6, PlaceGrows, DoneGrows DEF ImportInv
<1>8. RankInv(queued, counted, import.read, counting', crossed)
  BY <1>4 DEF ImportInv, RankInv
<1>9. AloneInv(import'.alone, import.read, queued, delivered)
  BY <1>3 DEF AloneInv
<1>10. QED
  BY <1>1, <1>3, <1>5, <1>6, <1>7, <1>8, <1>9 DEF ImportInv

LEMMA DeliverKeeps ==
    ASSUME Understood, ImportInv, NEW v \in LinkIds, DeliverVideo(v)
    PROVE  ImportInv'
<1>1. /\ catalogued' = WithRows({v}, "RESEARCH_API")
      /\ delivered' = delivered \cup {v}
      /\ import' = [import EXCEPT !.alone = FALSE]
      /\ UNCHANGED <<queued, counting, counted, completed, crossed, redone>>
  BY DEF DeliverVideo, NotAlone
<1>2. ImportTypes /\ import \in ImportType
  BY DEF ImportInv, ImportTypes
<1>3. /\ import' \in ImportType /\ import'.at = import.at /\ import'.job = import.job
      /\ import'.chunk = import.chunk /\ import'.read = import.read /\ ~import'.alone
  BY <1>1, <1>2, FieldsKept
<1>4. catalogued' \in [LinkIds -> LinkRow]
  BY <1>1, <1>2, WithRowsAdds
<1>5. ImportTypes'
  BY <1>1, <1>2, <1>3, <1>4 DEF ImportTypes
<1>6. /\ Grows(catalogued, queued, delivered, catalogued', queued, delivered')
      /\ MarkInv(catalogued')
  BY <1>1, <1>2, RowsGrow DEF ImportInv
<1>7. /\ PlaceInv(import.at, import.job, import.chunk, import.read,
                  catalogued', queued, delivered')
      /\ DoneInv(completed, catalogued', queued, delivered')
  BY <1>6, PlaceGrows, DoneGrows DEF ImportInv
<1>8. AloneInv(import'.alone, import.read, queued, delivered')
  BY <1>3 DEF AloneInv
<1>9. QED
  BY <1>1, <1>3, <1>5, <1>6, <1>7, <1>8 DEF ImportInv

\* Targets that are written are not taken off.
LEMMA TargetsGrow ==
    ASSUME ImportTypes, NEW read \in ReadTypes, NEW n \in Nat
    PROVE  Grows(catalogued, queued, delivered, catalogued, Enqueued(read, n), delivered)
<1>1. \A v \in LinkIds : queued[v] # NoTarget => Enqueued(read, n)[v] # NoTarget
  BY EnqueuedAdds
<1>2. QED
  BY <1>1 DEF Grows

LEMMA WriteKeeps ==
    ASSUME Understood, ImportInv, WriteDonation
    PROVE  ImportInv'
<1>1. /\ queued' = Enqueued(counting, 1)
      /\ counted' = [v \in LinkIds |->
                        counted[v] + IF v \in InMemory(counting) THEN 1 ELSE 0]
      /\ crossed' = crossed \cup (InMemory(counting) \cap InMemory(import.read))
      /\ counting' = NothingRead
      /\ import' = [import EXCEPT !.alone = FALSE]
      /\ UNCHANGED <<catalogued, delivered, completed, redone>>
  BY DEF WriteDonation, NotAlone
<1>2. ImportTypes /\ import \in ImportType /\ counting \in ReadTypes
  BY DEF ImportInv, ImportTypes
<1>3. /\ import' \in ImportType /\ import'.at = import.at /\ import'.job = import.job
      /\ import'.chunk = import.chunk /\ import'.read = import.read /\ ~import'.alone
  BY <1>1, <1>2, FieldsKept
<1>4. queued' \in [LinkIds -> Targets] /\ counting' \in ReadTypes
  BY <1>1, <1>2, EnqueuedAdds, ReadKinds
<1>5. /\ counted' \in [LinkIds -> Nat]
      /\ \A v \in LinkIds :
             counted'[v] = IF counting[v] # Skipped THEN counted[v] + 1 ELSE counted[v]
  BY <1>1, <1>2 DEF ImportTypes, InMemory
<1>6. ImportTypes'
  BY <1>1, <1>2, <1>3, <1>4, <1>5 DEF ImportTypes
<1>7. Grows(catalogued, queued, delivered, catalogued, queued', delivered)
  BY <1>1, <1>2, TargetsGrow, ReadKinds
<1>8. /\ PlaceInv(import.at, import.job, import.chunk, import.read,
                  catalogued, queued', delivered)
      /\ DoneInv(completed, catalogued, queued', delivered)
  BY <1>7, PlaceGrows, DoneGrows DEF ImportInv
<1>9. RankInv(queued', counted', import.read, counting', crossed')
  <2> SUFFICES ASSUME NEW v \in LinkIds
               PROVE  /\ queued'[v] = NoTarget => counted'[v] = 0
                      /\ v \notin crossed' =>
                             /\ queued'[v] # NoTarget => queued'[v] = counted'[v]
                             /\ import.read[v] # Skipped => import.read[v] = queued'[v]
    BY <1>1, ReadKinds DEF RankInv
  <2>1. /\ counting[v] \in {Skipped, NoTarget} \cup Nat
        /\ counted[v] \in Nat /\ queued[v] \in Targets
    BY <1>2 DEF ImportTypes, ReadTypes, Targets
  <2>2. /\ queued[v] = NoTarget => counted[v] = 0
        /\ v \notin crossed =>
               /\ queued[v] # NoTarget => queued[v] = counted[v]
               /\ import.read[v] # Skipped => import.read[v] = queued[v]
               /\ counting[v] # Skipped => counting[v] = queued[v]
    BY DEF ImportInv, RankInv
  <2>3. v \notin crossed' =>
            v \notin crossed /\ (counting[v] = Skipped \/ import.read[v] = Skipped)
    BY <1>1 DEF InMemory
  <2>4. CASE counting[v] = Skipped
    <3>1. queued'[v] = queued[v] /\ counted'[v] = counted[v]
      BY <1>1, <1>2, <1>5, <2>4, EnqueuedAdds, ReadKinds
    <3>2. QED
      BY <2>2, <2>3, <3>1
  <2>5. CASE counting[v] = NoTarget
    <3>1. queued'[v] # NoTarget /\ counted'[v] = counted[v] + 1
      BY <1>1, <1>2, <1>5, <2>5, EnqueuedAdds, ReadKinds
    <3>2. ASSUME v \notin crossed'
          PROVE  queued'[v] = counted'[v] /\ import.read[v] = Skipped
      <4>1. queued[v] = NoTarget /\ counted[v] = 0 /\ import.read[v] = Skipped
        BY <2>2, <2>3, <2>5, <3>2, ReadKinds
      <4>2. queued'[v] = 1
        BY <1>1, <1>2, <2>5, <4>1, EnqueuedAdds, ReadKinds
      <4>3. QED
        BY <3>1, <4>1, <4>2
    <3>3. QED
      BY <3>1, <3>2
  <2>6. CASE counting[v] \in Nat
    <3>1. counting[v] # Skipped /\ counting[v] # NoTarget
      BY <2>6, ReadKinds
    <3>2. queued'[v] = counting[v] + 1 /\ counted'[v] = counted[v] + 1
      BY <1>1, <1>2, <1>5, <2>6, <3>1, EnqueuedAdds, ReadKinds
    <3>3. queued'[v] # NoTarget
      BY <2>6, <3>2, ReadKinds
    <3>4. ASSUME v \notin crossed'
          PROVE  queued'[v] = counted'[v] /\ import.read[v] = Skipped
      BY <2>2, <2>3, <3>1, <3>2, <3>4
    <3>5. QED
      BY <3>3, <3>4
  <2>7. QED
    BY <2>1, <2>4, <2>5, <2>6
<1>10. AloneInv(import'.alone, import.read, queued', delivered)
  BY <1>3 DEF AloneInv
<1>11. QED
  BY <1>1, <1>3, <1>6, <1>8, <1>9, <1>10 DEF ImportInv

-----------------------------------------------------------------------------
(* The steps of the import                                                 *)

\* The job of a running import, and its chunk; when it has been done before,
\* everything in the chunk is there.
LEMMA Running ==
    ASSUME Understood, ImportInv, import.at # "idle"
    PROVE  /\ import.job \in Jobs /\ import.job.list \in Lists
           /\ import.job.origin \in Origins
           /\ import.chunk \in 1..Len(import.job.list.chunks)
           /\ Chunk = ChunkIds(import.job.list, import.chunk)
           /\ Chunk \subseteq LinkIds /\ Chunk \subseteq import.job.list.means
           /\ import.job \in completed =>
                  \A v \in Chunk : Imported(v, import.job.origin,
                                            catalogued, queued, delivered)
<1>1. /\ import.job \in Jobs /\ import.job.list \in Lists
      /\ import.job.origin \in Origins
      /\ import.chunk \in 1..Len(import.job.list.chunks)
  BY DEF ImportInv, PlaceInv, Jobs
<1>2. Chunk = ChunkIds(import.job.list, import.chunk)
  BY DEF Chunk, ChunkIds
<1>3. Chunk \subseteq LinkIds /\ Chunk \subseteq import.job.list.means
  BY <1>1, <1>2, ChunkOfList
<1>4. import.job \in completed =>
          \A v \in Chunk : Imported(v, import.job.origin, catalogued, queued, delivered)
  BY <1>3 DEF ImportInv, DoneInv
<1>5. QED
  BY <1>1, <1>2, <1>3, <1>4

\* Nothing is redone by a step that changes nothing of what is there.
LEMMA NothingRedone ==
    ASSUME ImportInv, ImportStep,
           import.job \in completed /\ import.alone =>
               \A v \in LinkIds : catalogued'[v] = catalogued[v] /\ queued'[v] = queued[v]
    PROVE  redone' = {}
<1>1. redone = {} /\ redone' = redone \cup Redone
  BY DEF ImportInv, ImportStep
<1>2. Redone = {}
  BY DEF Redone
<1>3. QED
  BY <1>1, <1>2

\* What the step of the import leaves alone.
LEMMA StepLeaves ==
    ASSUME ImportStep
    PROVE  /\ UNCHANGED <<delivered, counting, counted, completed>>
           /\ import.at # "write" => crossed' = crossed
           /\ import.at = "write" =>
                  crossed' = crossed \cup (InMemory(import.read) \cap InMemory(counting))
  BY DEF ImportStep

\* The chunks before the present one stay done.
LEMMA PlaceMoves ==
    ASSUME NEW stage, NEW to, NEW job, NEW n, NEW read, NEW other,
           NEW cat, NEW q, NEW del, stage # "idle",
           PlaceInv(stage, job, n, read, cat, q, del),
           to # "write" => other = NothingRead,
           ChunkInv(to, job, n, other, cat, q, del)
    PROVE  PlaceInv(to, job, n, other, cat, q, del)
  BY DEF PlaceInv

LEMMA CreateKeeps ==
    ASSUME Understood, ImportInv, ImportStep, CreateRows
    PROVE  ImportInv'
<1> DEFINE job == import.job
           to == IF Chunk = {} THEN "next" ELSE "mark"
<1>1. /\ import.at = "rows" /\ catalogued' = WithRows(Chunk, job.origin)
      /\ import' = [import EXCEPT !.at = to] /\ queued' = queued
  BY DEF CreateRows, GoOn
<1>2. /\ job.origin \in Origins /\ Chunk = ChunkIds(job.list, import.chunk)
      /\ Chunk \subseteq LinkIds
      /\ job \in completed =>
             \A v \in Chunk : Imported(v, job.origin, catalogued, queued, delivered)
  BY <1>1, Running
<1>3. /\ ImportTypes /\ import \in ImportType /\ MarkInv(catalogued)
      /\ to \in {"next", "mark"} /\ to \in ImportStages /\ import.read = NothingRead
  BY <1>1 DEF ImportInv, ImportTypes, PlaceInv, ImportStages
<1> HIDE DEF job, to
<1>4. /\ import' \in ImportType /\ import'.at = to /\ import'.job = import.job
      /\ import'.chunk = import.chunk /\ import'.read = import.read
      /\ import'.alone = import.alone
  BY <1>1, <1>3, FieldsKept
<1>5. /\ catalogued' \in [LinkIds -> LinkRow]
      /\ \A v \in LinkIds :
             /\ catalogued[v] # Unregistered => catalogued'[v] = catalogued[v]
             /\ v \in Chunk => catalogued'[v] # Unregistered
             /\ v \notin Chunk => catalogued'[v] = catalogued[v]
  BY <1>1, <1>2, <1>3, WithRowsAdds
<1>6. /\ UNCHANGED <<delivered, counting, counted, completed>>
      /\ crossed' = crossed
  BY <1>1, StepLeaves
<1>7. ImportTypes'
  BY <1>1, <1>3, <1>4, <1>5, <1>6 DEF ImportTypes
<1>8. /\ Grows(catalogued, queued, delivered, catalogued', queued, delivered)
      /\ MarkInv(catalogued')
  BY <1>1, <1>2, <1>3, RowsGrow
<1>9. /\ PlaceInv("rows", import.job, import.chunk, import.read,
                  catalogued', queued, delivered)
      /\ DoneInv(completed, catalogued', queued, delivered)
  BY <1>1, <1>8, PlaceGrows, DoneGrows DEF ImportInv
<1>10. ChunkInv(to, import.job, import.chunk, import.read,
                catalogued', queued, delivered)
  BY <1>2, <1>3, <1>5 DEF ChunkInv, to, job
<1>11. PlaceInv(to, import.job, import.chunk, import.read,
                catalogued', queued, delivered)
  BY <1>3, <1>9, <1>10, PlaceMoves
<1>12. redone' = {}
  <2>1. job \in completed => \A v \in LinkIds : catalogued'[v] = catalogued[v]
    BY <1>2, <1>5 DEF Imported
  <2>2. QED
    BY <1>1, <2>1, NothingRedone DEF job
<1>13. QED
  BY <1>1, <1>4, <1>6, <1>7, <1>8, <1>9, <1>11, <1>12 DEF ImportInv

\* A row that is marked is a row, with the mark.
LEMMA MarkedRow ==
    ASSUME NEW r \in LinkRow
    PROVE  LET s == [r EXCEPT !.datapods = TRUE, !.moved = @ + 1]
           IN s \in LinkRow /\ s.datapods = TRUE
<1> DEFINE q == [r EXCEPT !.datapods = TRUE]
           s == [r EXCEPT !.datapods = TRUE, !.moved = @ + 1]
<1>1. TRUE \in BOOLEAN
  OBVIOUS
<1>2. q \in LinkRow
  BY <1>1 DEF LinkRow
<1>3. r.moved + 1 \in Nat
  BY DEF LinkRow
<1>4. s = [q EXCEPT !.moved = r.moved + 1]
  BY Zenon
<1>5. s.datapods = TRUE
  BY DEF LinkRow
<1> HIDE DEF q
<1>6. [q EXCEPT !.moved = r.moved + 1] \in LinkRow
  BY <1>2, <1>3 DEF LinkRow
<1>7. QED
  BY <1>4, <1>5, <1>6

LEMMA MarkKeeps ==
    ASSUME Understood, ImportInv, ImportStep, MarkListed
    PROVE  ImportInv'
<1> DEFINE job == import.job
<1>1. /\ import.at = "mark" /\ import' = [import EXCEPT !.at = "read"]
      /\ queued' = queued
      /\ catalogued' = [v \in LinkIds |->
             IF job.origin = "DATAPODS" /\ v \in Unmarked(Chunk)
             THEN [catalogued[v] EXCEPT !.datapods = TRUE, !.moved = @ + 1]
             ELSE catalogued[v]]
  BY DEF MarkListed, GoOn
<1>2. /\ job.list \in Lists /\ Chunk = ChunkIds(job.list, import.chunk)
      /\ Chunk \subseteq LinkIds /\ Chunk \subseteq job.list.means
      /\ job \in completed =>
             \A v \in Chunk : Imported(v, job.origin, catalogued, queued, delivered)
  BY <1>1, Running
<1>3. /\ ImportTypes /\ import \in ImportType /\ MarkInv(catalogued)
      /\ "read" \in ImportStages /\ import.read = NothingRead
      /\ PlaceInv("mark", import.job, import.chunk, import.read,
                  catalogued, queued, delivered)
  BY <1>1 DEF ImportInv, ImportTypes, PlaceInv, ImportStages
<1>4. \A v \in Chunk : catalogued[v] # Unregistered
  BY <1>2, <1>3 DEF PlaceInv, ChunkInv
<1> HIDE DEF job
<1>5. /\ import' \in ImportType /\ import'.at = "read" /\ import'.job = import.job
      /\ import'.chunk = import.chunk /\ import'.read = import.read
      /\ import'.alone = import.alone
  BY <1>1, <1>3, FieldsKept
<1>6. ASSUME NEW v \in LinkIds
      PROVE  /\ catalogued'[v] \in LinkRow
             /\ catalogued[v].datapods => catalogued'[v] = catalogued[v]
             /\ catalogued[v] # Unregistered => catalogued'[v] # Unregistered
             /\ v \in Chunk /\ job.origin = "DATAPODS" => catalogued'[v].datapods
             /\ v \notin Chunk \/ job.origin # "DATAPODS" =>
                    catalogued'[v] = catalogued[v]
  <2> DEFINE r == catalogued[v]
             s == [r EXCEPT !.datapods = TRUE, !.moved = @ + 1]
  <2>1. r \in LinkRow
    BY <1>3 DEF ImportTypes
  <2>2. catalogued'[v] = IF job.origin = "DATAPODS" /\ v \in Chunk /\ ~r.datapods
                         THEN s ELSE r
    BY <1>1 DEF Unmarked
  <2> HIDE DEF r
  <2>3. s \in LinkRow /\ s.datapods = TRUE
    BY <2>1, MarkedRow
  <2>4. Unregistered.datapods = FALSE
    BY DEF Unregistered
  <2> HIDE DEF s
  <2>5. s # Unregistered
    BY <2>3, <2>4
  <2>6. QED
    BY <2>1, <2>2, <2>3, <2>5 DEF r
<1>7. catalogued' \in [LinkIds -> LinkRow]
  BY <1>1, <1>6
<1>8. /\ UNCHANGED <<delivered, counting, counted, completed>>
      /\ crossed' = crossed
  BY <1>1, StepLeaves
<1>9. ImportTypes'
  BY <1>1, <1>3, <1>5, <1>7, <1>8 DEF ImportTypes
<1>10. Grows(catalogued, queued, delivered, catalogued', queued, delivered)
  BY <1>6 DEF Grows
<1>11. MarkInv(catalogued')
  BY <1>2, <1>3, <1>6 DEF MarkInv
<1>12. /\ PlaceInv("mark", import.job, import.chunk, import.read,
                   catalogued', queued, delivered)
       /\ DoneInv(completed, catalogued', queued, delivered)
  BY <1>3, <1>10, PlaceGrows, DoneGrows DEF ImportInv
<1>13. ChunkInv("read", import.job, import.chunk, import.read,
                catalogued', queued, delivered)
  BY <1>2, <1>4, <1>6 DEF ChunkInv, job
<1>14. PlaceInv("read", import.job, import.chunk, import.read,
                catalogued', queued, delivered)
  BY <1>3, <1>12, <1>13, PlaceMoves
<1>15. redone' = {}
  <2>1. job \in completed => \A v \in LinkIds : catalogued'[v] = catalogued[v]
    BY <1>2, <1>6 DEF Imported
  <2>2. QED
    BY <1>1, <2>1, NothingRedone DEF job
<1>16. QED
  BY <1>1, <1>5, <1>8, <1>9, <1>11, <1>12, <1>14, <1>15 DEF ImportInv

LEMMA ReadTargetsKeeps ==
    ASSUME Understood, ImportInv, ImportStep, ReadTargets
    PROVE  ImportInv'
<1> DEFINE read == CountsOf(Chunk)
<1>1. /\ import.at = "read" /\ UNCHANGED <<catalogued, queued>>
      /\ import' = [import EXCEPT !.at = "write", !.read = read]
  BY DEF ReadTargets
<1>2. /\ Chunk = ChunkIds(import.job.list, import.chunk) /\ Chunk \subseteq LinkIds
  BY <1>1, Running
<1>3. /\ ImportTypes /\ import \in ImportType /\ "write" \in ImportStages
      /\ PlaceInv("read", import.job, import.chunk, import.read,
                  catalogued, queued, delivered)
  BY <1>1 DEF ImportInv, ImportTypes, ImportStages
<1>4. /\ read \in ReadTypes
      /\ \A v \in LinkIds :
             /\ read[v] # Skipped => read[v] = queued[v] /\ v \in Chunk /\ v \notin delivered
             /\ v \in Chunk => read[v] # Skipped \/ v \in delivered
  BY <1>3, CountsRead
<1> HIDE DEF read
<1>5. /\ import' \in ImportType /\ import'.at = "write" /\ import'.job = import.job
      /\ import'.chunk = import.chunk /\ import'.read = read
      /\ import'.alone = import.alone
  BY <1>1, <1>3, <1>4 DEF ImportType
<1>6. /\ UNCHANGED <<delivered, counting, counted, completed>>
      /\ crossed' = crossed
  BY <1>1, StepLeaves
<1>7. ImportTypes'
  BY <1>1, <1>3, <1>5, <1>6 DEF ImportTypes
<1>8. ChunkInv("read", import.job, import.chunk, import.read,
               catalogued, queued, delivered)
  BY <1>3 DEF PlaceInv
<1>9. ChunkInv("write", import.job, import.chunk, read, catalogued, queued, delivered)
  BY <1>2, <1>4, <1>8 DEF ChunkInv
<1>10. PlaceInv("write", import.job, import.chunk, read, catalogued, queued, delivered)
  BY <1>3, <1>9, PlaceMoves
<1>11. RankInv(queued, counted, read, counting, crossed)
  BY <1>4 DEF ImportInv, RankInv
<1>12. AloneInv(import.alone, read, queued, delivered)
  BY <1>4 DEF AloneInv
<1>13. redone' = {}
  BY <1>1, NothingRedone
<1>14. QED
  BY <1>1, <1>5, <1>6, <1>7, <1>10, <1>11, <1>12, <1>13 DEF ImportInv

LEMMA WriteTargetsKeeps ==
    ASSUME Understood, ImportInv, ImportStep, WriteTargets
    PROVE  ImportInv'
<1> DEFINE job == import.job
           read == import.read
<1>1. /\ import.at = "write" /\ queued' = Enqueued(read, 0)
      /\ catalogued' = catalogued
      /\ import' = [import EXCEPT !.at = "next", !.read = NothingRead]
  BY DEF WriteTargets
<1>2. /\ Chunk = ChunkIds(job.list, import.chunk) /\ Chunk \subseteq LinkIds
      /\ job \in completed =>
             \A v \in Chunk : Imported(v, job.origin, catalogued, queued, delivered)
  BY <1>1, Running
<1>3. /\ ImportTypes /\ import \in ImportType /\ "next" \in ImportStages
      /\ read \in ReadTypes
      /\ PlaceInv("write", import.job, import.chunk, read, catalogued, queued, delivered)
  BY <1>1 DEF ImportInv, ImportTypes, ImportType, ImportStages
<1>4. ChunkInv("write", import.job, import.chunk, read, catalogued, queued, delivered)
  BY <1>3 DEF PlaceInv
<1>5. /\ RankInv(queued, counted, read, counting, crossed)
      /\ AloneInv(import.alone, read, queued, delivered)
  BY DEF ImportInv
<1> HIDE DEF job, read
<1>6. /\ import' \in ImportType /\ import'.at = "next" /\ import'.job = import.job
      /\ import'.chunk = import.chunk /\ import'.read = NothingRead
      /\ import'.alone = import.alone
  BY <1>1, <1>3, ReadKinds DEF ImportType
<1>7. /\ UNCHANGED <<delivered, counting, counted, completed>>
      /\ crossed' = crossed \cup (InMemory(read) \cap InMemory(counting))
  BY <1>1, StepLeaves DEF read
<1>8. /\ queued' \in [LinkIds -> Targets]
      /\ \A v \in LinkIds :
             /\ read[v] = Skipped => queued'[v] = queued[v]
             /\ read[v] = NoTarget /\ queued[v] = NoTarget => queued'[v] = 0
             /\ read[v] \in Nat => queued'[v] = read[v] + 0
             /\ read[v] # Skipped \/ queued[v] # NoTarget => queued'[v] # NoTarget
  BY <1>1, <1>3, EnqueuedAdds, ReadKinds
<1>9. \A v \in LinkIds : read[v] \in {Skipped, NoTarget} \cup Nat
  BY <1>3 DEF ReadTypes, Targets
<1>10. ImportTypes'
  BY <1>1, <1>3, <1>6, <1>7, <1>8 DEF ImportTypes
<1>11. Grows(catalogued, queued, delivered, catalogued, queued', delivered)
  BY <1>8 DEF Grows
<1>12. /\ PlaceInv("write", import.job, import.chunk, read, catalogued, queued', delivered)
       /\ DoneInv(completed, catalogued, queued', delivered)
  BY <1>3, <1>11, PlaceGrows, DoneGrows DEF ImportInv
<1>13. ChunkInv("next", import.job, import.chunk, NothingRead,
                catalogued, queued', delivered)
  <2>1. \A v \in Chunk : Imported(v, job.origin, catalogued, queued', delivered)
    BY <1>2, <1>4, <1>8 DEF ChunkInv, Imported, job
  <2>2. QED
    BY <1>2, <2>1 DEF ChunkInv, job
<1>14. PlaceInv("next", import.job, import.chunk, NothingRead,
                catalogued, queued', delivered)
  BY <1>12, <1>13, PlaceMoves
<1>15. RankInv(queued', counted, NothingRead, counting, crossed')
  <2> SUFFICES ASSUME NEW v \in LinkIds
               PROVE  /\ queued'[v] = NoTarget => counted[v] = 0
                      /\ v \notin crossed' =>
                             /\ queued'[v] # NoTarget => queued'[v] = counted[v]
                             /\ counting[v] # Skipped => counting[v] = queued'[v]
    BY ReadKinds DEF RankInv
  <2>1. /\ queued[v] = NoTarget => counted[v] = 0
        /\ v \notin crossed =>
               /\ queued[v] # NoTarget => queued[v] = counted[v]
               /\ read[v] # Skipped => read[v] = queued[v]
               /\ counting[v] # Skipped => counting[v] = queued[v]
    BY <1>5 DEF RankInv
  <2>2. v \notin crossed' =>
            v \notin crossed /\ (counting[v] = Skipped \/ read[v] = Skipped)
    BY <1>7 DEF InMemory
  <2>3. CASE read[v] = Skipped
    BY <1>8, <2>1, <2>2, <2>3
  <2>4. CASE read[v] = NoTarget
    <3>1. queued'[v] # NoTarget /\ read[v] # Skipped
      BY <1>8, <2>4, ReadKinds
    <3>2. v \notin crossed' => queued[v] = NoTarget /\ counting[v] = Skipped
      BY <2>1, <2>2, <2>4, <3>1
    <3>3. v \notin crossed' => queued'[v] = counted[v]
      BY <1>8, <2>1, <2>4, <3>2
    <3>4. QED
      BY <3>1, <3>2, <3>3
  <2>5. CASE read[v] \in Nat
    <3>1. read[v] # Skipped /\ read[v] # NoTarget
      BY <2>5, ReadKinds
    <3>2. queued'[v] = read[v]
      BY <1>8, <2>5
    <3>3. v \notin crossed' => queued[v] = read[v] /\ counting[v] = Skipped
      BY <2>1, <2>2, <3>1
    <3>4. QED
      BY <2>1, <2>2, <3>1, <3>2, <3>3
  <2>6. QED
    BY <1>9, <2>3, <2>4, <2>5
<1>16. AloneInv(import.alone, NothingRead, queued', delivered)
  BY ReadKinds DEF AloneInv
<1>17. redone' = {}
  <2>1. ASSUME job \in completed, import.alone, NEW v \in LinkIds
        PROVE  queued'[v] = queued[v]
    <3>1. CASE read[v] = Skipped
      BY <1>8, <3>1
    <3>2. CASE read[v] # Skipped
      <4>1. read[v] = queued[v] /\ v \notin delivered /\ v \in Chunk
        BY <1>2, <1>4, <1>5, <2>1, <3>2 DEF AloneInv, ChunkInv, job
      <4>2. queued[v] # NoTarget
        BY <1>2, <2>1, <4>1 DEF Imported
      <4>3. read[v] \in Nat
        BY <1>9, <3>2, <4>1, <4>2
      <4>4. QED
        BY <1>8, <4>1, <4>3
    <3>3. QED
      BY <3>1, <3>2
  <2>2. QED
    BY <1>1, <2>1, NothingRedone DEF job
<1>18. MarkInv(catalogued)
  BY DEF ImportInv
<1>19. QED
  BY <1>1, <1>6, <1>7, <1>10, <1>12, <1>14, <1>15, <1>16, <1>17, <1>18 DEF ImportInv

LEMMA NextChunkKeeps ==
    ASSUME Understood, ImportInv, ImportStep, NextChunk
    PROVE  ImportInv'
<1> DEFINE job == import.job
           n == import.chunk
<1>1. /\ import.at = "next" /\ UNCHANGED <<catalogued, queued>>
      /\ import' = [import EXCEPT !.at = "rows", !.chunk = n + 1]
      /\ n < Len(job.list.chunks)
  BY DEF NextChunk
<1>2. /\ job \in Jobs /\ job.list \in Lists /\ n \in 1..Len(job.list.chunks)
      /\ Chunk = ChunkIds(job.list, n) /\ Chunk \subseteq LinkIds
  BY <1>1, Running
<1>3. /\ ImportTypes /\ import \in ImportType /\ "rows" \in ImportStages
      /\ import.read = NothingRead
      /\ PlaceInv("next", job, n, import.read, catalogued, queued, delivered)
  BY <1>1 DEF ImportInv, ImportTypes, PlaceInv, ImportStages
<1>4. Len(job.list.chunks) \in Nat
  BY <1>2 DEF Understood
<1> HIDE DEF job, n
<1>5. n + 1 \in 1..Len(job.list.chunks) /\ n + 1 \in Nat
  BY <1>1, <1>2, <1>4
<1>6. /\ import' \in ImportType /\ import'.at = "rows" /\ import'.job = import.job
      /\ import'.chunk = n + 1 /\ import'.read = import.read
      /\ import'.alone = import.alone
  BY <1>1, <1>3, <1>5 DEF ImportType
<1>7. /\ UNCHANGED <<delivered, counting, counted, completed>>
      /\ crossed' = crossed
  BY <1>1, StepLeaves
<1>8. ImportTypes'
  BY <1>1, <1>3, <1>6, <1>7 DEF ImportTypes
<1>9. PlaceInv("rows", job, n + 1, NothingRead, catalogued, queued, delivered)
  <2>1. ASSUME NEW m \in 1..n + 1 - 1, NEW v \in LinkIds, v \in ChunkIds(job.list, m)
        PROVE  Imported(v, job.origin, catalogued, queued, delivered)
    <3>1. m \in 1..n - 1 \/ m = n
      BY <1>2, <1>4
    <3>2. CASE m = n
      BY <1>3, <2>1, <3>2 DEF PlaceInv, ChunkInv
    <3>3. CASE m \in 1..n - 1
      BY <1>3, <2>1, <3>3 DEF PlaceInv
    <3>4. QED
      BY <3>1, <3>2, <3>3
  <2>2. ChunkInv("rows", job, n + 1, NothingRead, catalogued, queued, delivered)
    BY DEF ChunkInv
  <2>3. QED
    BY <1>2, <1>5, <2>1, <2>2 DEF PlaceInv
<1>10. redone' = {}
  BY <1>1, NothingRedone
<1>11. QED
  BY <1>1, <1>3, <1>6, <1>7, <1>8, <1>9, <1>10 DEF ImportInv, job

-----------------------------------------------------------------------------
LEMMA InitImport == ImportInit => ImportInv
<1> SUFFICES ASSUME ImportInit PROVE ImportInv
  OBVIOUS
<1>1. /\ import \in ImportType /\ import.at = "idle" /\ import.read = NothingRead
  BY IdleFields DEF ImportInit
<1>2. Unregistered \in LinkRow /\ Unregistered.datapods = FALSE
  BY DEF Unregistered, LinkRow
<1>3. ImportTypes
  BY <1>1, <1>2, ReadKinds DEF ImportInit, ImportTypes, Targets
<1>4. PlaceInv(import.at, import.job, import.chunk, import.read,
               catalogued, queued, delivered)
  BY <1>1 DEF PlaceInv
<1>5. /\ DoneInv(completed, catalogued, queued, delivered) /\ MarkInv(catalogued)
  BY <1>2 DEF ImportInit, DoneInv, MarkInv
<1>6. RankInv(queued, counted, import.read, counting, crossed)
  BY <1>1, ReadKinds DEF ImportInit, RankInv
<1>7. AloneInv(import.alone, import.read, queued, delivered)
  BY <1>1, ReadKinds DEF AloneInv
<1>8. QED
  BY <1>3, <1>4, <1>5, <1>6, <1>7 DEF ImportInv, ImportInit

LEMMA NextImport ==
    ASSUME Understood, ImportInv, [ImportNext]_importVars
    PROVE  ImportInv'
<1>1. CASE ImportStep
  BY <1>1, CreateKeeps, MarkKeeps, ReadTargetsKeeps, WriteTargetsKeeps,
     NextChunkKeeps DEF ImportStep
<1>2. CASE UNCHANGED importVars
  <2>1. /\ UNCHANGED <<catalogued, queued, delivered, import, counting, counted>>
        /\ UNCHANGED <<completed, crossed, redone>>
    BY <1>2 DEF importVars
  <2>2. QED
    BY <2>1 DEF ImportInv, ImportTypes
<1>3. CASE FinishImport \/ StopImport
  BY <1>3, EndKeeps
<1>4. CASE \E list \in Lists, origin \in Origins : StartImport(list, origin)
  BY <1>4, StartKeeps
<1>5. CASE \E v \in LinkIds : CountDonation(v) \/ DeliverVideo(v)
  BY <1>5, CountKeeps, DeliverKeeps
<1>6. CASE WriteDonation
  BY <1>6, WriteKeeps
<1>7. QED
  BY <1>1, <1>2, <1>3, <1>4, <1>5, <1>6 DEF ImportNext

\* Lists that stand for what their cells lead to are imported completely by a
\* run that comes to its end, next to donations, deliveries and runs that are
\* stopped anywhere; the counts of the queue stay those of the donations, but
\* where two writers crossed; and a run that repeats one changes nothing.
THEOREM ListsImported == ASSUME Understood PROVE ImportSpec => []ImportSound
<1>1. ImportInv => ImportSound
  BY DEF ImportInv, DoneInv, MarkInv, RankInv, Imported, ImportSound,
     ListImported, RankingKept
<1>2. ImportInv /\ [ImportNext]_importVars => ImportInv'
  BY NextImport
<1>3. QED
  BY <1>1, <1>2, InitImport, PTL DEF ImportSpec

-----------------------------------------------------------------------------
(* The bounds of the import's variables                                    *)

\* A mark moves updated_at once, in some run.
MovesIn(cat, most) ==
    \A v \in LinkIds : cat[v].moved <= most /\ (~cat[v].datapods => cat[v].moved = 0)

\* Nobody stores or reads more than was counted, and a donation is counted
\* only below the bound.
CountsIn(q, n, read, other) ==
    \A v \in LinkIds :
        /\ q[v] <= n[v] /\ read[v] <= n[v] /\ other[v] <= n[v] /\ n[v] <= CountLimit
        /\ other[v] # Skipped => n[v] < CountLimit

BoundInv ==
    /\ imports \in 0..ImportLimit /\ (import.at # "idle" => imports # 0)
    /\ MovesIn(catalogued, imports)
    /\ CountsIn(queued, counted, import.read, counting)
    /\ crossed \subseteq LinkIds

LEMMA RowsUnmoved ==
    ASSUME ImportTypes, NEW S, NEW origin, MovesIn(catalogued, imports)
    PROVE  MovesIn(WithRows(S, origin), imports)
<1> DEFINE r == [Unregistered EXCEPT !.origin = origin]
<1>1. /\ r.moved = Unregistered.moved /\ r.datapods = Unregistered.datapods
  BY DEF Unregistered
<1>2. \A v \in LinkIds :
          WithRows(S, origin)[v]
              = IF v \in S /\ catalogued[v] = Unregistered THEN r ELSE catalogued[v]
  BY DEF WithRows
<1> HIDE DEF r
<1>3. \A v \in LinkIds : /\ WithRows(S, origin)[v].moved = catalogued[v].moved
                         /\ WithRows(S, origin)[v].datapods = catalogued[v].datapods
  BY <1>1, <1>2
<1>4. QED
  BY <1>3 DEF MovesIn

LEMMA ReadsIn ==
    ASSUME ImportTypes, NEW S, CountsIn(queued, counted, import.read, counting)
    PROVE  /\ \A v \in LinkIds : CountsOf(S)[v] <= counted[v]
           /\ \A v \in LinkIds : NothingRead[v] <= counted[v] /\ NothingRead[v] = Skipped
<1>1. \A v \in LinkIds : counted[v] \in Nat /\ queued[v] <= counted[v]
  BY DEF ImportTypes, CountsIn
<1>2. \A v \in LinkIds : CountsOf(S)[v] = queued[v] \/ CountsOf(S)[v] = Skipped
  BY DEF CountsOf
<1>3. \A v \in LinkIds : Skipped <= counted[v]
  BY <1>1 DEF Skipped
<1>4. QED
  BY <1>1, <1>2, <1>3, ReadKinds

\* What a writer stores.
LEMMA WritesIn ==
    ASSUME ImportTypes, NEW read \in ReadTypes, NEW v \in LinkIds, NEW n \in Nat,
           queued[v] <= counted[v], read[v] <= counted[v]
    PROVE  IF read[v] = Skipped THEN Enqueued(read, n)[v] <= counted[v]
           ELSE Enqueued(read, n)[v] <= counted[v] + n
<1>1. /\ counted[v] \in Nat /\ queued[v] \in {NoTarget} \cup Nat
      /\ read[v] \in {Skipped, NoTarget} \cup Nat
  BY DEF ImportTypes, ReadTypes, Targets
<1>2. Enqueued(read, n)[v] = IF read[v] = Skipped THEN queued[v]
                             ELSE IF read[v] = NoTarget
                             THEN IF queued[v] = NoTarget THEN n ELSE queued[v]
                             ELSE read[v] + n
  BY ReadKinds DEF Enqueued
<1>3. NoTarget = -1 /\ Skipped = -2
  BY DEF NoTarget, Skipped
<1> DEFINE e == Enqueued(read, n)[v]
           c == counted[v]
           q == queued[v]
           r == read[v]
<1> HIDE DEF e, c, q, r
<1>4. IF r = Skipped THEN e <= c ELSE e <= c + n
  BY <1>1, <1>2, <1>3 DEF e, c, q, r
<1>5. QED
  BY <1>4 DEF e, c, r

LEMMA ImportBound ==
    ASSUME ImportInv, BoundInv, ImportStep
    PROVE  BoundInv'
<1>1. /\ ImportTypes /\ import \in ImportType /\ imports' = imports
      /\ imports \in 0..ImportLimit /\ MovesIn(catalogued, imports)
      /\ CountsIn(queued, counted, import.read, counting)
      /\ import.read \in ReadTypes
  BY DEF ImportInv, ImportTypes, BoundInv, ImportStep, ImportType
<1>2. UNCHANGED <<counted, counting>> /\ import.at # "idle"
  <2>1. UNCHANGED <<counted, counting>>
    BY StepLeaves
  <2>2. import.at \in {"rows", "mark", "read", "write", "next"}
    <3>1. CASE CreateRows
      BY <3>1 DEF CreateRows
    <3>2. CASE MarkListed
      BY <3>2, Zenon DEF MarkListed
    <3>3. CASE ReadTargets
      BY <3>3 DEF ReadTargets
    <3>4. CASE WriteTargets
      BY <3>4 DEF WriteTargets
    <3>5. CASE NextChunk
      BY <3>5 DEF NextChunk
    <3>6. QED
      BY <3>1, <3>2, <3>3, <3>4, <3>5 DEF ImportStep
  <2>3. QED
    BY <2>1, <2>2
<1>3. imports # 0
  BY <1>2 DEF BoundInv
<1>4. crossed' \subseteq LinkIds
  BY StepLeaves DEF BoundInv, InMemory
<1>5. /\ \A S, v : v \in LinkIds => CountsOf(S)[v] <= counted[v]
      /\ \A v \in LinkIds : NothingRead[v] <= counted[v] /\ NothingRead[v] = Skipped
  BY <1>1, ReadsIn
<1>6. MovesIn(catalogued', imports)
  <2>1. CASE CreateRows
    BY <1>1, <2>1, RowsUnmoved DEF CreateRows
  <2>2. CASE MarkListed
    <3> SUFFICES ASSUME NEW v \in LinkIds
                 PROVE  /\ catalogued'[v].moved <= imports
                        /\ ~catalogued'[v].datapods => catalogued'[v].moved = 0
      BY DEF MovesIn
    <3> DEFINE r == catalogued[v]
               s == [r EXCEPT !.datapods = TRUE, !.moved = @ + 1]
    <3>1. r \in LinkRow /\ r.moved <= imports /\ (~r.datapods => r.moved = 0)
      BY <1>1 DEF ImportTypes, MovesIn
    <3>2. catalogued'[v] = r \/ (~r.datapods /\ catalogued'[v] = s)
      <4>1. catalogued' = [w \in LinkIds |->
                IF import.job.origin = "DATAPODS" /\ w \in Unmarked(Chunk)
                THEN [catalogued[w] EXCEPT !.datapods = TRUE, !.moved = @ + 1]
                ELSE catalogued[w]]
        BY <2>2 DEF MarkListed
      <4>2. catalogued'[v] = IF import.job.origin = "DATAPODS" /\ v \in Unmarked(Chunk)
                             THEN s ELSE r
        BY <4>1
      <4> HIDE DEF s
      <4>3. QED
        BY <4>2 DEF Unmarked
    <3> HIDE DEF r
    <3>3. s.datapods = TRUE /\ s.moved = r.moved + 1
      <4> DEFINE q == [r EXCEPT !.datapods = TRUE]
      <4>1. q \in LinkRow /\ q.datapods = TRUE /\ q.moved = r.moved
        BY <3>1 DEF LinkRow
      <4>2. s = [q EXCEPT !.moved = r.moved + 1]
        BY <3>1 DEF LinkRow
      <4> HIDE DEF q, s
      <4>3. QED
        BY <4>1, <4>2 DEF LinkRow
    <3> HIDE DEF s
    <3>4. r.datapods \in BOOLEAN /\ r.moved \in Nat
      BY <3>1 DEF LinkRow
    <3>5. CASE catalogued'[v] = r
      BY <3>1, <3>5
    <3>6. CASE ~r.datapods /\ catalogued'[v] = s
      <4>1. catalogued'[v].datapods = TRUE /\ catalogued'[v].moved = 1
        BY <3>1, <3>3, <3>6
      <4>2. QED
        BY <1>1, <1>3, <4>1
    <3>7. QED
      BY <3>2, <3>5, <3>6
  <2>3. CASE ReadTargets \/ WriteTargets \/ NextChunk
    BY <1>1, <2>3 DEF ReadTargets, WriteTargets, NextChunk
  <2>4. QED
    BY <2>1, <2>2, <2>3 DEF ImportStep
<1>7. CountsIn(queued', counted, import'.read, counting)
  <2>1. CASE CreateRows \/ MarkListed \/ NextChunk
    <3>1. queued' = queued /\ import'.read = import.read
      <4>1. CASE CreateRows
        BY <1>1, <4>1 DEF CreateRows, GoOn, ImportType
      <4>2. CASE MarkListed
        <5>1. queued' = queued /\ import' = [import EXCEPT !.at = "read"]
          BY <4>2 DEF MarkListed, GoOn
        <5>2. QED
          BY <1>1, <5>1 DEF ImportType
      <4>3. CASE NextChunk
        BY <1>1, <4>3 DEF NextChunk, ImportType
      <4>4. QED
        BY <2>1, <4>1, <4>2, <4>3
    <3>2. QED
      BY <1>1, <3>1
  <2>2. CASE ReadTargets
    <3>1. queued' = queued /\ import'.read = CountsOf(Chunk)
      BY <1>1, <2>2 DEF ReadTargets, ImportType
    <3>2. QED
      BY <1>1, <1>5, <3>1 DEF CountsIn
  <2>3. CASE WriteTargets
    <3>1. queued' = Enqueued(import.read, 0) /\ import'.read = NothingRead
      BY <1>1, <2>3 DEF WriteTargets, ImportType
    <3>2. \A v \in LinkIds : queued'[v] <= counted[v]
      <4> SUFFICES ASSUME NEW v \in LinkIds PROVE queued'[v] <= counted[v]
        OBVIOUS
      <4>1. queued[v] <= counted[v] /\ import.read[v] <= counted[v] /\ counted[v] \in Nat
        BY <1>1 DEF CountsIn, ImportTypes
      <4>2. queued'[v] <= counted[v] \/ queued'[v] <= counted[v] + 0
        BY <1>1, <3>1, <4>1, WritesIn
      <4>3. QED
        BY <4>1, <4>2
    <3>3. QED
      BY <1>1, <1>5, <3>1, <3>2 DEF CountsIn
  <2>4. QED
    BY <2>1, <2>2, <2>3 DEF ImportStep
<1>8. QED
  BY <1>1, <1>2, <1>3, <1>4, <1>6, <1>7 DEF BoundInv

LEMMA OthersBound ==
    ASSUME ImportInv, BoundInv,
           WriteDonation \/ \E v \in LinkIds : CountDonation(v) \/ DeliverVideo(v)
    PROVE  BoundInv'
<1>1. /\ ImportTypes /\ import \in ImportType /\ imports' = imports
      /\ imports \in 0..ImportLimit /\ MovesIn(catalogued, imports)
      /\ CountsIn(queued, counted, import.read, counting)
      /\ counting \in ReadTypes
      /\ import' = [import EXCEPT !.alone = FALSE]
  BY DEF ImportInv, ImportTypes, BoundInv, WriteDonation, CountDonation, DeliverVideo, NotAlone
<1>2. import'.at = import.at /\ import'.read = import.read
  BY <1>1, FieldsKept
<1>3. imports' \in 0..ImportLimit /\ (import'.at # "idle" => imports' # 0)
  BY <1>1, <1>2 DEF BoundInv
<1>4. /\ \A S, v : v \in LinkIds => CountsOf(S)[v] <= counted[v]
      /\ \A v \in LinkIds : NothingRead[v] <= counted[v] /\ NothingRead[v] = Skipped
  BY <1>1, ReadsIn
<1>5. ASSUME NEW v \in LinkIds, CountDonation(v) PROVE BoundInv'
  <2>1. /\ catalogued' = WithRows({v}, "DONATION") /\ counting' = CountsOf({v})
        /\ counted[v] < CountLimit /\ UNCHANGED <<queued, counted, crossed>>
    BY <1>5 DEF CountDonation
  <2>2. \A w \in LinkIds : counting'[w] # Skipped => w = v
    BY <2>1 DEF CountsOf
  <2>3. CountsIn(queued, counted, import.read, counting')
    BY <1>1, <1>4, <2>1, <2>2 DEF CountsIn
  <2>4. MovesIn(catalogued', imports)
    BY <1>1, <2>1, RowsUnmoved
  <2>5. QED
    BY <1>1, <1>2, <1>3, <2>1, <2>3, <2>4 DEF BoundInv
<1>6. ASSUME NEW v \in LinkIds, DeliverVideo(v) PROVE BoundInv'
  <2>1. /\ catalogued' = WithRows({v}, "RESEARCH_API")
        /\ UNCHANGED <<queued, counting, counted, crossed>>
    BY <1>6 DEF DeliverVideo
  <2>2. MovesIn(catalogued', imports)
    BY <1>1, <2>1, RowsUnmoved
  <2>3. QED
    BY <1>1, <1>2, <1>3, <2>1, <2>2 DEF BoundInv
<1>7. ASSUME WriteDonation PROVE BoundInv'
  <2>1. /\ queued' = Enqueued(counting, 1) /\ catalogued' = catalogued
        /\ counted' = [v \in LinkIds |->
                          counted[v] + IF v \in InMemory(counting) THEN 1 ELSE 0]
        /\ crossed' = crossed \cup (InMemory(counting) \cap InMemory(import.read))
        /\ counting' = NothingRead
    BY <1>7 DEF WriteDonation
  <2>2. ASSUME NEW v \in LinkIds
        PROVE  /\ queued'[v] <= counted'[v] /\ import.read[v] <= counted'[v]
               /\ counting'[v] <= counted'[v] /\ counted'[v] <= CountLimit
               /\ counting'[v] = Skipped
    <3>1. /\ queued[v] <= counted[v] /\ import.read[v] <= counted[v]
          /\ counting[v] <= counted[v] /\ counted[v] <= CountLimit
          /\ counting[v] # Skipped => counted[v] < CountLimit
          /\ counted[v] \in Nat /\ import.read[v] \in Int /\ CountLimit \in Nat
      <4>1. import.read[v] \in {Skipped, NoTarget} \cup Nat
        BY <1>1 DEF ImportType, ReadTypes, Targets
      <4>2. import.read[v] \in Int
        BY <4>1 DEF Skipped, NoTarget
      <4>3. QED
        BY <1>1, <4>2, ImportBounds DEF CountsIn, ImportTypes
    <3>2. counting'[v] = Skipped /\ counting'[v] <= counted[v] /\ counting'[v] \in Int
      BY <1>4, <2>1 DEF Skipped
    <3>3. queued'[v] \in Int
      <4>1. Enqueued(counting, 1) \in [LinkIds -> Targets]
        BY <1>1, EnqueuedAdds, ReadKinds
      <4>2. QED
        BY <2>1, <4>1 DEF Targets, NoTarget
    <3>4. counted'[v] = IF counting[v] # Skipped THEN counted[v] + 1 ELSE counted[v]
      BY <2>1, <3>1 DEF InMemory
    <3>5. IF counting[v] = Skipped THEN queued'[v] <= counted[v]
          ELSE queued'[v] <= counted[v] + 1
      BY <1>1, <2>1, <3>1, WritesIn, ReadKinds
    <3>6. QED
      BY <3>1, <3>2, <3>3, <3>4, <3>5
  <2>3. CountsIn(queued', counted', import.read, counting')
    BY <2>2 DEF CountsIn
  <2>4. crossed' \subseteq LinkIds
    BY <2>1 DEF BoundInv, InMemory
  <2>5. QED
    BY <1>1, <1>2, <1>3, <2>1, <2>3, <2>4 DEF BoundInv
<1>8. QED
  BY <1>5, <1>6, <1>7

LEMMA BoundStep ==
    ASSUME Understood, ImportInv, BoundInv, [ImportNext]_importVars
    PROVE  BoundInv'
<1>1. CASE \E list \in Lists, origin \in Origins : StartImport(list, origin)
  <2>1. PICK job : import' = [Idle EXCEPT !.at = "rows", !.job = job]
    BY <1>1 DEF StartImport
  <2>2. /\ imports < ImportLimit /\ imports' = imports + 1
        /\ UNCHANGED <<catalogued, queued, counting, counted, crossed>>
    BY <1>1 DEF StartImport
  <2>3. import'.read = NothingRead
    BY <2>1 DEF Idle
  <2>4. imports' \in 0..ImportLimit /\ imports' # 0 /\ imports <= imports'
    BY <2>2, ImportBounds DEF BoundInv
  <2>5. MovesIn(catalogued, imports')
    <3>1. \A v \in LinkIds : catalogued[v].moved \in Nat /\ catalogued[v].moved <= imports
      BY DEF ImportInv, ImportTypes, LinkRow, BoundInv, MovesIn
    <3>2. imports \in Nat /\ imports' \in Nat
      BY <2>4 DEF BoundInv
    <3>3. \A v \in LinkIds : catalogued[v].moved <= imports'
      BY <2>4, <3>1, <3>2
    <3>4. QED
      BY <3>3 DEF BoundInv, MovesIn
  <2>6. CountsIn(queued, counted, NothingRead, counting)
    BY ReadsIn DEF ImportInv, BoundInv, CountsIn
  <2>7. QED
    BY <2>2, <2>3, <2>4, <2>5, <2>6 DEF BoundInv
<1>2. CASE ImportStep
  BY <1>2, ImportBound
<1>3. CASE FinishImport \/ StopImport
  <2>1. /\ import' = Idle /\ UNCHANGED <<catalogued, queued, imports>>
        /\ UNCHANGED <<counting, counted, crossed>>
    BY <1>3 DEF FinishImport, StopImport
  <2>2. import'.at = "idle" /\ import'.read = NothingRead
    BY <2>1 DEF Idle
  <2>3. CountsIn(queued, counted, NothingRead, counting)
    BY ReadsIn DEF ImportInv, BoundInv, CountsIn
  <2>4. QED
    BY <2>1, <2>2, <2>3 DEF BoundInv
<1>4. CASE WriteDonation \/ \E v \in LinkIds : CountDonation(v) \/ DeliverVideo(v)
  BY <1>4, OthersBound
<1>5. CASE UNCHANGED importVars
  BY <1>5 DEF importVars, BoundInv
<1>6. QED
  BY <1>1, <1>2, <1>3, <1>4, <1>5 DEF ImportNext

LEMMA BoundInit == ImportInit => BoundInv
<1> SUFFICES ASSUME ImportInit PROVE BoundInv
  OBVIOUS
<1>1. imports \in 0..ImportLimit /\ import.at = "idle" /\ import.read = NothingRead
  BY ImportBounds DEF ImportInit, Idle
<1>2. MovesIn(catalogued, imports)
  <2>1. Unregistered.moved = 0
    BY DEF Unregistered
  <2>2. QED
    BY <2>1 DEF ImportInit, MovesIn
<1>3. CountsIn(queued, counted, import.read, counting)
  <2>1. \A v \in LinkIds : /\ queued[v] = -1 /\ counted[v] = 0 /\ import.read[v] = -2
                           /\ counting[v] = Skipped /\ counting[v] = -2
    BY <1>1, ReadKinds DEF ImportInit, NoTarget, Skipped
  <2>2. QED
    BY <2>1, ImportBounds DEF CountsIn
<1>4. QED
  BY <1>1, <1>2, <1>3 DEF BoundInv, ImportInit

LEMMA BoundsGiveTypes ==
    ASSUME ImportInv, BoundInv
    PROVE  ImportTypeOK
<1>1. /\ ImportTypes /\ MovesIn(catalogued, imports) /\ imports \in 0..ImportLimit
      /\ CountsIn(queued, counted, import.read, counting) /\ import \in ImportType
  BY DEF ImportInv, BoundInv, ImportTypes
<1>2. CountLimit \in Nat /\ ImportLimit \in Nat /\ Skipped = -2 /\ NoTarget = -1
  BY ImportBounds DEF Skipped, NoTarget
<1>3. \A v \in LinkIds : catalogued[v].moved \in 0..ImportLimit
  <2>1. \A v \in LinkIds : catalogued[v].moved \in Nat /\ catalogued[v].moved <= imports
    BY <1>1 DEF ImportTypes, LinkRow, MovesIn
  <2>2. QED
    BY <1>1, <1>2, <2>1
<1>4. catalogued \in [LinkIds -> [origin : Origins \cup {"none", "DONATION", "RESEARCH_API"},
                                  datapods : BOOLEAN, moved : 0..ImportLimit]]
  BY <1>1, <1>3 DEF ImportTypes, LinkRow
<1>5. ASSUME NEW v \in LinkIds
      PROVE  /\ counted[v] \in 0..CountLimit /\ queued[v] \in NoTarget..CountLimit
             /\ import.read[v] \in Skipped..CountLimit /\ counting[v] \in Skipped..CountLimit
  <2>1. /\ counted[v] \in Nat /\ queued[v] \in {-1} \cup Nat
        /\ import.read[v] \in {-2, -1} \cup Nat /\ counting[v] \in {-2, -1} \cup Nat
    BY <1>1, <1>2 DEF ImportTypes, ImportType, ReadTypes, Targets
  <2>2. /\ queued[v] <= counted[v] /\ import.read[v] <= counted[v]
        /\ counting[v] <= counted[v] /\ counted[v] <= CountLimit
    BY <1>1 DEF CountsIn
  <2>3. QED
    BY <1>2, <2>1, <2>2
<1>6. /\ counted \in [LinkIds -> 0..CountLimit] /\ queued \in [LinkIds -> NoTarget..CountLimit]
      /\ import.read \in [LinkIds -> Skipped..CountLimit]
      /\ counting \in [LinkIds -> Skipped..CountLimit]
  BY <1>1, <1>5 DEF ImportTypes, ImportType, ReadTypes
<1>7. /\ import.at \in {"idle", "rows", "mark", "read", "write", "next"}
      /\ delivered \subseteq LinkIds /\ crossed \subseteq LinkIds /\ redone = {}
  BY <1>1 DEF ImportInv, BoundInv, ImportTypes, ImportType, ImportStages
<1>8. QED
  BY <1>4, <1>6, <1>7 DEF ImportTypeOK

\* Every variable of the import keeps its type: updated_at is moved at most
\* once a run, and no count, stored or in a writer's memory, passes what was
\* counted.
THEOREM ImportTyped == ASSUME Understood PROVE ImportSpec => []ImportTypeOK
<1>1. ImportInit => ImportInv /\ BoundInv
  BY InitImport, BoundInit
<1>2. ImportInv /\ BoundInv /\ [ImportNext]_importVars => ImportInv' /\ BoundInv'
  BY NextImport, BoundStep
<1>3. ImportInv /\ BoundInv => ImportTypeOK
  BY BoundsGiveTypes
<1>4. QED
  BY <1>1, <1>2, <1>3, PTL DEF ImportSpec
=============================================================================
