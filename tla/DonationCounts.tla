---------------------------- MODULE DonationCounts ----------------------------
(****************************************************************************)
(* How donations are counted per video: in the donation infos and in the   *)
(* ranking of the scrape queue.  Counts are read, raised in memory and     *)
(* written back, by the task that processes a new donation (tried again    *)
(* when it fails), by the command that counts all donations from scratch,  *)
(* and, as part of whole rows, by a scraper that marks targets.            *)
(* Source: ddcs/metadata/donations/service.py, the queueing half of        *)
(* ddcs/metadata/scraper/service.py, ddcs/datadonation/tasks.py and the    *)
(* command record_donated_videos.                                          *)
(*                                                                          *)
(* A donation fits one chunk, shows a video or more, all within the watch   *)
(* window, and no video is covered by the Research API.  The three kinds   *)
(* of interaction are counted alike: one count stands for them.            *)
(****************************************************************************)
EXTENDS Integers, FiniteSets

CONSTANTS
    Donors,       \* participants that donate once
    Excluded,     \* test participants the command leaves out
    Videos,
    Command,      \* the command, as opposed to the donors' tasks
    MaxRetries,   \* how often a failed task is tried again
    RunLimit      \* bound: runs of the command

ASSUME DonorsAssumption ==
    /\ IsFiniteSet(Donors) /\ Excluded \subseteq Donors
    /\ Command \notin Donors
ASSUME LimitsAssumption == MaxRetries \in Nat /\ RunLimit \in Nat

VARIABLES
    shows,       \* the videos each donation shows
    donated,     \* the donors whose donation is stored
    rows,        \* the videos that have a row, in each table
    count,       \* the count in that row
    at,          \* what each writer of counts is at
    doing,       \* the donation it is counting
    fresh,       \* the videos it found no row for
    raised,      \* the counts it is about to write
    tries,       \* how often each task has been tried again
    registered,  \* the donations whose task got past the queue
    command,     \* what the command is at
    scan,        \* the donations it has yet to count
    doomed,      \* the rows it has listed for deletion
    outcome,     \* whether it has read donations, and failed to read some
    runs,        \* the number of its runs
    inMemory,    \* the targets a scraper has in memory
    remembered,  \* their counts, as it read them
    quiet,       \* no donation came, went or was processed during the run
    alone        \* and no scraper had targets in memory

tableVars == <<rows, count>>
writerVars == <<at, doing, fresh, raised>>
taskVars == <<tries, registered>>
commandVars == <<command, scan, doomed, outcome, runs>>
scraperVars == <<inMemory, remembered>>
vars == <<shows, donated, tableVars, writerVars, taskVars, commandVars,
          scraperVars, quiet, alone>>

Tables == {"infos", "queue"}
Writers == Donors \cup {Command}
\* Before a table's counts are read, before they are written back; report:
\* what follows the counting.
Reading == [infos |-> "read infos", queue |-> "read queue"]
Writing == [infos |-> "write infos", queue |-> "write queue"]
Places == {"idle", "report"} \cup {Reading[tb] : tb \in Tables}
              \cup {Writing[tb] : tb \in Tables}

-----------------------------------------------------------------------------
(****************************************************************************)
(* Helpers                                                                 *)
(****************************************************************************)

\* The donations that should count for a video.
Backing(v) == {d \in donated \ Excluded : v \in shows[d]}

\* The videos a table has a row for.  Mistake: donated before is queued.
KnownMistaken(tb) == rows["infos"]
Known(tb) == rows[tb]

\* What bulk_create with ignore_conflicts and bulk_update leave of a table:
\* new rows are created unless there is one by now, existing ones get the
\* count worked out in memory, and those deleted since stay deleted.  (The
\* queue's two statements are not one transaction, but touch different rows.)
Created(w, tb) == fresh[w] \ rows[tb]

Written(w, tb) ==
    [v \in Videos |->
        IF v \in Created(w, tb) THEN 1
        ELSE IF v \in (shows[doing[w]] \ fresh[w]) \cap rows[tb]
             THEN raised[w][v]
             ELSE count[tb][v]]

NoCounts == [v \in Videos |-> 0]

\* The writer goes on to place, its memory empty.
GoTo(w, place) ==
    /\ at' = [at EXCEPT ![w] = place]
    /\ fresh' = [fresh EXCEPT ![w] = {}]
    /\ raised' = [raised EXCEPT ![w] = NoCounts]

Init ==
    /\ shows \in [Donors -> (SUBSET Videos) \ {{}}]
    /\ donated = {}
    /\ rows = [tb \in Tables |-> {}]
    /\ count = [tb \in Tables |-> NoCounts]
    /\ at = [w \in Writers |-> "idle"]
    /\ doing = [w \in Writers |-> w]
    /\ fresh = [w \in Writers |-> {}]
    /\ raised = [w \in Writers |-> NoCounts]
    /\ tries = [d \in Donors |-> 0]
    /\ registered = {}
    /\ command = "idle" /\ scan = {} /\ doomed = {} /\ runs = 0
    /\ outcome = {}
    /\ inMemory = {} /\ remembered = NoCounts
    /\ quiet = FALSE /\ alone = FALSE

-----------------------------------------------------------------------------
(****************************************************************************)
(* Counting one donation: record_donated_videos, then                      *)
(* enqueue_donated_videos                                                  *)
(****************************************************************************)

Read(w, tb) ==
    /\ at[w] = Reading[tb]
    /\ at' = [at EXCEPT ![w] = Writing[tb]]
    /\ fresh' = [fresh EXCEPT ![w] = shows[doing[w]] \ Known(tb)]
    /\ raised' = [raised EXCEPT ![w] =
           [v \in Videos |-> IF v \in shows[doing[w]] \cap Known(tb)
                             THEN count[tb][v] + 1 ELSE 0]]
    /\ UNCHANGED <<shows, donated, tableVars, doing, taskVars, commandVars,
                   scraperVars, quiet, alone>>

Write(w, tb) ==
    /\ at[w] = Writing[tb]
    /\ rows' = [rows EXCEPT ![tb] = @ \cup Created(w, tb)]
    /\ count' = [count EXCEPT ![tb] = Written(w, tb)]
    /\ GoTo(w, IF tb = "infos" THEN Reading.queue
               ELSE IF w = Command THEN "idle" ELSE "report")
    /\ doing' = IF tb = "queue" THEN [doing EXCEPT ![w] = w] ELSE doing
    /\ UNCHANGED <<shows, donated, taskVars, commandVars, scraperVars,
                   quiet, alone>>

-----------------------------------------------------------------------------
(****************************************************************************)
(* The task process_donation                                               *)
(****************************************************************************)

\* A donation comes in and its task starts.
Donate(d) ==
    /\ d \notin donated /\ at[d] = "idle" /\ d \notin registered
    /\ tries[d] = 0
    /\ donated' = donated \cup {d}
    /\ GoTo(d, Reading.infos)
    /\ quiet' = FALSE
    /\ UNCHANGED <<shows, tableVars, doing, taskVars, commandVars, scraperVars,
                   alone>>

\* The reports are made: the task is done.
Finish(d) ==
    /\ at[d] = "report"
    /\ registered' = registered \cup {d}
    /\ tries' = [tries EXCEPT ![d] = 0]
    /\ GoTo(d, "idle")
    /\ UNCHANGED <<shows, donated, tableVars, doing, commandVars,
                   scraperVars, quiet, alone>>

\* Any step of the task may fail, or its worker be lost: it is tried again
\* from the start, a few times.
Fail(d) ==
    /\ at[d] # "idle"
    /\ IF tries[d] < MaxRetries
       THEN /\ tries' = [tries EXCEPT ![d] = @ + 1]
            /\ GoTo(d, Reading.infos)
       ELSE GoTo(d, "idle") /\ UNCHANGED tries
    /\ UNCHANGED <<shows, donated, tableVars, doing, registered, commandVars,
                   scraperVars, quiet, alone>>

\* A stored donation is deleted.
Withdraw(d) ==
    /\ d \in donated /\ at[d] = "idle" /\ d \in registered
    /\ donated' = donated \ {d}
    /\ quiet' = FALSE
    /\ UNCHANGED <<shows, tableVars, writerVars, taskVars, commandVars,
                   scraperVars, alone>>

-----------------------------------------------------------------------------
(****************************************************************************)
(* The command record_donated_videos                                       *)
(****************************************************************************)

Rerun ==
    /\ command \in {"idle", "done"} /\ runs < RunLimit
    /\ runs' = runs + 1
    /\ command' = "reset infos"
    /\ quiet' = \A d \in Donors : at[d] = "idle"
    /\ alone' = (inMemory = {})
    /\ UNCHANGED <<shows, donated, tableVars, writerVars, taskVars, scan,
                   doomed, outcome, scraperVars>>

Counted(tb) == {v \in rows[tb] : count[tb][v] > 0}

\* One chunk of reset_donation_counts, and of reset_queue_ranking.
ResetChunk(tb, S) ==
    /\ command = IF tb = "infos" THEN "reset infos" ELSE "reset queue"
    /\ S # {} /\ S \subseteq Counted(tb)
    /\ count' = [count EXCEPT ![tb] =
           [v \in Videos |-> IF v \in S THEN 0 ELSE @[v]]]
    /\ UNCHANGED <<shows, donated, rows, writerVars, taskVars, commandVars,
                   scraperVars, quiet, alone>>

ResetQueueNext ==
    /\ command = "reset infos" /\ Counted("infos") = {}
    /\ command' = "reset queue"
    /\ UNCHANGED <<shows, donated, tableVars, writerVars, taskVars, scan,
                   doomed, outcome, runs, scraperVars, quiet, alone>>

\* Mistake: the ranking of the queue is not reset.
StartScanMistaken ==
    /\ command = "reset queue"
    /\ command' = "scan"
    /\ scan' = donated \ Excluded
    /\ outcome' = {}
    /\ UNCHANGED <<shows, donated, tableVars, writerVars, taskVars, doomed,
                   runs, scraperVars, quiet, alone>>

StartScan ==
    /\ command = "reset queue" /\ Counted("queue") = {}
    /\ command' = "scan"
    /\ scan' = donated \ Excluded
    /\ outcome' = {}
    /\ UNCHANGED <<shows, donated, tableVars, writerVars, taskVars, doomed,
                   runs, scraperVars, quiet, alone>>

\* The next donation, which can be read and is counted like a new one (if it
\* is still there) ...
ScanNext(d) ==
    /\ command = "scan" /\ at[Command] = "idle" /\ d \in scan
    /\ scan' = scan \ {d}
    /\ outcome' = outcome \cup {"read"}
    /\ IF d \in donated
       THEN /\ doing' = [doing EXCEPT ![Command] = d]
            /\ GoTo(Command, Reading.infos)
       ELSE UNCHANGED writerVars
    /\ UNCHANGED <<shows, donated, tableVars, taskVars, command, doomed, runs,
                   scraperVars, quiet, alone>>

\* ... or cannot.
SkipUnreadable(d) ==
    /\ command = "scan" /\ at[Command] = "idle" /\ d \in scan
    /\ scan' = scan \ {d}
    /\ outcome' = outcome \cup {"unreadable"}
    /\ UNCHANGED <<shows, donated, tableVars, writerVars, taskVars, command,
                   doomed, runs, scraperVars, quiet, alone>>

\* Rows are purged only if donations were read, every one of them.
EndScan ==
    /\ command = "scan" /\ at[Command] = "idle" /\ scan = {}
    /\ command' = IF outcome = {"read"}
                  THEN "purge" ELSE "done"
    /\ UNCHANGED <<shows, donated, tableVars, writerVars, taskVars, scan,
                   doomed, outcome, runs, scraperVars, quiet, alone>>

\* purge_unbacked_donation_infos lists the rows that count nothing, ...
Uncounted == {v \in rows["infos"] : count["infos"][v] = 0}

PurgeList(S) ==
    /\ command = "purge" /\ doomed = {}
    /\ S \subseteq Uncounted
    /\ S = {} <=> Uncounted = {}
    /\ IF S = {} THEN command' = "done" ELSE UNCHANGED command
    /\ doomed' = S
    /\ UNCHANGED <<shows, donated, tableVars, writerVars, taskVars, scan,
                   outcome, runs, scraperVars, quiet, alone>>

\* ... and deletes what it has listed.
PurgeDelete ==
    /\ command = "purge" /\ doomed # {}
    /\ rows' = [rows EXCEPT !["infos"] = @ \ doomed]
    /\ count' = [count EXCEPT !["infos"] =
           [v \in Videos |-> IF v \in doomed THEN 0 ELSE @[v]]]
    /\ doomed' = {}
    /\ UNCHANGED <<shows, donated, writerVars, taskVars, command, scan,
                   outcome, runs, scraperVars, quiet, alone>>

\* The command is stopped at any point.
InterruptCommand ==
    /\ command \notin {"idle", "done"}
    /\ command' = "idle" /\ scan' = {} /\ doomed' = {}
    /\ outcome' = {}
    /\ GoTo(Command, "idle")
    /\ doing' = [doing EXCEPT ![Command] = Command]
    /\ quiet' = FALSE /\ alone' = FALSE
    /\ UNCHANGED <<shows, donated, tableVars, taskVars, runs, scraperVars>>

-----------------------------------------------------------------------------
(****************************************************************************)
(* A scraper: its batch is read, and each row saved when it is marked      *)
(****************************************************************************)

ScraperReads(S) ==
    /\ inMemory = {} /\ S # {} /\ S \subseteq rows["queue"]
    /\ inMemory' = S
    /\ remembered' = [v \in Videos |-> IF v \in S THEN count["queue"][v] ELSE 0]
    /\ alone' = FALSE
    /\ UNCHANGED <<shows, donated, tableVars, writerVars, taskVars,
                   commandVars, quiet>>

\* _mark saves all fields of the row.
ScraperSaves(v) ==
    /\ v \in inMemory
    /\ inMemory' = inMemory \ {v}
    /\ remembered' = [remembered EXCEPT ![v] = 0]
    /\ count' = [count EXCEPT !["queue"] =
           [@ EXCEPT ![v] = remembered[v]]]
    /\ UNCHANGED <<shows, donated, rows, writerVars, taskVars, commandVars,
                   quiet, alone>>

\* A target that is not worked on is released without its row being saved.
ScraperReleases ==
    /\ inMemory # {}
    /\ inMemory' = {} /\ remembered' = NoCounts
    /\ UNCHANGED <<shows, donated, tableVars, writerVars, taskVars,
                   commandVars, quiet, alone>>

-----------------------------------------------------------------------------
Next ==
    \/ \E w \in Writers, tb \in Tables : Read(w, tb) \/ Write(w, tb)
    \/ \E d \in Donors :
           \/ Donate(d) \/ Finish(d) \/ Fail(d) \/ Withdraw(d)
           \/ ScanNext(d) \/ SkipUnreadable(d)
    \/ Rerun
    \/ \E tb \in Tables, S \in SUBSET Videos : ResetChunk(tb, S)
    \/ ResetQueueNext \/ StartScan \/ EndScan
    \/ \E S \in SUBSET Videos : PurgeList(S) \/ ScraperReads(S)
    \/ PurgeDelete \/ InterruptCommand
    \/ \E v \in Videos : ScraperSaves(v)
    \/ ScraperReleases

Spec == Init /\ [][Next]_vars

-----------------------------------------------------------------------------
(****************************************************************************)
(* Properties                                                              *)
(****************************************************************************)

\* Every variable holds a value of its type.
TypeOK ==
    /\ shows \in [Donors -> SUBSET Videos] /\ donated \in SUBSET Donors
    /\ rows \in [Tables -> SUBSET Videos]
    /\ count \in [Tables -> [Videos -> Nat]]
    /\ at \in [Writers -> Places] /\ doing \in [Writers -> Writers]
    /\ fresh \in [Writers -> SUBSET Videos]
    /\ raised \in [Writers -> [Videos -> Nat]]
    /\ tries \in [Donors -> 0..MaxRetries]
    /\ registered \in SUBSET Donors
    /\ command \in {"idle", "reset infos", "reset queue", "scan", "purge",
                    "done"}
    /\ scan \in SUBSET Donors /\ doomed \in SUBSET Videos
    /\ outcome \in SUBSET {"read", "unreadable"}
    /\ runs \in 0..RunLimit
    /\ inMemory \in SUBSET Videos /\ remembered \in [Videos -> Nat]
    /\ quiet \in BOOLEAN /\ alone \in BOOLEAN

\* The counts are those of the donations that should count, each once.
Exact(tb) == \A v \in Videos : count[tb][v] = Cardinality(Backing(v))

\* The run of the command that just ended could read every donation.
CompleteRun == command = "done" /\ "unreadable" \notin outcome

\* A complete run no donation came in between brings the counts back in
\* line, whatever was counted twice, lost or left behind by interrupted runs
\* before it; those of the queue too if no scraper was at work.  It leaves
\* no infos nobody's donation backs.
RecountExact ==
    CompleteRun /\ quiet =>
        /\ Exact("infos")
        /\ alone => Exact("queue")
        /\ "read" \in outcome =>
               rows["infos"] = {v \in Videos : Backing(v) # {}}

\* Once a donation is processed, all its videos are in the queue and stay
\* there: no concurrent task, recount or retry makes one be left out.
ProcessedIsQueued ==
    \A d \in registered : shows[d] \subseteq rows["queue"]

\* The documentation: the command brings the counts of the queue back in
\* line, and the scraper can keep running in the meantime.
RecountDespiteScraper == CompleteRun /\ quiet => Exact("queue")
=============================================================================
