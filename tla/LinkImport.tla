------------------------------- MODULE LinkImport -------------------------------
(****************************************************************************)
(* The command that imports a list of video links, chunk by chunk: it       *)
(* creates the rows that are missing, marks the listed videos (a list of    *)
(* Datapods), and queues them for scraping, next to donations that queue    *)
(* the same videos and the Research API that delivers them.                 *)
(* Source: ddcs/metadata/management/commands/import_video_links.py, and     *)
(* what it calls in utils.py and scraper/service.py of ddcs/metadata.       *)
(*                                                                          *)
(* The command holds no transaction: every statement is committed by        *)
(* itself.  Of a target only its count is kept.  A file that cannot be      *)
(* read, which ends the command at once, a dry run, and the summary that    *)
(* is printed are left out.                                                 *)
(****************************************************************************)
EXTENDS Integers, Sequences

CONSTANTS
    LinkIds,      \* TikTok IDs
    Lists,        \* files: the cells of each chunk, and the IDs they stand for
    Origins,      \* what --origin is given as
    ImportLimit,  \* bound: runs of the command
    CountLimit    \* bound: donations that are counted

\* A row that exists says where it is from.
ASSUME OriginsAssumption == "none" \notin Origins
ASSUME ImportBounds == ImportLimit \in Nat /\ CountLimit \in Nat

VARIABLES
    catalogued,   \* each video's row: where it is from, if it is in Datapods,
                  \* how often updated_at was moved
    queued,       \* the count of each video's target
    delivered,    \* the videos the Research API has delivered
    import,       \* what the command is at
    imports,      \* the number of its runs
    counting,     \* the donation that is being counted
    counted,      \* how often each video was counted
    completed,    \* the runs that came to their end
    crossed,      \* videos written between another's read and write
    redone        \* videos a repeated run changed, left to itself

importVars == <<catalogued, queued, delivered, import, imports, counting,
                counted, completed, crossed, redone>>

\* No row, no target, no interest in a video.
Unregistered == [origin |-> "none", datapods |-> FALSE, moved |-> 0]
NoTarget == -1
Skipped == -2
NothingRead == [v \in LinkIds |-> Skipped]

Idle == [at |-> "idle", job |-> <<>>, chunk |-> 1, read |-> NothingRead,
         alone |-> TRUE]

-----------------------------------------------------------------------------
\* _video_id.  A cell has a bare number or a path, whose segments are a word
\* or a number.
Marks == {"video", "photo"}
FirstOf(hits) == {n \in hits : \A m \in hits : n <= m}
VideoIds(cell) ==
    LET hits == {n \in 1..Len(cell.path) - 1 :
                     cell.path[n].word \in Marks /\ cell.path[n + 1].number # 0}
    IN IF cell.number # 0 THEN {cell.number}
       ELSE {cell.path[n + 1].number : n \in FirstOf(hits)}

\* The videos of a chunk.
ChunkIds(list, n) == UNION {VideoIds(cell) : cell \in list.chunks[n]}
Chunk == ChunkIds(import.job.list, import.chunk)

\* A list has chunks, and stands for what the cells in them lead to.
Understood ==
    \A list \in Lists :
        /\ Len(list.chunks) \in Nat \ {0} /\ list.means \subseteq LinkIds
        /\ list.means = UNION {ChunkIds(list, n) : n \in 1..Len(list.chunks)}

\* video_pks: rows that exist keep their origin.
WithRows(S, origin) ==
    [v \in LinkIds |-> IF v \in S /\ catalogued[v] = Unregistered
                   THEN [Unregistered EXCEPT !.origin = origin] ELSE catalogued[v]]

\* The listed videos without the mark.  Mistake: with it, too.
UnmarkedMistaken(S) == S
Unmarked(S) == {v \in S : ~catalogued[v].datapods}

\* enqueue_donated_videos: what is read, and what is left of it after count
\* was added.  A target created meanwhile stays as it is; one that was read is
\* written.
CountsOf(S) == [v \in LinkIds |-> IF v \in S \ delivered THEN queued[v] ELSE Skipped]
Enqueued(read, count) ==
    [v \in LinkIds |->
        CASE read[v] = Skipped -> queued[v]
          [] read[v] = NoTarget -> IF queued[v] = NoTarget THEN count ELSE queued[v]
          [] OTHER -> read[v] + count]
InMemory(read) == {v \in LinkIds : read[v] # Skipped}

ImportInit ==
    /\ catalogued = [v \in LinkIds |-> Unregistered]
    /\ queued = [v \in LinkIds |-> NoTarget] /\ delivered = {}
    /\ import = Idle /\ imports = 0 /\ counting = NothingRead
    /\ counted = [v \in LinkIds |-> 0]
    /\ completed = {} /\ crossed = {} /\ redone = {}

-----------------------------------------------------------------------------
(* The command.                                                             *)

StartImport(list, origin) ==
    /\ import.at = "idle" /\ imports < ImportLimit
    /\ import' = [Idle EXCEPT !.at = "rows", !.job = [list |-> list, origin |-> origin]]
    /\ imports' = imports + 1
    /\ UNCHANGED <<catalogued, queued, delivered, counting, counted, completed,
                   crossed, redone>>

\* The videos a step of the command changes, if it did all this before.
Redone ==
    IF import.job \in completed /\ import.alone
    THEN {v \in LinkIds : catalogued'[v] # catalogued[v] \/ queued'[v] # queued[v]}
    ELSE {}

GoOn(stage) == import' = [import EXCEPT !.at = stage]

\* A chunk without a video is passed over.
CreateRows ==
    /\ import.at = "rows"
    /\ catalogued' = WithRows(Chunk, import.job.origin)
    /\ GoOn(IF Chunk = {} THEN "next" ELSE "mark")
    /\ UNCHANGED queued

MarkListed ==
    /\ import.at = "mark"
    /\ catalogued' =
           [v \in LinkIds |->
               IF import.job.origin = "DATAPODS" /\ v \in Unmarked(Chunk)
               THEN [catalogued[v] EXCEPT !.datapods = TRUE, !.moved = @ + 1]
               ELSE catalogued[v]]
    /\ GoOn("read")
    /\ UNCHANGED queued

ReadTargets ==
    /\ import.at = "read"
    /\ import' = [import EXCEPT !.at = "write", !.read = CountsOf(Chunk)]
    /\ UNCHANGED <<catalogued, queued>>

WriteTargets ==
    /\ import.at = "write"
    /\ queued' = Enqueued(import.read, 0)
    /\ import' = [import EXCEPT !.at = "next", !.read = NothingRead]
    /\ UNCHANGED catalogued

NextChunk ==
    /\ import.at = "next" /\ import.chunk < Len(import.job.list.chunks)
    /\ import' = [import EXCEPT !.at = "rows", !.chunk = @ + 1]
    /\ UNCHANGED <<catalogued, queued>>

ImportStep ==
    /\ CreateRows \/ MarkListed \/ ReadTargets \/ WriteTargets \/ NextChunk
    /\ redone' = redone \cup Redone
    /\ crossed' = crossed \cup IF import.at = "write"
                               THEN InMemory(import.read) \cap InMemory(counting)
                               ELSE {}
    /\ UNCHANGED <<delivered, imports, counting, counted, completed>>

FinishImport ==
    /\ import.at = "next" /\ import.chunk = Len(import.job.list.chunks)
    /\ completed' = completed \cup {import.job}
    /\ import' = Idle
    /\ UNCHANGED <<catalogued, queued, delivered, imports, counting, counted,
                   crossed, redone>>

\* The command is stopped, or fails at a cell it cannot decode.
StopImport ==
    /\ import.at # "idle"
    /\ import' = Idle
    /\ UNCHANGED <<catalogued, queued, delivered, imports, counting, counted,
                   completed, crossed, redone>>

-----------------------------------------------------------------------------
(* Others.                                                                  *)

NotAlone == import' = [import EXCEPT !.alone = FALSE]

\* A donation that shows the video is registered, and its target read.
CountDonation(v) ==
    /\ counting = NothingRead /\ counted[v] < CountLimit
    /\ catalogued' = WithRows({v}, "DONATION")
    /\ counting' = CountsOf({v})
    /\ NotAlone
    /\ UNCHANGED <<queued, delivered, imports, counted, completed, crossed, redone>>

WriteDonation ==
    /\ counting # NothingRead
    /\ queued' = Enqueued(counting, 1)
    /\ counted' = [v \in LinkIds |-> counted[v] + IF v \in InMemory(counting) THEN 1 ELSE 0]
    /\ crossed' = crossed \cup (InMemory(counting) \cap InMemory(import.read))
    /\ counting' = NothingRead
    /\ NotAlone
    /\ UNCHANGED <<catalogued, delivered, imports, completed, redone>>

DeliverVideo(v) ==
    /\ v \notin delivered
    /\ catalogued' = WithRows({v}, "RESEARCH_API")
    /\ delivered' = delivered \cup {v}
    /\ NotAlone
    /\ UNCHANGED <<queued, imports, counting, counted, completed, crossed, redone>>

ImportNext ==
    \/ \E list \in Lists, origin \in Origins : StartImport(list, origin)
    \/ ImportStep \/ FinishImport \/ StopImport
    \/ \E v \in LinkIds : CountDonation(v) \/ DeliverVideo(v)
    \/ WriteDonation

ImportSpec == ImportInit /\ [][ImportNext]_importVars

-----------------------------------------------------------------------------
ImportTypeOK ==
    /\ catalogued \in [LinkIds -> [origin : Origins \cup {"none", "DONATION", "RESEARCH_API"},
                                   datapods : BOOLEAN, moved : 0..ImportLimit]]
    /\ queued \in [LinkIds -> NoTarget..CountLimit]
    /\ import.at \in {"idle", "rows", "mark", "read", "write", "next"}
    /\ {import.read, counting} \subseteq [LinkIds -> Skipped..CountLimit]
    /\ counted \in [LinkIds -> 0..CountLimit]
    /\ delivered \cup crossed \cup redone \subseteq LinkIds

\* After a run that came to its end, every video the list stands for, and no
\* other, has a row, the mark where there is one, and a target unless the
\* Research API had delivered it, whatever runs were stopped before.
ListImported ==
    /\ \A job \in completed : \A v \in job.list.means :
           /\ catalogued[v] # Unregistered
           /\ job.origin = "DATAPODS" => catalogued[v].datapods
           /\ v \in delivered \/ queued[v] # NoTarget
    /\ \A v \in LinkIds :
           catalogued[v].datapods => \E list \in Lists : v \in list.means

\* Existing targets keep their ranking: a target's count is the number of
\* donations counted, unless one was counted between the import's read and
\* write of it, or the other way round.
RankingKept ==
    \A v \in LinkIds \ crossed : queued[v] # NoTarget => queued[v] = counted[v]

\* And a run that repeats one changes nothing (updated_at included) while
\* nobody else writes.
ImportSound == ListImported /\ RankingKept /\ redone = {}
=============================================================================
