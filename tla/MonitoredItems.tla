----------------------------- MODULE MonitoredItems -----------------------------
(****************************************************************************)
(* The command that brings the monitored users (or keywords) in line with   *)
(* a file: it compares the file with the database, and then writes what     *)
(* differs, one statement after the other, each committed by itself, while  *)
(* the Research API registers users.                                        *)
(* Source: ddcs/metadata/management/commands/sync_monitored_items.py.       *)
(*                                                                          *)
(* One kind of item; a dry run, which writes nothing, is left out.  Nobody  *)
(* else switches monitoring while the command runs.                         *)
(****************************************************************************)
EXTENDS Integers, Sequences

CONSTANTS
    Names,
    Files,      \* files: sequences of lines, each with a name and a priority
    SyncLimit   \* bound: runs of the command

ASSUME FilesAssumption ==
    /\ SyncLimit \in Nat
    /\ Files \subseteq Seq([name : Names, priority : Nat])

VARIABLES
    items,  \* the rows: monitor_api, monitoring_priority_api
    file,   \* the file of the run
    steps,  \* the statements the run has yet to execute, each with its place
    state,  \* what the command is at
    syncs   \* the number of its runs

itemVars == <<items, file, steps, state, syncs>>

NoItem == [known |-> FALSE, on |-> FALSE, priority |-> 0]
Item == [known : BOOLEAN, on : BOOLEAN, priority : Nat]

-----------------------------------------------------------------------------
\* _read_entries: the lines that count, of a name the first.
Entries(f) == {n \in DOMAIN f : \A m \in 1..n - 1 : f[m].name # f[n].name}
Listed(f) == {f[n].name : n \in DOMAIN f}
UpToDate(line) ==
    items[line.name] = [known |-> TRUE, on |-> TRUE, priority |-> line.priority]

\* _apply_plan: the lists of the plan one after the other, each in the order
\* of the file.
Place == [create |-> 1, enable |-> 2, update |-> 3, disable |-> 4]
Before(s, t) ==
    Place[s.kind] < Place[t.kind] \/ (s.kind = t.kind /\ s.line < t.line)

\* _build_plan.
KindFor(line) ==
    CASE ~items[line.name].known -> "create"
      [] items[line.name].known /\ ~items[line.name].on -> "enable"
      [] items[line.name].known /\ items[line.name].on -> "update"
Statement(line, n) ==
    [kind |-> KindFor(line), line |-> n, names |-> {line.name},
     priority |-> line.priority]
Surplus(f) == {x \in Names : items[x].on} \ Listed(f)
Plan(f) ==
    {Statement(f[n], n) : n \in {m \in Entries(f) : ~UpToDate(f[m])}}
        \cup {[kind |-> "disable", line |-> 0, names |-> S, priority |-> 0] :
                  S \in {Surplus(f)} \ {{}}}

ItemsInit ==
    /\ items = [x \in Names |-> NoItem]
    /\ file = <<>> /\ steps = {} /\ state = "idle" /\ syncs = 0

StartSync(f) ==
    /\ state # "writing" /\ syncs < SyncLimit
    /\ file' = f /\ steps' = Plan(f) /\ state' = "writing"
    /\ syncs' = syncs + 1
    /\ UNCHANGED items

\* What a statement leaves of a row.  Mistake: a row that is switched on
\* again keeps its priority.
ChangedMistaken(s, x) ==
    CASE s.kind = "create" -> [known |-> TRUE, on |-> TRUE, priority |-> s.priority]
      [] s.kind = "enable" -> [items[x] EXCEPT !.on = TRUE]
      [] s.kind = "update" -> [items[x] EXCEPT !.priority = s.priority]
      [] s.kind = "disable" -> [items[x] EXCEPT !.on = FALSE]
Changed(s, x) ==
    CASE s.kind = "create" -> [known |-> TRUE, on |-> TRUE, priority |-> s.priority]
      [] s.kind = "enable" -> [items[x] EXCEPT !.on = TRUE, !.priority = s.priority]
      [] s.kind = "update" -> [items[x] EXCEPT !.priority = s.priority]
      [] s.kind = "disable" -> [items[x] EXCEPT !.on = FALSE]

\* The next statement.  A name that was registered since the comparison
\* cannot be created: the command breaks off.
Execute ==
    /\ state = "writing"
    /\ \E s \in steps :
          /\ \A t \in steps \ {s} : Before(s, t)
          /\ IF s.kind = "create" /\ \E x \in s.names : items[x].known
             THEN /\ state' = "broken off" /\ steps' = {}
                  /\ UNCHANGED items
             ELSE /\ items' = [x \in Names |-> IF x \in s.names THEN Changed(s, x)
                                               ELSE items[x]]
                  /\ steps' = steps \ {s}
                  /\ UNCHANGED state
    /\ UNCHANGED <<file, syncs>>

FinishSync ==
    /\ state = "writing" /\ steps = {}
    /\ state' = "done"
    /\ UNCHANGED <<items, file, steps, syncs>>

\* The command is stopped.
StopSync ==
    /\ state = "writing"
    /\ state' = "broken off" /\ steps' = {}
    /\ UNCHANGED <<items, file, syncs>>

\* _sync_user: a user who is not known is registered, and not monitored.
RegisterUser(x) ==
    /\ ~items[x].known
    /\ items' = [items EXCEPT ![x].known = TRUE]
    /\ UNCHANGED <<file, steps, state, syncs>>

ItemsNext ==
    \/ \E f \in Files : StartSync(f)
    \/ Execute \/ FinishSync \/ StopSync
    \/ \E x \in Names : RegisterUser(x)

ItemsSpec == ItemsInit /\ [][ItemsNext]_itemVars

-----------------------------------------------------------------------------
\* The rows' types, and: after a run that got to its end, exactly the names
\* in the file are monitored, each with the priority of its first line,
\* whatever earlier runs that broke off have left and whoever was
\* registered meanwhile.
AppliedMatches ==
    /\ items \in [Names -> Item]
    /\ state = "done" =>
           /\ {x \in Names : items[x].on} = Listed(file)
           /\ \A n \in DOMAIN file :
                  (\A m \in 1..n - 1 : file[m].name # file[n].name)
                      => items[file[n].name].priority = file[n].priority
=============================================================================
