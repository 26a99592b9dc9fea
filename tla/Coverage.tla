------------------------------- MODULE Coverage -------------------------------
(****************************************************************************)
(* What the Research API synchronisation promises: every run lists gaps,    *)
(* asks TikTok for some of the listed ones, and closes the gaps it asked    *)
(* for when the answer is complete.  A gap is an item on a date without a   *)
(* successful attempt; once closed it stays closed.  docs/                  *)
(* 7_research_api_sync.md: "Every attempt against every (item, date)        *)
(* writes a SyncAttempt row", "retries only touch items that failed".       *)
(****************************************************************************)
CONSTANTS
    Gaps,   \* every item on every date
    Askers  \* the workers

VARIABLES
    closed, \* the gaps with a successful attempt
    listed, \* for each asker, what it has read and not asked for yet
    asked,  \* what it is asking for
    forced  \* and whether it was told to ask for closed gaps, too

vars == <<closed, listed, asked, forced>>

Init ==
    /\ closed = {}
    /\ listed = [a \in Askers |-> {}]
    /\ asked = [a \in Askers |-> {}]
    /\ forced = [a \in Askers |-> FALSE]

\* A run reads gaps that are open; one that is forced reads any.
List(a) ==
    /\ listed[a] = {} /\ asked[a] = {}
    /\ forced' \in {[forced EXCEPT ![a] = f] : f \in BOOLEAN}
    /\ \E S \in SUBSET Gaps :
           /\ forced'[a] \/ S \cap closed = {}
           /\ listed' = [listed EXCEPT ![a] = S]
    /\ UNCHANGED <<closed, asked>>

\* It asks only for what it has listed, and for nothing twice.
Ask(a) ==
    /\ asked[a] = {}
    /\ \E S \in SUBSET listed[a] :
           /\ asked' = [asked EXCEPT ![a] = S]
           /\ listed' = [listed EXCEPT ![a] = @ \ S]
    /\ UNCHANGED <<closed, forced>>

\* An answer, or the lack of one, may be the last thing of a run.
PerhapsOver(a) ==
    \/ UNCHANGED <<listed, forced>>
    \/ /\ listed' = [listed EXCEPT ![a] = {}]
       /\ forced' = [forced EXCEPT ![a] = FALSE]

\* All it asked for is closed at once.
Close(a) ==
    /\ closed' = closed \cup asked[a]
    /\ asked' = [asked EXCEPT ![a] = {}]
    /\ PerhapsOver(a)

\* The question failed.
GiveUp(a) ==
    /\ asked' = [asked EXCEPT ![a] = {}]
    /\ PerhapsOver(a)
    /\ UNCHANGED closed

Next == \E a \in Askers : List(a) \/ Ask(a) \/ Close(a) \/ GiveUp(a)

Spec == Init /\ [][Next]_vars
===============================================================================
