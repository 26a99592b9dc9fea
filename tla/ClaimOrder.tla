------------------------------- MODULE ClaimOrder -------------------------------
(****************************************************************************)
(* The order a claim takes targets off the queue in: four reads, each of    *)
(* them locking the rows it returns and passing over rows that another      *)
(* claim has locked, and a write that leases what was picked.  Source:      *)
(* _first_of and _claim_due_targets in ddcs/metadata/scraper/service.py.    *)
(*                                                                          *)
(* The reads of one claim are steps of their own: the database shows each   *)
(* of them what other claims have committed by then.                        *)
(****************************************************************************)
EXTENDS Integers, FiniteSets, Sequences, Functions

CONSTANTS
    Ids,           \* primary keys: natural numbers
    Rows,          \* what a row may look like, see RowType
    PriorityMin,   \* PRIORITY_MIN_OCCURRENCES
    PrioritySince, \* PRIORITY_WATCHED_SINCE
    MaxChecks,     \* TIKTOK_SCRAPER_UNAVAILABLE_MAX_CHECKS
    Claims,        \* claims that may be under way at the same time
    Limits,        \* the batch sizes asked for
    LeaseLimit     \* bound: leases that run out

NoDate == 0

\* The fields a claim looks at.  A failed row is one that is due again.
RowType == [status : {"pending", "failed", "unavailable"}, count : Nat,
            date : Nat, checks : Nat, tried : Nat]

ASSUME IdsAssumption == IsFiniteSet(Ids) /\ Ids \subseteq Nat
ASSUME RowsAssumption == \A r \in Rows : r \in RowType
ASSUME ClaimAssumption == Limits \subseteq Nat \ {0} /\ LeaseLimit \in Nat

VARIABLES
    queue,       \* the rows
    leased,      \* the rows with a running lease
    stage,       \* the read each claim does next; 0: no claim, 5: the lease
    limit,       \* the number of targets it asks for
    picked,      \* what it has picked, in order
    locked,      \* the rows it has locked
    offered,     \* the rows free when it began, less those others locked since
    undisturbed, \* no row has become free since it began
    lapses       \* the number of leases that ran out

claimVars == <<queue, leased, stage, limit, picked, locked, offered,
               undisturbed, lapses>>

-----------------------------------------------------------------------------
(****************************************************************************)
(* Which rows a read asks for, and in which order                          *)
(****************************************************************************)

Due(i) == queue[i].status \in {"pending", "failed"}
Priority(i) == queue[i].count >= PriorityMin /\ queue[i].date >= PrioritySince
Recheckable(i) ==
    queue[i].status = "unavailable" /\ queue[i].checks < MaxChecks

\* The filters of the four reads.
Wanted(i, s) ==
    CASE s = 1 -> Due(i) /\ Priority(i)
      [] s = 2 -> Due(i) /\ queue[i].date # NoDate
      [] s = 3 -> Due(i) /\ queue[i].date = NoDate
      [] s = 4 -> Recheckable(i)

\* Their sort keys.  Mistake: the count decides beyond the priority group.
KeyMistaken(i, s) ==
    CASE s \in 1..2 -> <<-queue[i].count, -queue[i].date, i>>
      [] s = 3 -> <<0, 0, i>>
      [] s = 4 -> <<queue[i].checks, queue[i].tried, i>>
Key(i, s) ==
    CASE s = 1 -> <<-queue[i].count, -queue[i].date, i>>
      [] s = 2 -> <<-queue[i].date, 0, i>>
      [] s = 3 -> <<0, 0, i>>
      [] s = 4 -> <<queue[i].checks, queue[i].tried, i>>

Less(a, b) ==
    \E n \in DOMAIN a : a[n] < b[n] /\ \A m \in 1..n - 1 : a[m] = b[m]

Keys(s) == [i \in Ids |-> Key(i, s)]

\* The rows of S a row comes after, in the order of their keys; the first n
\* of them, and all of them in that order.
Earlier(i, S, key) == {j \in S : Less(key[j], key[i])}

First(n, S, key) == {i \in S : Cardinality(Earlier(i, S, key)) < n}

Sorted(S, key) ==
    [n \in 1..Cardinality(S) |->
        CHOOSE i \in S : Cardinality(Earlier(i, S, key)) = n - 1]

\* exclude(pk__in=picked).
NotYet(c) == Ids \ Range(picked[c])

\* Rows without a running lease that no other claim has locked.
FreeMistaken(c) == Ids \ leased
Free(c) == Ids \ (leased \cup UNION {locked[d] : d \in Claims \ {c}})

\* How many targets are still to be picked.  Mistake: every read asks for a
\* whole batch.
MissingMistaken(c) == limit[c]
Missing(c) == limit[c] - Len(picked[c])

\* The rows the querysets of read s return, each cut off at what is missing:
\* pending and failed ones are asked for separately.
Candidates(c, s) ==
    LET wanted == {i \in Free(c) \cap NotYet(c) : Wanted(i, s)} IN
    UNION {First(Missing(c), {i \in wanted : queue[i].status = st}, Keys(s)) :
               st \in {"pending", "failed", "unavailable"}}

\* _first_of: merged, in order, and cut off again.
Picks(c, s) ==
    Sorted(First(Missing(c), Candidates(c, s), Keys(s)), Keys(s))

-----------------------------------------------------------------------------
ClaimInit ==
    /\ queue \in [Ids -> Rows]
    /\ leased = {}
    /\ stage = [c \in Claims |-> 0]
    /\ limit = [c \in Claims |-> 0]
    /\ picked = [c \in Claims |-> <<>>]
    /\ locked = [c \in Claims |-> {}]
    /\ offered = [c \in Claims |-> {}]
    /\ undisturbed = [c \in Claims |-> FALSE]
    /\ lapses = 0

\* A claim for n targets begins.
Begin(c, n) ==
    /\ stage[c] = 0
    /\ stage' = [stage EXCEPT ![c] = 1]
    /\ limit' = [limit EXCEPT ![c] = n]
    /\ offered' = [offered EXCEPT ![c] = Free(c)]
    /\ undisturbed' = [undisturbed EXCEPT ![c] = TRUE]
    /\ UNCHANGED <<queue, leased, picked, locked, lapses>>

\* One read, left out if nothing is missing any more.
ReadStage(c) ==
    /\ stage[c] \in 1..4
    /\ stage' = [stage EXCEPT ![c] = @ + 1]
    /\ IF Missing(c) > 0
       THEN /\ picked' = [picked EXCEPT ![c] = @ \o Picks(c, stage[c])]
            /\ locked' = [locked EXCEPT ![c] = @ \cup Candidates(c, stage[c])]
       ELSE UNCHANGED <<picked, locked>>
    /\ offered' = [d \in Claims |->
                     IF d = c THEN offered[d] ELSE offered[d] \ locked'[c]]
    /\ UNCHANGED <<queue, leased, limit, undisturbed, lapses>>

\* The picked targets are leased, the transaction ends: rows it had locked
\* and not picked are free again.
Lease(c) ==
    /\ stage[c] = 5
    /\ leased' = leased \cup Range(picked[c])
    /\ stage' = [stage EXCEPT ![c] = 0]
    /\ limit' = [limit EXCEPT ![c] = 0]
    /\ picked' = [picked EXCEPT ![c] = <<>>]
    /\ locked' = [locked EXCEPT ![c] = {}]
    /\ offered' = [offered EXCEPT ![c] = {}]
    /\ undisturbed' = [d \in Claims |->
            d # c /\ undisturbed[d] /\ locked[c] \subseteq Range(picked[c])]
    /\ UNCHANGED <<queue, lapses>>

\* A lease runs out.
Lapse(i) ==
    /\ i \in leased /\ lapses < LeaseLimit
    /\ leased' = leased \ {i}
    /\ lapses' = lapses + 1
    /\ undisturbed' = [d \in Claims |-> FALSE]
    /\ UNCHANGED <<queue, stage, limit, picked, locked, offered>>

ClaimNext ==
    \/ \E c \in Claims :
           \/ \E n \in Limits : Begin(c, n)
           \/ ReadStage(c)
           \/ Lease(c)
    \/ \E i \in Ids : Lapse(i)

ClaimSpec == ClaimInit /\ [][ClaimNext]_claimVars

-----------------------------------------------------------------------------
(****************************************************************************)
(* Properties                                                              *)
(****************************************************************************)

\* The types; a claim never picks more than it was asked for, over all four
\* reads, nor a row it has not locked.
ClaimTypeOK ==
    /\ queue \in [Ids -> Rows]
    /\ leased \subseteq Ids
    /\ stage \in [Claims -> 0..5]
    /\ limit \in [Claims -> Limits \cup {0}]
    /\ \A c \in Claims :
           /\ picked[c] \in Seq(Ids)
           /\ Len(picked[c]) <= limit[c]
           /\ Range(picked[c]) \subseteq locked[c]
    /\ lapses \in 0..LeaseLimit

\* No target is leased to two claims, or picked twice by one, although the
\* reads of claims overlap and the filters of the four reads do too.
ClaimsDisjoint ==
    \A c \in Claims :
        /\ \A m, n \in DOMAIN picked[c] : picked[c][m] = picked[c][n] => m = n
        /\ Range(picked[c]) \cap leased = {}
        /\ \A d \in Claims \ {c} : Range(picked[c]) \cap Range(picked[d]) = {}

\* The order the documentation gives the whole queue: the group a row is in,
\* then the order within the group.
Group(i) ==
    CASE Due(i) /\ Priority(i) -> 1
      [] Due(i) /\ ~Priority(i) /\ queue[i].date # NoDate -> 2
      [] Due(i) /\ ~Priority(i) /\ queue[i].date = NoDate -> 3
      [] ~Due(i) -> 4

QueuePlace(i) ==
    CASE Group(i) = 1 -> <<1, -queue[i].count, -queue[i].date, i>>
      [] Group(i) = 2 -> <<2, -queue[i].date, 0, i>>
      [] Group(i) = 3 -> <<3, 0, 0, i>>
      [] Group(i) = 4 -> <<4, queue[i].checks, queue[i].tried, i>>
QueueOrder == [i \in Ids |-> QueuePlace(i)]

\* The first n rows of S in that order.
InOrder(S, n) ==
    Sorted(First(n, {i \in S : Due(i) \/ Recheckable(i)}, QueueOrder), QueueOrder)

\* A claim gets the first targets of the queue, as many as it asked for if
\* there are as many: the four partial reads add up to one read of the whole
\* queue.  Other claims may begin, read and lease between them; what they
\* lock before this claim comes to it is passed over, the rest stays in
\* order.  Exempt are claims during which a row becomes free: a lease runs
\* out, or another claim ends that had locked rows without picking them.
FollowsOrder ==
    \A c \in Claims :
        stage[c] = 5 /\ undisturbed[c] =>
            picked[c] = InOrder(offered[c], limit[c])
=============================================================================
