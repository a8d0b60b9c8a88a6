---------------------------- MODULE RecurringSplits ----------------------------
(***************************************************************************)
(* One recurring split (backend/src/recurring-splits): the scheduler and a *)
(* manual trigger generate splits from it, statement by statement, while   *)
(* its owner pauses, resumes, changes or deletes it.  Every writer saves   *)
(* the whole row as it read it, and saving a deleted row inserts it again. *)
(***************************************************************************)
EXTENDS Naturals

CONSTANTS
    Generators,  \* calls of generateSplitFromTemplate that can overlap
    Cron,        \* the one of the scheduler
    Period,      \* the frequency
    Never,       \* no end date
    Gone,        \* the row was deleted
    LastDay,     \* bound on time
    MaxEdits,    \* bound on the owner's calls and the manual triggers together
    MaxMishaps   \* bound on failing statements and crashes together

ASSUME RecurringConstants ==
    /\ Cron \in Generators
    /\ Period \in Nat \ {0} /\ LastDay \in Nat /\ MaxEdits \in Nat /\ MaxMishaps \in Nat
    /\ Never \notin Nat

VARIABLES
    row,       \* the recurring split: nextOccurrence, isActive, endDate
    generator, \* where every generation is, with the row it read
    owner,     \* the owner's call, with the row it read
    day,       \* the time
    complete,  \* history: occurrences whose split has its participants
    anchors,   \* history: occurrences a series started at
    edits,     \* calls so far
    mishaps    \* failures so far

recurringVars == <<row, generator, owner, day, complete, anchors, edits, mishaps>>

Row == [next : Nat, active : BOOLEAN, ends : Nat \cup {Never}]

RecurringTypeOK ==
    /\ row \in Row \cup {Gone}
    /\ generator \in [Generators -> [at : {"idle", "load", "deactivate", "split", "copy", "advance"},
                                     read : Row \cup {Gone}]]
    /\ owner \in [at : {"idle", "pause", "resume", "update", "delete"}, read : Row \cup {Gone}]
    /\ day \in 0..LastDay
    /\ complete \subseteq Nat /\ anchors \subseteq Nat
    /\ edits \in 0..MaxEdits /\ mishaps \in 0..MaxMishaps

RecurringInit ==
    /\ row \in [next : {Period}, active : {TRUE}, ends : {Never, 2}]
    /\ generator = [g \in Generators |-> [at |-> "idle", read |-> Gone]]
    /\ owner = [at |-> "idle", read |-> Gone]
    /\ day = 0
    /\ complete = {} /\ anchors = {Period}
    /\ edits = 0 /\ mishaps = 0

Step(g, place) == generator' = [generator EXCEPT ![g].at = place]
Stop(g)        == generator' = [generator EXCEPT ![g] = [at |-> "idle", read |-> Gone]]

calculateNextOccurrence(base) == base + Period

Ended(r) == r.ends # Never /\ r.ends <= day

-----------------------------------------------------------------------------
(* Generation *)

\* The scheduler's query; the first form has one clause for all rows, which no row
\* without an end date meets.
DueByEnd(r) == r.active /\ r.next <= day /\ r.ends # Never /\ ~Ended(r)
Due(r)      == r.active /\ r.next <= day /\ ~Ended(r)

processRecurringSplits ==
    /\ generator[Cron].at = "idle"
    /\ row # Gone /\ Due(row)
    /\ Step(Cron, "load")
    /\ UNCHANGED <<row, owner, day, complete, anchors, edits, mishaps>>

\* The manual trigger does not ask whether the split is due.
manuallyProcessRecurringSplit(g) ==
    /\ g # Cron /\ generator[g].at = "idle"
    /\ edits < MaxEdits /\ edits' = edits + 1
    /\ Step(g, "load")
    /\ UNCHANGED <<row, owner, day, complete, anchors, mishaps>>

generateSplitFromTemplate(g) ==
    /\ generator[g].at = "load"
    /\ IF row = Gone \/ ~row.active THEN Stop(g)
       ELSE generator' = [generator EXCEPT
              ![g] = [at |-> IF Ended(row) THEN "deactivate" ELSE "split", read |-> row]]
    /\ UNCHANGED <<row, owner, day, complete, anchors, edits, mishaps>>

Deactivate(g) ==
    /\ generator[g].at = "deactivate"
    /\ row' = [generator[g].read EXCEPT !.active = FALSE]
    /\ Stop(g)
    /\ UNCHANGED <<owner, day, complete, anchors, edits, mishaps>>

\* What follows the new split's row; the first form would advance before the
\* participants are stored.
AdvanceFirst == "advance"
AfterSplit   == "copy"

SaveSplit(g) ==
    /\ generator[g].at = "split"
    /\ Step(g, AfterSplit)
    /\ UNCHANGED <<row, owner, day, complete, anchors, edits, mishaps>>

SaveParticipants(g) ==
    /\ generator[g].at = "copy"
    /\ complete' = complete \cup {generator[g].read.next}
    /\ Step(g, "advance")
    /\ UNCHANGED <<row, owner, day, anchors, edits, mishaps>>

SaveNextOccurrence(g) ==
    /\ generator[g].at = "advance"
    /\ row' = [generator[g].read EXCEPT !.next = calculateNextOccurrence(@)]
    /\ Stop(g)
    /\ UNCHANGED <<owner, day, complete, anchors, edits, mishaps>>

\* The error is logged, or the process dies; the next scheduled run starts over.
GenerationFails(g) ==
    /\ generator[g].at # "idle"
    /\ mishaps < MaxMishaps /\ mishaps' = mishaps + 1
    /\ Stop(g)
    /\ UNCHANGED <<row, owner, day, complete, anchors, edits>>

-----------------------------------------------------------------------------
(* The owner, and the daily cleanup, which pauses *)

CallOwner(call) ==
    /\ owner.at = "idle" /\ row # Gone
    /\ edits < MaxEdits /\ edits' = edits + 1
    /\ call = "pause" => row.active
    /\ call = "resume" => ~row.active
    /\ owner' = [at |-> call, read |-> row]
    /\ UNCHANGED <<row, generator, day, complete, anchors, mishaps>>

pauseRecurringSplit ==
    /\ owner.at = "pause"
    /\ row' = [owner.read EXCEPT !.active = FALSE]
    /\ UNCHANGED anchors

resumeRecurringSplit ==
    /\ owner.at = "resume"
    /\ row' = [owner.read EXCEPT !.active = TRUE, !.next = calculateNextOccurrence(day)]
    /\ anchors' = anchors \cup {row'.next}

updateRecurringSplit ==
    /\ owner.at = "update"
    /\ \/ row' = owner.read
       \/ \E d \in (day + 1)..LastDay : row' = [owner.read EXCEPT !.ends = d]
    /\ UNCHANGED anchors

deleteRecurringSplit ==
    /\ owner.at = "delete"
    /\ row' = Gone
    /\ UNCHANGED anchors

FinishCall ==
    /\ pauseRecurringSplit \/ resumeRecurringSplit \/ updateRecurringSplit \/ deleteRecurringSplit
    /\ owner' = [at |-> "idle", read |-> Gone]
    /\ UNCHANGED <<generator, day, complete, edits, mishaps>>

NextDay ==
    /\ day < LastDay
    /\ day' = day + 1
    /\ UNCHANGED <<row, generator, owner, complete, anchors, edits, mishaps>>

Generate(g) ==
    \/ generateSplitFromTemplate(g) \/ Deactivate(g) \/ SaveSplit(g) \/ SaveParticipants(g)
    \/ SaveNextOccurrence(g)

RecurringNext ==
    \/ processRecurringSplits
    \/ \E g \in Generators : manuallyProcessRecurringSplit(g) \/ Generate(g) \/ GenerationFails(g)
    \/ \E call \in {"pause", "resume", "update", "delete"} : CallOwner(call)
    \/ FinishCall
    \/ NextDay

RecurringSpec == RecurringInit /\ [][RecurringNext]_recurringVars

\* The cron job fires every six hours and a call that runs goes on.
RecurringFairness ==
    /\ WF_recurringVars(processRecurringSplits)
    /\ WF_recurringVars(Generate(Cron))

-----------------------------------------------------------------------------
(* Properties *)

\* Following nextOccurrence back period by period, every occurrence up to the
\* start of a series has a split with its participants: overlapping generations,
\* stale saves and crashes between the two inserts may repeat one, never skip it.
NoOccurrenceSkipped ==
    row # Gone =>
        \/ row.next \in anchors
        \/ \E k \in complete : row.next = calculateNextOccurrence(k)

\* An occurrence that is due gets its split, whatever fails on the way, unless the
\* owner steps in.
OccurrencesHappen ==
    \A k \in 0..LastDay :
        (row # Gone /\ row.active /\ row.next = k /\ k <= day /\ row.ends = Never)
          ~> (k \in complete \/ row = Gone \/ ~row.active \/ row.next # k \/ row.ends # Never)
=============================================================================
