----------------------------- MODULE Collaboration -----------------------------
(***************************************************************************)
(* The collaborations of one track (backend/src/collaboration).  Each      *)
(* operation is a transaction that reads, checks and saves without a lock: *)
(* an answer or a removal writes back the whole row it read, whatever      *)
(* happened to it since.  An artist has one row per track for ever (unique *)
(* index), so a rejected or removed one cannot be invited again.           *)
(***************************************************************************)
EXTENDS Integers, Sequences, FiniteSetsExt

CONSTANTS
    Artists,
    Petitions,         \* requests to the service, each served once
    Percentages,       \* whole percentages an invitation may offer
    NoShare,           \* an invitation without a splitPercentage
    PercentagesAreText \* the database driver returns decimal columns as text

ASSUME CollaborationConstants ==
    /\ Percentages \subseteq 0..100
    /\ NoShare \notin Percentages
    /\ PercentagesAreText \in BOOLEAN

VARIABLES
    collaboration, \* the row of every artist: status, splitPercentage, auditLog
    petition,      \* where every request is, and the row it read or will insert
    saved,         \* history: requests that committed
    removedOnce,   \* history: artists whose removal was committed
    overwrites     \* history: saves that undid another request's

collaborationVars == <<collaboration, petition, saved, removedOnce, overwrites>>

CollaborationStatus == {"invited", "active", "rejected", "removed"}

\* The status an entry of the audit log stands for.
StatusAfter == [invited |-> "invited", accepted |-> "active", rejected |-> "rejected",
                removed |-> "removed"]

NoCollaboration == [status |-> "none", share |-> NoShare, auditLog |-> <<>>]
Unserved        == [at |-> "new", artist |-> NoShare, row |-> NoCollaboration]

CollaborationTypeOK ==
    LET Collaborations == [status : CollaborationStatus \cup {"none"},
                           share : Percentages \cup {NoShare}, auditLog : Seq(DOMAIN StatusAfter)]
    IN
    /\ collaboration \in [Artists -> Collaborations]
    /\ petition \in [Petitions -> [at : {"new", "insert", "done"} \cup DOMAIN StatusAfter,
                                   artist : Artists \cup {NoShare}, row : Collaborations]]
    /\ saved \subseteq Petitions /\ removedOnce \subseteq Artists
    /\ overwrites \in Nat

CollaborationInit ==
    /\ collaboration = [a \in Artists |-> NoCollaboration]
    /\ petition = [c \in Petitions |-> Unserved]
    /\ saved = {} /\ removedOnce = {} /\ overwrites = 0

-----------------------------------------------------------------------------
(* The check of the shares *)

\* The rows validateSplitPercentage finds, and what they add up to.
Sharing == {a \in Artists : collaboration[a].status = "active" /\ collaboration[a].share # NoShare}
ActiveTotal == MapThenSumSet(LAMBDA a : collaboration[a].share, Sharing)

\* Text is appended, not added: with no active share the new one is compared with 100,
\* after one share of s and a new n "0s.00n" is a little over s, and two shares or more
\* make no number, which is not above 100.
ExceedsHundred(share) ==
    IF PercentagesAreText
    THEN \E a \in Sharing : Sharing = {a} /\ collaboration[a].share = 100 /\ share > 0
    ELSE ActiveTotal + share > 100

-----------------------------------------------------------------------------
(* Requests *)

Reads(c, place, a, row) ==
    /\ petition[c].at = "new"
    /\ petition' = [petition EXCEPT ![c] = [at |-> place, artist |-> a, row |-> row]]
    /\ UNCHANGED <<collaboration, saved, removedOnce, overwrites>>

Commits(c, row) ==
    /\ collaboration' = [collaboration EXCEPT ![petition[c].artist] = row]
    /\ petition' = [petition EXCEPT ![c] = [Unserved EXCEPT !.at = "done"]]
    /\ saved' = saved \cup {c}

\* The checks of createCollaboration: no pending invitation, and the shares.
createCollaboration(c, a, share) ==
    /\ collaboration[a].status # "invited"
    /\ share # NoShare => ~ExceedsHundred(share)
    /\ Reads(c, "insert", a, [status |-> "invited", share |-> share, auditLog |-> <<"invited">>])

\* The unique index refuses a second row.
InsertCollaboration(c) ==
    /\ petition[c].at = "insert"
    /\ collaboration[petition[c].artist] = NoCollaboration
    /\ Commits(c, petition[c].row)
    /\ UNCHANGED <<removedOnce, overwrites>>

\* The first form forgets the check of the status.
EvenAnswered(row) == row.status # "none"
Pending(row)      == row.status = "invited"

respondToCollaboration(c, a, answer) ==
    /\ Pending(collaboration[a])
    /\ Reads(c, answer, a, collaboration[a])

\* Whatever its status, to either party of the collaboration.
removeCollaboration(c, a) ==
    /\ collaboration[a].status # "none"
    /\ Reads(c, "removed", a, collaboration[a])

SaveCollaboration(c) ==
    LET a      == petition[c].artist
        action == petition[c].at
        row    == petition[c].row
    IN
    /\ action \in {"accepted", "rejected", "removed"}
    /\ Commits(c, [row EXCEPT !.status = StatusAfter[action], !.auditLog = Append(@, action)])
    /\ removedOnce' = IF action = "removed" THEN removedOnce \cup {a} ELSE removedOnce
    /\ overwrites' = IF collaboration[a] = row THEN overwrites ELSE overwrites + 1

\* The insertion is refused, a statement fails or the process dies: rolled back.
RollBackPetition(c) ==
    /\ petition[c].at \notin {"new", "done"}
    /\ petition' = [petition EXCEPT ![c] = [Unserved EXCEPT !.at = "done"]]
    /\ UNCHANGED <<collaboration, saved, removedOnce, overwrites>>

CollaborationNext ==
    \E c \in Petitions :
        \/ \E a \in Artists :
             \/ \E share \in Percentages \cup {NoShare} : createCollaboration(c, a, share)
             \/ \E answer \in {"accepted", "rejected"} : respondToCollaboration(c, a, answer)
             \/ removeCollaboration(c, a)
        \/ InsertCollaboration(c) \/ SaveCollaboration(c) \/ RollBackPetition(c)

CollaborationSpec == CollaborationInit /\ [][CollaborationNext]_collaborationVars

-----------------------------------------------------------------------------
(* Properties *)

\* The positions in the audit logs, one for every entry.
Recorded == UNION {{a} \X DOMAIN collaboration[a].auditLog : a \in Artists}

\* Requests overtake each other, yet every audit log reads as a legal history that ends
\* in the row's status (an answer follows the invitation at once, and only once); and
\* without a save of a stale row nothing that was done is missing from the logs and an
\* artist once removed stays removed.
LogsReadRight ==
    /\ \A a \in Artists :
         LET log == collaboration[a].auditLog IN
         log # <<>> =>
            /\ log[1] = "invited" /\ collaboration[a].status = StatusAfter[log[Len(log)]]
            /\ \A i \in 2..Len(log) : i = 2 \/ log[i] = "removed"
    /\ overwrites = 0 =>
         /\ Cardinality(Recorded) = Cardinality(saved)
         /\ \A a \in removedOnce : collaboration[a].status = "removed"

\* "Total split percentages for a track cannot exceed 100%" (collaboration/README.md).
\* It does not hold: the check appends text instead of adding, and is made when an
\* invitation is created but not when it is accepted.
TrackNotOversold == ActiveTotal <= 100
=============================================================================
