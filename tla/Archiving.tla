------------------------------- MODULE Archiving -------------------------------
(***************************************************************************)
(* Archiving and restoring one split (backend/src/modules/archiving):      *)
(* every call is one READ COMMITTED transaction, here statement by         *)
(* statement, against payments that hold the rows of the split while they  *)
(* settle.  An archive copies what it has read and deletes what is there.  *)
(***************************************************************************)
EXTENDS Naturals, FiniteSets

CONSTANTS
    Movers,    \* calls; each participant is named after the call that pays its share
    NoOne,     \* no holder
    MaxAborts  \* bound on failing statements and crashes together

ASSUME ArchivingConstants == MaxAborts \in Nat /\ NoOne \notin Movers

VARIABLES
    live,      \* the split is in its table
    peopled,   \* so are its participants
    credited,  \* participants whose row says they have paid
    payments,  \* participants with a payment row
    deed,      \* where every call is, and what it read and deleted
    holder,    \* who holds the rows of the split and its participants
    starts,    \* archives begun, in whose order archivedAt is
    penalised, \* participants with an UNPAID_EXPIRED event
    settled,   \* history: participants whose payment committed
    raced,     \* history: those an archive was copying over or a restore overlooked
    overtaken, \* history: those whose payment committed during any archive
    overrun,   \* history: a restore committed during an archive
    wronged,   \* history: those penalised after their payment had committed
    aborts     \* failures so far

archivingVars == <<live, peopled, credited, payments, deed, holder, starts, penalised, settled, raced,
                   overtaken, overrun, wronged, aborts>>

Fresh == [at |-> "new", reason |-> "other", peopled |-> FALSE, credited |-> {}, payments |-> {},
          gone |-> {}, number |-> 0, source |-> NoOne]

ArchivingTypeOK ==
    /\ live \in BOOLEAN /\ peopled \in BOOLEAN /\ starts \in Nat
    /\ credited \subseteq Movers /\ payments \subseteq Movers
    /\ holder \in Movers \cup {NoOne}
    /\ penalised \subseteq Movers
    /\ deed \in [Movers ->
         [at : {"new", "participants", "payments", "delete", "deleted", "split", "archived",
                "check", "write", "paying", "done"},
          reason : {"expired", "other"}, peopled : BOOLEAN, number : Nat, source : Movers \cup {NoOne},
          credited : SUBSET Movers, payments : SUBSET Movers, gone : SUBSET Movers]]

ArchivingInit ==
    /\ live = TRUE /\ peopled = TRUE /\ credited = {} /\ payments = {}
    /\ deed = [c \in Movers |-> Fresh]
    /\ holder = NoOne /\ starts = 0
    /\ penalised = {} /\ settled = {} /\ raced = {} /\ overtaken = {} /\ wronged = {}
    /\ overrun = FALSE /\ aborts = 0

At(c, place)   == deed[c].at = place
MoveOn(c, place) == deed' = [deed EXCEPT ![c].at = place]
Release(c)     == holder' = IF holder = c THEN NoOne ELSE holder

\* The rows of the split, and the books about them.
rowVars  == <<live, peopled, credited, payments>>
bookVars == <<penalised, settled, raced, overtaken, overrun, wronged>>

-----------------------------------------------------------------------------
(* Payments, whose transaction is PaymentProcessing's *)

LockSplit(c) ==
    /\ At(c, "new") /\ live /\ peopled /\ c \notin credited /\ holder = NoOne
    /\ holder' = c
    /\ MoveOn(c, "paying")
    /\ UNCHANGED <<rowVars, bookVars, starts, aborts>>

\* Archives that have begun to read and have not deleted the payments yet.
Copying == {c \in Movers : deed[c].at \in {"participants", "payments", "delete"}}
Begun   == Copying \cup {c \in Movers : deed[c].at \in {"deleted", "split"}}

CommitPayment(c) ==
    /\ At(c, "paying")
    /\ credited' = credited \cup {c} /\ payments' = payments \cup {c}
    /\ settled' = settled \cup {c}
    /\ raced' = IF Copying = {} THEN raced ELSE raced \cup {c}
    /\ overtaken' = IF Begun = {} THEN overtaken ELSE overtaken \cup {c}
    /\ Release(c)
    /\ MoveOn(c, "done")
    /\ UNCHANGED <<live, peopled, penalised, overrun, wronged, starts, aborts>>

-----------------------------------------------------------------------------
(* Archiving *)

archiveSplit(c, reason) ==
    /\ At(c, "new") /\ live
    /\ starts' = starts + 1
    /\ deed' = [deed EXCEPT ![c].at = "participants", ![c].reason = reason, ![c].number = starts + 1]
    /\ UNCHANGED <<rowVars, bookVars, holder, aborts>>

FindParticipants(c) ==
    /\ At(c, "participants")
    /\ deed' = [deed EXCEPT ![c].at = "payments", ![c].peopled = peopled,
                              ![c].credited = credited]
    /\ UNCHANGED <<rowVars, bookVars, holder, starts, aborts>>

FindPayments(c) ==
    /\ At(c, "payments")
    /\ deed' = [deed EXCEPT ![c].at = "delete", ![c].payments = payments]
    /\ UNCHANGED <<rowVars, bookVars, holder, starts, aborts>>

\* Deletes the payments there are now, not those it read; rows another archive has
\* deleted make it wait for that one.
DeletePayments(c) ==
    /\ At(c, "delete")
    /\ \A b \in Movers \ {c} : deed[b].at \in {"deleted", "split"} => deed[b].gone = {}
    /\ deed' = [deed EXCEPT ![c].at = "deleted", ![c].gone = payments]
    /\ UNCHANGED <<rowVars, bookVars, holder, starts, aborts>>

\* A payment still refers to its participant.  The first form is what a cascade would do.
Cascades(c)  == FALSE
Referred(c) == payments \ deed[c].gone # {}

DeleteParticipants(c) ==
    /\ At(c, "deleted") /\ holder = NoOne
    /\ live => ~Referred(c)
    /\ holder' = IF live THEN c ELSE NoOne
    /\ MoveOn(c, "split")
    /\ UNCHANGED <<rowVars, bookVars, starts, aborts>>

Penalised(c) ==
    IF deed[c].reason = "expired" /\ deed[c].peopled THEN Movers \ deed[c].credited ELSE {}

\* The last delete and the commit, with the events and the archive.  Of a split that
\* another archive has taken nothing is deleted, and it is archived once more, perhaps
\* without its participants.
DeleteSplit(c) ==
    /\ At(c, "split")
    /\ holder = c \/ (holder = NoOne /\ ~(live /\ peopled))
    /\ live' = FALSE /\ peopled' = FALSE /\ credited' = {} /\ payments' = {}
    /\ penalised' = penalised \cup Penalised(c)
    /\ wronged' = wronged \cup ((Penalised(c) \ penalised) \cap settled)
    /\ Release(c)
    /\ MoveOn(c, "archived")
    /\ UNCHANGED <<settled, raced, overtaken, overrun, starts, aborts>>

\* A foreign key stops the transaction: a payment came in, or the split was restored.
RefusedDelete(c) ==
    /\ \/ At(c, "deleted") /\ holder = NoOne /\ live /\ Referred(c)
       \/ At(c, "split") /\ holder = NoOne /\ live /\ peopled
    /\ MoveOn(c, "done")
    /\ UNCHANGED <<rowVars, bookVars, holder, starts, aborts>>

-----------------------------------------------------------------------------
(* Restoring *)

Archives == {c \in Movers : At(c, "archived")}
Latest   == CHOOSE c \in Archives : \A b \in Archives : deed[b].number <= deed[c].number

restoreSplitByOriginalId(c) ==
    /\ At(c, "new") /\ Archives # {}
    /\ deed' = [deed EXCEPT ![c].at = "check", ![c].source = Latest]
    /\ UNCHANGED <<rowVars, bookVars, holder, starts, aborts>>

restoreSplit(c) ==
    /\ At(c, "check")
    /\ At(deed[c].source, "archived") /\ ~live
    /\ MoveOn(c, "write")
    /\ UNCHANGED <<rowVars, bookVars, holder, starts, aborts>>

\* Saves split, participants and payments, over those another restore put there
\* meanwhile, and deletes the archive.
WriteBack(c) ==
    /\ At(c, "write") /\ holder = NoOne
    /\ LET archive == deed[deed[c].source]
       IN  /\ peopled \/ archive.peopled \/ archive.payments = {}
           /\ live' = TRUE
           /\ peopled' = (peopled \/ archive.peopled)
           /\ credited' = IF archive.peopled THEN archive.credited ELSE credited
           /\ payments' = payments \cup archive.payments
           /\ raced' = raced \cup (settled \ (archive.credited \cap archive.payments))
    /\ overrun' = (overrun \/ Begun # {})
    /\ deed' = [deed EXCEPT ![c].at = "done", ![deed[c].source].at = "done"]
    /\ UNCHANGED <<penalised, settled, overtaken, wronged, holder, starts, aborts>>

-----------------------------------------------------------------------------
(* Failures *)

\* A statement fails, a restore meets another one's rows, or the process dies: the
\* transaction is rolled back.
RollBack(c) ==
    /\ deed[c].at \notin {"new", "archived", "done"}
    /\ aborts < MaxAborts /\ aborts' = aborts + 1
    /\ Release(c)
    /\ MoveOn(c, "done")
    /\ UNCHANGED <<rowVars, bookVars, starts>>

ArchivingNext ==
    \E c \in Movers :
        \/ LockSplit(c) \/ CommitPayment(c)
        \/ \E reason \in {"expired", "other"} : archiveSplit(c, reason)
        \/ FindParticipants(c) \/ FindPayments(c) \/ DeletePayments(c)
        \/ DeleteParticipants(c) \/ DeleteSplit(c) \/ RefusedDelete(c)
        \/ restoreSplitByOriginalId(c) \/ restoreSplit(c) \/ WriteBack(c)
        \/ RollBack(c)

ArchivingSpec == ArchivingInit /\ [][ArchivingNext]_archivingVars

-----------------------------------------------------------------------------
(* Properties *)

\* The split is in its table or in an archive, whatever archives, restores and payments
\* overlap and fail.  Unless a restore overlapped an archive, so are its participants,
\* and so is, with its credit, every payment that no archive was copying over and no
\* restore of another archive overlooked; and a participant who has paid is penalised
\* only if an archive was under way then or a restore overlooked the payment.
ArchivingLosesOnlyByRaces ==
    /\ live \/ Archives # {}
    /\ ~overrun =>
         /\ (live /\ peopled) \/ \E c \in Archives : deed[c].peopled
         /\ \A p \in settled \ raced :
              IF live THEN p \in credited \cap payments
              ELSE \E c \in Archives : p \in deed[c].credited \cap deed[c].payments
         /\ wronged \subseteq raced \cup overtaken
=============================================================================
