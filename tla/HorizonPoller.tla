----------------------------- MODULE HorizonPoller -----------------------------
(***************************************************************************)
(* The Horizon poller (backend/src/stellar/horizon-poller.service.ts): a   *)
(* cron job reads the saved cursor, fetches a page of the monitored        *)
(* account's records and confirms them one by one, saving the cursor after *)
(* each.  The scheduler does not wait for the previous poll, so polls      *)
(* overlap, and each saves the cursor where it is itself.                  *)
(***************************************************************************)
EXTENDS Naturals

CONSTANTS
    Polls,       \* polls that can overlap
    NumRecords,  \* records of the account are 1..NumRecords, in Horizon's order
    PageSize,    \* records of a page
    Now,         \* the cursor of a table without a row
    MaxLapses    \* bound on failing calls and crashes together

ASSUME PollerConstants ==
    /\ NumRecords \in Nat /\ PageSize \in Nat \ {0} /\ MaxLapses \in Nat
    /\ Now \notin Nat

VARIABLES
    monitored, \* MONITORED_STELLAR_ACCOUNT is set
    paying,    \* records that are payments whose transaction has a memo
    landed,    \* records so far
    cursor,    \* the saved cursor
    poll,      \* where every poll is, its record and the last one of its page
    tried,     \* history: records handed to autoConfirmPayment
    lapses     \* failures so far

pollerVars == <<monitored, paying, landed, cursor, poll, tried, lapses>>

Records == 1..NumRecords
NoPoll  == [at |-> "idle", record |-> 0, last |-> 0]

PollerTypeOK ==
    /\ monitored \in BOOLEAN /\ paying \subseteq Records
    /\ landed \in 0..NumRecords
    /\ cursor \in 0..landed \cup {Now}
    /\ poll \in [Polls -> [at : {"idle", "fetch", "process", "save", "wait"},
                           record : 0..NumRecords \cup {Now}, last : 0..NumRecords]]
    /\ tried \subseteq paying
    /\ lapses \in 0..MaxLapses

PollerInit ==
    /\ monitored \in BOOLEAN /\ paying \in SUBSET Records
    /\ landed = 0 /\ cursor \in {0, Now}
    /\ poll = [p \in Polls |-> NoPoll]
    /\ tried = {} /\ lapses = 0

Become(p, state) == poll' = [poll EXCEPT ![p] = state]

pollPayments(p) ==
    /\ monitored /\ poll[p].at = "idle"
    /\ Become(p, [at |-> "fetch", record |-> cursor, last |-> 0])
    /\ UNCHANGED <<monitored, paying, landed, cursor, tried, lapses>>

\* Nothing comes after "now".
PageAfter(c) ==
    IF c = Now THEN {} ELSE {k \in Records : c < k /\ k <= c + PageSize /\ k <= landed}

FetchPage(p) ==
    /\ poll[p].at = "fetch"
    /\ LET page == PageAfter(poll[p].record)
       IN  IF page = {} THEN Become(p, NoPoll)
           ELSE Become(p, [at |-> "process", record |-> poll[p].record + 1,
                           last |-> CHOOSE k \in page : \A j \in page : j <= k])
    /\ UNCHANGED <<monitored, paying, landed, cursor, tried, lapses>>

\* Whatever autoConfirmPayment answers or throws, the poll goes on.
processPayment(p) ==
    /\ poll[p].at = "process"
    /\ tried' = tried \cup ({poll[p].record} \cap paying)
    /\ Become(p, [poll[p] EXCEPT !.at = "save"])
    /\ UNCHANGED <<monitored, paying, landed, cursor, lapses>>

SaveCursor(p) ==
    /\ poll[p].at = "save"
    /\ cursor' = poll[p].record
    /\ IF poll[p].record = poll[p].last THEN Become(p, NoPoll)
       ELSE Become(p, [poll[p] EXCEPT !.at = "process", !.record = @ + 1])
    /\ UNCHANGED <<monitored, paying, landed, tried, lapses>>

\* Where a poll goes when the record's transaction cannot be fetched; the first form
\* treats it as autoConfirmPayment's own errors are.
SkipRecord(state) == [state EXCEPT !.at = IF @ = "process" THEN "save" ELSE "wait"]
Abandon(state)    == [state EXCEPT !.at = "wait"]

\* A read, a fetch or the save of the cursor fails: the rest of the page is left.
PollFails(p) ==
    /\ poll[p].at \in {"fetch", "process", "save"}
    /\ lapses < MaxLapses /\ lapses' = lapses + 1
    /\ Become(p, Abandon(poll[p]))
    /\ UNCHANGED <<monitored, paying, landed, cursor, tried>>

waitBeforeRetry(p) ==
    /\ poll[p].at = "wait"
    /\ Become(p, NoPoll)
    /\ UNCHANGED <<monitored, paying, landed, cursor, tried, lapses>>

CrashPolls ==
    /\ \E p \in Polls : poll[p] # NoPoll
    /\ lapses < MaxLapses /\ lapses' = lapses + 1
    /\ poll' = [p \in Polls |-> NoPoll]
    /\ UNCHANGED <<monitored, paying, landed, cursor, tried>>

NewRecord ==
    /\ monitored /\ landed < NumRecords /\ landed' = landed + 1
    /\ UNCHANGED <<monitored, paying, cursor, poll, tried, lapses>>

RunPoll(p) == FetchPage(p) \/ processPayment(p) \/ SaveCursor(p) \/ waitBeforeRetry(p)

PollerNext ==
    \/ NewRecord \/ CrashPolls
    \/ \E p \in Polls : pollPayments(p) \/ RunPoll(p) \/ PollFails(p)

\* The cron job fires every minute, and a poll goes on unless something fails.
PollerFairness == \A p \in Polls : WF_pollerVars(pollPayments(p)) /\ WF_pollerVars(RunPoll(p))

PollerSpec == PollerInit /\ [][PollerNext]_pollerVars /\ PollerFairness

-----------------------------------------------------------------------------
(* Properties *)

\* The saved cursor passes no payment over: each one up to it was handed to
\* autoConfirmPayment, though overlapping polls move the cursor forth and back, and a
\* poll that fails or dies leaves its page anywhere.
NoRecordSkipped ==
    cursor # Now => \A k \in paying : k <= cursor => k \in tried

\* Once the table has a cursor, every payment of the account is handed to
\* autoConfirmPayment, whatever polls overlap, set the cursor back, fail or die.
EveryRecordTried ==
    cursor # Now => \A k \in Records : (k <= landed /\ k \in paying) ~> (k \in tried)
=============================================================================
