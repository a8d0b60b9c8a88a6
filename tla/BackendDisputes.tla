--------------------------- MODULE BackendDisputes ---------------------------
(***************************************************************************)
(* The dispute service of the backend (backend/src/disputes).  A handler   *)
(* loads a row, checks the status against the state machine, and later     *)
(* saves the whole object: TypeORM's save writes back every column that    *)
(* differs from the stored row, stale ones included, and nothing locks the *)
(* row in between.  Filing, resolving, rejecting and appealing also set    *)
(* the split's isFrozen in the same transaction; filing and resolving then *)
(* await the blockchain client and save the object they hold once more.    *)
(* Handlers run concurrently and may die between two awaits.               *)
(***************************************************************************)
EXTENDS Naturals

CONSTANTS
    Disputes,   \* ids of disputes that may be filed
    Splits,
    Handlers,   \* requests served at the same time
    None,       \* no dispute, no split
    MaxActions  \* bound on the actions taken on one dispute

ASSUME DisputeConstants ==
    /\ None \notin Disputes \cup Splits
    /\ MaxActions \in Nat

VARIABLES
    dispute,   \* the dispute rows
    isFrozen,  \* splits.isFrozen
    handler,   \* what every handler does and the object it holds
    performed, \* how many audited actions were done on every dispute
    reviewed   \* the disputes that have been under review at some time

disputeVars == <<dispute, isFrozen, handler, performed, reviewed>>

Statuses == {"open", "evidence_collection", "under_review", "resolved", "rejected", "appealed"}
Settled  == {"resolved", "rejected"}

\* A row; status "none" while it does not exist.  trail counts the entries of
\* the auditTrail column.
NoRow == [status |-> "none", split |-> None, splitFrozen |-> FALSE, trail |-> 0]
Row == [status : Statuses \cup {"none"}, split : Splits \cup {None},
        splitFrozen : BOOLEAN, trail : Nat]

Operations == {"evidence", "collect", "review", "resolve", "reject", "appeal", "request"}

Idle == [op |-> "idle", id |-> None, split |-> None, copy |-> NoRow]

DisputeRowsOK ==
    /\ dispute \in [Disputes -> Row]
    /\ isFrozen \in [Splits -> BOOLEAN]
    /\ handler \in [Handlers -> [op : Operations \cup {"idle", "file", "onchain"},
                                 id : Disputes \cup {None}, split : Splits \cup {None}, copy : Row]]
    /\ performed \in [Disputes -> Nat]
    /\ reviewed \subseteq Disputes

DisputesInit ==
    /\ dispute = [d \in Disputes |-> NoRow]
    /\ isFrozen = [s \in Splits |-> FALSE]
    /\ handler = [h \in Handlers |-> Idle]
    /\ performed = [d \in Disputes |-> 0]
    /\ reviewed = {}

-----------------------------------------------------------------------------
(* The state machine and what an operation makes of a row *)

VALID_TRANSITIONS ==
    [open                |-> {"evidence_collection"},
     evidence_collection |-> {"under_review"},
     under_review        |-> {"resolved", "rejected"},
     resolved            |-> {"appealed"},
     rejected            |-> {"appealed"},
     appealed            |-> {"under_review"}]

canTransition(from, to) == from = to \/ to \in VALID_TRANSITIONS[from]

Target == [collect |-> "evidence_collection", review |-> "under_review",
           resolve |-> "resolved", reject |-> "rejected", appeal |-> "appealed"]

\* The first form checks nothing.
AllowsAny(op, status) == TRUE
Allows(op, status) ==
    CASE op = "evidence" -> status \in {"open", "evidence_collection"}
      [] op = "request"  -> status \in {"evidence_collection", "under_review"}
      [] OTHER           -> canTransition(status, Target[op])

\* Audit entries an operation adds: evidence for an open dispute changes the
\* status too.
Entries(op, status) == IF op = "evidence" /\ status = "open" THEN 2 ELSE 1

\* The first form rejects into a status the state machine does not know.
NewStatusClosing(op, status) ==
    CASE op = "reject"        -> "closed"
      [] op \in DOMAIN Target -> Target[op]
      [] OTHER                -> status
NewStatus(op, status) ==
    CASE op = "evidence" -> "evidence_collection"
      [] op = "request"  -> status
      [] OTHER           -> Target[op]

\* The freeze flag after an operation; the first forms forget the appeal and the
\* rejection.
FreezeForgettingAppeal(op, flag) ==
    IF op \in {"resolve", "reject"} THEN FALSE ELSE flag
FreezeForgettingRejection(op, flag) ==
    IF op = "resolve" THEN FALSE ELSE IF op = "appeal" THEN TRUE ELSE flag
FreezeAfter(op, flag) ==
    IF op \in {"resolve", "reject"} THEN FALSE ELSE IF op = "appeal" THEN TRUE ELSE flag

\* The first form leaves the audit trail alone.
UpdatedSilently(op, row) ==
    [row EXCEPT !.status = NewStatus(op, @), !.splitFrozen = FreezeAfter(op, @)]
Updated(op, row) ==
    [row EXCEPT !.status = NewStatus(op, @), !.splitFrozen = FreezeAfter(op, @),
                !.trail = @ + Entries(op, row.status)]

ActiveStatuses == {"open", "evidence_collection", "under_review"}
ActiveOn(s) == {d \in Disputes : dispute[d].split = s /\ dispute[d].status \in ActiveStatuses}

\* Write a whole row back.
Save(d, row) ==
    /\ dispute' = [dispute EXCEPT ![d] = row]
    /\ reviewed' = IF row.status = "under_review" THEN reviewed \cup {d} ELSE reviewed

-----------------------------------------------------------------------------
(* Handlers *)

\* fileDispute up to its check for an active dispute of the split.
FindActiveDispute(h, s) ==
    /\ handler[h] = Idle
    /\ ActiveOn(s) = {}
    /\ handler' = [handler EXCEPT ![h] = [Idle EXCEPT !.op = "file", !.split = s]]
    /\ UNCHANGED <<dispute, isFrozen, performed, reviewed>>

\* The freeze of the split; the first form leaves it out.
FilingFreezesNot(s) == UNCHANGED isFrozen
FilingFreezes(s) == isFrozen' = [isFrozen EXCEPT ![s] = TRUE]

\* The rest of its transaction: the new row and the freeze.
fileDispute(h, d) ==
    LET s == handler[h].split
        row == [status |-> "open", split |-> s, splitFrozen |-> TRUE, trail |-> 1]
    IN
    /\ handler[h].op = "file"
    /\ dispute[d].status = "none"
    /\ Save(d, row)
    /\ FilingFreezes(s)
    /\ performed' = [performed EXCEPT ![d] = 1]
    /\ handler' = [handler EXCEPT ![h] = [op |-> "onchain", id |-> d, split |-> s,
                                          copy |-> [row EXCEPT !.trail = @ + 1]]]

\* Every other operation starts by loading the row and checking its status.
Load(h, op, d) ==
    /\ handler[h] = Idle
    /\ dispute[d].status # "none"
    /\ performed[d] < MaxActions
    /\ Allows(op, dispute[d].status)
    /\ handler' = [handler EXCEPT ![h] = [op |-> op, id |-> d, split |-> dispute[d].split,
                                          copy |-> dispute[d]]]
    /\ UNCHANGED <<dispute, isFrozen, performed, reviewed>>

\* The operation on the loaded object is saved, with the split's flag in the same
\* transaction when the operation sets it.
SaveAction(h) ==
    LET op == handler[h].op
        d == handler[h].id
        row == Updated(op, handler[h].copy)
    IN
    /\ op \in Operations
    /\ Save(d, row)
    /\ isFrozen' = [isFrozen EXCEPT ![row.split] = FreezeAfter(op, @)]
    /\ performed' = [performed EXCEPT ![d] = @ + Entries(op, handler[h].copy.status)]
    /\ handler' = [handler EXCEPT ![h] =
                     IF op = "resolve" THEN [@ EXCEPT !.op = "onchain", !.copy = row] ELSE Idle]

\* The blockchain client answered: the object of before the await is saved again,
\* after filing with one more audit entry.
SaveTransactionHash(h) ==
    LET d == handler[h].id
        row == handler[h].copy
    IN
    /\ handler[h].op = "onchain"
    /\ Save(d, row)
    /\ performed' = IF row.status = "open" THEN [performed EXCEPT ![d] = @ + 1] ELSE performed
    /\ handler' = [handler EXCEPT ![h] = Idle]
    /\ UNCHANGED isFrozen

\* A failing call, an expired appeal window, a dead process: what was committed stays.
Abandon(h) ==
    /\ handler[h] # Idle
    /\ handler' = [handler EXCEPT ![h] = Idle]
    /\ UNCHANGED <<dispute, isFrozen, performed, reviewed>>

DisputesNext ==
    \E h \in Handlers :
        \/ \E s \in Splits : FindActiveDispute(h, s)
        \/ \E d \in Disputes : \/ fileDispute(h, d)
                               \/ \E op \in Operations : Load(h, op, d)
        \/ SaveAction(h) \/ SaveTransactionHash(h) \/ Abandon(h)

DisputesSpec == DisputesInit /\ [][DisputesNext]_disputeVars

-----------------------------------------------------------------------------
(* Properties that hold under every interleaving *)

\* No dispute is resolved, rejected or appealed that has never been under review,
\* whatever stale objects are saved (resolveDispute, rejectDispute, appealDispute).
SettledWasReviewed ==
    \A d \in Disputes : dispute[d].status \in Settled \cup {"appealed"} => d \in reviewed

\* A split changes between frozen and unfrozen only in one transaction with the
\* dispute that causes it, and no dispute comes into being on a split left unfrozen.
FreezeMovesWithDispute ==
    [][\A s \in Splits :
         /\ isFrozen[s] /\ ~isFrozen'[s] =>
              \E d \in Disputes : /\ dispute'[d].split = s /\ dispute'[d].status \in Settled
                                  /\ ~dispute'[d].splitFrozen
         /\ ~isFrozen[s] /\ isFrozen'[s] =>
              \E d \in Disputes : /\ dispute'[d].split = s /\ dispute'[d].splitFrozen
                                  /\ dispute'[d].status \in {"open", "appealed"}
         /\ \A d \in Disputes :
              dispute[d].status = "none" /\ dispute'[d].split = s => isFrozen'[s]]_disputeVars

-----------------------------------------------------------------------------
(* What the documentation promises: it holds of one handler and one dispute *)

\* "Whether the split is frozen due to an active dispute" (split.entity.ts):
\* a split with an unsettled dispute is frozen.
FrozenWhileDisputed ==
    \A d \in Disputes :
        dispute[d].status \in ActiveStatuses \cup {"appealed"} => isFrozen[dispute[d].split]

\* A split without an unsettled dispute accepts payments again.
FrozenOnlyWhileDisputed ==
    \A s \in Splits : isFrozen[s] =>
        \E d \in Disputes : dispute[d].split = s /\ dispute[d].status \notin Settled \cup {"none"}

\* "Enforces valid state transitions and prevents invalid changes"
\* (dispute.state-machine.ts).
StatusFollowsMachine ==
    [][\A d \in Disputes :
         dispute[d].status # "none" => canTransition(dispute[d].status, dispute'[d].status)]_disputeVars

\* "Every action is recorded" (disputes/EXAMPLE_WORKFLOW.md): the audit trail has
\* an entry for every action taken.
AuditTrailComplete == \A d \in Disputes : dispute[d].trail = performed[d]
=============================================================================
