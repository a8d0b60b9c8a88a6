------------------------------ MODULE Idempotency ------------------------------
(***************************************************************************)
(* Requests that carry one idempotency key (backend/src/common/            *)
(* idempotency): look the record up, run the handler, answer, and store    *)
(* the answer without anybody waiting for it.  The interceptor wraps every *)
(* route once and the payment routes twice.                                *)
(***************************************************************************)
EXTENDS Naturals, FiniteSets

CONSTANTS
    Clients,     \* requests with the key
    Payloads,
    NoRecord,    \* nothing is stored under the key
    MaxStops     \* bound on crashes of the process

ASSUME IdempotencyConstants == MaxStops \in Nat

Layers == {"outer", "inner"}

VARIABLES
    nested,  \* the route has the interceptor twice
    record,  \* the row of the key: the payload and the request whose answer it is
    call,    \* where every request is, its payload, whose answer it got
    writer,  \* the write every layer of a request left behind, and what it found
    ran,     \* history: requests whose handler ran to its end
    late,    \* history: requests that came when an answer was stored
    stops    \* crashes so far

idempotencyVars == <<nested, record, call, writer, ran, late, stops>>

Record == [payload : Payloads, by : Clients]

ASSUME NoRecordIsNoRow == NoRecord \notin Record

IdempotencyTypeOK ==
    /\ nested \in BOOLEAN
    /\ record \in Record \cup {NoRecord}
    /\ call \in [Clients -> [at : {"new", "outer", "inner", "handler", "answered", "refused",
                                   "failed", "lost"},
                             payload : Payloads, from : Clients]]
    /\ writer \in [Clients \X Layers -> {"none", "look", "insert", "update"}]
    /\ ran \subseteq Clients /\ late \subseteq Clients

IdempotencyInit ==
    /\ nested \in BOOLEAN
    /\ record = NoRecord
    /\ call \in {f \in [Clients -> [at : {"new"}, payload : Payloads, from : Clients]] :
                   \A c \in Clients : f[c].from = c}
    /\ writer = [w \in Clients \X Layers |-> "none"]
    /\ ran = {} /\ late = {} /\ stops = 0

GoesTo(c, place) == call' = [call EXCEPT ![c].at = place]

Arrive(c) ==
    /\ call[c].at = "new"
    /\ GoesTo(c, IF nested THEN "outer" ELSE "inner")
    /\ late' = IF record = NoRecord THEN late ELSE late \cup {c}
    /\ UNCHANGED <<nested, record, writer, ran, stops>>

\* Whether a stored answer is for this request; the first form trusts the key alone.
SameKey(c)     == record # NoRecord
SamePayload(c) == record.payload = call[c].payload

\* One layer of intercept: with no record it hands the request on.
intercept(c) ==
    /\ call[c].at \in Layers
    /\ IF record = NoRecord
       THEN GoesTo(c, IF call[c].at = "outer" THEN "inner" ELSE "handler")
       ELSE call' = [call EXCEPT ![c].at = IF SamePayload(c) THEN "answered" ELSE "refused",
                                 ![c].from = IF SamePayload(c) THEN record.by ELSE @]
    \* What the inner layer answers passes the outer one, which stores it as its own.
    /\ writer' = IF /\ nested /\ call[c].at = "inner"
                    /\ record # NoRecord /\ SamePayload(c)
                 THEN [writer EXCEPT ![<<c, "outer">>] = "look"] ELSE writer
    /\ UNCHANGED <<nested, record, ran, late, stops>>

\* An answer passes every layer, an exception none.
Handle(c) ==
    /\ call[c].at = "handler"
    /\ \/ /\ GoesTo(c, "answered")
          /\ ran' = ran \cup {c}
          /\ writer' = [w \in DOMAIN writer |->
               IF w = <<c, "inner">> \/ (nested /\ w = <<c, "outer">>) THEN "look" ELSE writer[w]]
       \/ GoesTo(c, "failed") /\ UNCHANGED <<ran, writer>>
    /\ UNCHANGED <<nested, record, late, stops>>

\* save looks whether the key is there.
FindRecord(w) ==
    /\ writer[w] = "look"
    /\ writer' = [writer EXCEPT ![w] = IF record = NoRecord THEN "insert" ELSE "update"]
    /\ UNCHANGED <<nested, record, call, ran, late, stops>>

Answered(w) == [payload |-> call[w[1]].payload, by |-> call[w[1]].from]

createRecord(w) ==
    /\ writer[w] = "update" \/ (writer[w] = "insert" /\ record = NoRecord)
    /\ record' = Answered(w)
    /\ writer' = [writer EXCEPT ![w] = "none"]
    /\ UNCHANGED <<nested, call, ran, late, stops>>

\* The process ends, and with it whatever it had under way.
Stopped ==
    /\ writer' = [w \in DOMAIN writer |-> "none"]
    /\ call' = [c \in Clients |-> IF call[c].at \in Layers \cup {"handler"}
                                  THEN [call[c] EXCEPT !.at = "lost"] ELSE call[c]]

\* The second of two inserts is rejected, in a promise nobody holds.
InsertRejected(w) ==
    /\ writer[w] = "insert" /\ record # NoRecord
    /\ \/ Stopped
       \/ writer' = [writer EXCEPT ![w] = "none"] /\ UNCHANGED call
    /\ UNCHANGED <<nested, record, ran, late, stops>>

Stop ==
    /\ stops < MaxStops /\ stops' = stops + 1
    /\ Stopped
    /\ UNCHANGED <<nested, record, ran, late>>

IdempotencyNext ==
    \/ \E c \in Clients : Arrive(c) \/ intercept(c) \/ Handle(c)
    \/ \E w \in Clients \X Layers : FindRecord(w) \/ createRecord(w) \/ InsertRejected(w)
    \/ Stop

IdempotencySpec == IdempotencyInit /\ [][IdempotencyNext]_idempotencyVars

-----------------------------------------------------------------------------
(* Properties *)

\* Requests with the key overlap, race to store their answers and lose the process:
\* whoever is answered gets the answer of a handler that ran for the same payload, a
\* request that came after an answer was stored runs nothing, and no stored answer is
\* of a request whose handler did not end.
AnswersAreReplayed ==
    /\ \A c \in Clients : call[c].at = "answered" =>
         call[c].from \in ran /\ call[call[c].from].payload = call[c].payload
    /\ ran \cap late = {}
    /\ record # NoRecord => record.by \in ran /\ call[record.by].payload = record.payload
=============================================================================
