---------------------------- MODULE WebhookDelivery ----------------------------
(***************************************************************************)
(* Deliveries to one webhook (backend/src/webhooks): the queue runs every  *)
(* delivery up to MAX_RETRIES times, deliveries overlap, and each of them  *)
(* writes the failure count of the webhook they share as it read it, while *)
(* the owner changes the webhook.                                          *)
(***************************************************************************)
EXTENDS Naturals

CONSTANTS
    Deliveries,   \* deliveries that events can give rise to
    MAX_RETRIES,  \* attempts of one delivery
    Threshold,    \* failures that deactivate the webhook, 10 in the source
    MaxChanges,   \* bound on the owner's calls
    MaxErrors     \* bound on failing statements and crashes together

ASSUME WebhookConstants ==
    /\ MAX_RETRIES \in Nat \ {0} /\ Threshold \in Nat \ {0}
    /\ MaxChanges \in Nat /\ MaxErrors \in Nat

VARIABLES
    webhook,   \* isActive and failureCount of the row
    delivery,  \* status and attemptCount of every delivery
    queued,    \* its job: waiting or not, and the attempts the queue counted
    sender,    \* where the run of that job is, what the receiver answered, and the
               \* webhook row and the attempts it holds
    change,    \* the owner's call: the row it read and what isActive will be
    changes,   \* calls of the owner so far
    posts,     \* history: requests the receiver got and accepted, per delivery
    blame,     \* history: failures a receiver or a fault is to blame for
    off,       \* history: the owner switched the webhook off
    errors     \* failures so far

webhookVars == <<webhook, delivery, queued, sender, change, changes, posts, blame, off, errors>>

Hook    == [active : BOOLEAN, failures : Nat]
Fresh   == [active |-> TRUE, failures |-> 0]
Waiting == [at |-> "idle", answer |-> "none", hook |-> Fresh, attempts |-> 0]
Quiet   == [at |-> "idle", hook |-> Fresh, active |-> TRUE]

WebhookTypeOK ==
    /\ webhook \in Hook
    /\ delivery \in [Deliveries -> [status : {"none", "pending", "success", "failed"}, attempts : Nat]]
    /\ queued \in [Deliveries -> [state : {"none", "waiting", "active"}, attempts : 0..MAX_RETRIES]]
    /\ sender \in [Deliveries ->
         [at : {"idle", "count", "post", "record", "load", "stats", "failed", "reload", "blame"},
          answer : {"none", "2xx", "4xx", "5xx", "error"}, hook : Hook, attempts : Nat]]
    /\ change \in [at : {"idle", "save"}, hook : Hook, active : BOOLEAN]

WebhookInit ==
    /\ webhook = Fresh
    /\ delivery = [d \in Deliveries |-> [status |-> "none", attempts |-> 0]]
    /\ queued = [d \in Deliveries |-> [state |-> "none", attempts |-> 0]]
    /\ sender = [d \in Deliveries |-> Waiting]
    /\ change = Quiet /\ changes = 0
    /\ posts = [d \in Deliveries |-> [sent |-> 0, accepted |-> 0]]
    /\ blame = 0 /\ off = FALSE /\ errors = 0

Error    == errors < MaxErrors /\ errors' = errors + 1
On(d, a) == sender[d].at = a
To(d, a) == sender' = [sender EXCEPT ![d].at = a]

\* The job ends; thrown errors bring it back while attempts are left.
Return(d, thrown) ==
    /\ sender' = [sender EXCEPT ![d] = Waiting]
    /\ queued' = [queued EXCEPT ![d].state =
                    IF thrown /\ queued[d].attempts < MAX_RETRIES THEN "waiting" ELSE "none"]

\* triggerEvent and queueDelivery; a crash before the last statement queues nothing.
triggerEvent(d) ==
    /\ webhook.active
    /\ delivery[d].status = "none"
    /\ delivery' = [delivery EXCEPT ![d].status = "pending"]
    /\ \/ queued' = [queued EXCEPT ![d].state = "waiting"] /\ UNCHANGED errors
       \/ Error /\ UNCHANGED queued
    /\ UNCHANGED <<webhook, sender, change, changes, posts, blame, off>>

Begin(d) ==
    /\ queued[d].state = "waiting"
    /\ queued' = [queued EXCEPT ![d] = [state |-> "active", attempts |-> @.attempts + 1]]
    /\ sender' = [sender EXCEPT ![d].at = "count", ![d].attempts = delivery[d].attempts]
    /\ UNCHANGED <<webhook, delivery, change, changes, posts, blame, off, errors>>

CountAttempt(d) ==
    /\ On(d, "count")
    /\ delivery' = [delivery EXCEPT ![d].attempts = sender[d].attempts + 1]
    /\ sender' = [sender EXCEPT ![d].at = "post", ![d].attempts = @ + 1]
    /\ UNCHANGED <<webhook, queued, change, changes, posts, blame, off, errors>>

\* Any status is an answer; only a request without one throws.
Post(d, answer) ==
    /\ On(d, "post")
    /\ posts' = [posts EXCEPT ![d] = [sent |-> @.sent + 1,
                                      accepted |-> @.accepted + (IF answer = "2xx" THEN 1 ELSE 0)]]
    /\ sender' = [sender EXCEPT ![d].at = IF answer = "error" THEN "failed" ELSE "record",
                                ![d].answer = answer]
    /\ blame' = IF answer = "5xx" \/ (answer = "error" /\ sender[d].attempts >= MAX_RETRIES)
                THEN blame + 1 ELSE blame
    /\ UNCHANGED <<webhook, delivery, queued, change, changes, off, errors>>

Record(d) ==
    /\ On(d, "record")
    /\ delivery' = [delivery EXCEPT ![d] =
         [status |-> IF sender[d].answer = "2xx" THEN "success" ELSE "failed",
          attempts |-> sender[d].attempts]]
    /\ To(d, "load")
    /\ UNCHANGED <<webhook, queued, change, changes, posts, blame, off, errors>>

LoadWebhook(d) ==
    /\ On(d, "load")
    /\ IF sender[d].answer = "4xx" THEN Return(d, FALSE)
       ELSE /\ sender' = [sender EXCEPT ![d].at = "stats", ![d].hook = webhook]
            /\ UNCHANGED queued
    /\ UNCHANGED <<webhook, delivery, change, changes, posts, blame, off, errors>>

incrementFailureCount(hook) ==
    [active |-> hook.active /\ hook.failures + 1 < Threshold, failures |-> hook.failures + 1]

SaveStats(d) ==
    /\ On(d, "stats")
    /\ webhook' = IF sender[d].answer = "2xx" THEN [sender[d].hook EXCEPT !.failures = 0]
                  ELSE incrementFailureCount(sender[d].hook)
    /\ Return(d, FALSE)
    /\ UNCHANGED <<delivery, change, changes, posts, blame, off, errors>>

\* The catch block, with whatever threw.
RecordError(d) ==
    /\ On(d, "failed")
    /\ delivery' = [delivery EXCEPT ![d] = [status |-> "failed", attempts |-> sender[d].attempts]]
    /\ To(d, "reload")
    /\ UNCHANGED <<webhook, queued, change, changes, posts, blame, off, errors>>

\* Whether the attempts are used up; the first form blames the webhook for each.
EveryAttempt(d) == TRUE
LastAttempt(d)  == sender[d].attempts >= MAX_RETRIES

ReloadWebhook(d) ==
    /\ On(d, "reload")
    /\ IF LastAttempt(d)
       THEN /\ sender' = [sender EXCEPT ![d].at = "blame", ![d].hook = webhook]
            /\ UNCHANGED queued
       ELSE Return(d, TRUE)
    /\ UNCHANGED <<webhook, delivery, change, changes, posts, blame, off, errors>>

BlameWebhook(d) ==
    /\ On(d, "blame")
    /\ webhook' = incrementFailureCount(sender[d].hook)
    /\ Return(d, TRUE)
    /\ UNCHANGED <<delivery, change, changes, posts, blame, off, errors>>

\* A statement fails: before the request it ends the attempt, inside the try block it
\* counts as a failed request, in the catch block it ends the attempt.
StatementThrows(d) ==
    /\ ~On(d, "idle") /\ ~On(d, "post")
    /\ Error /\ blame' = blame + 1
    /\ IF sender[d].at \in {"record", "load", "stats"}
       THEN sender' = [sender EXCEPT ![d].at = "failed", ![d].answer = "error"] /\ UNCHANGED queued
       ELSE Return(d, TRUE)
    /\ UNCHANGED <<webhook, delivery, change, changes, posts, off>>

\* The process dies; the queue runs a stalled job once more.
CrashSender(d) ==
    /\ ~On(d, "idle")
    /\ Error /\ blame' = blame + 1
    /\ sender' = [sender EXCEPT ![d] = Waiting]
    /\ queued' = [queued EXCEPT ![d] = [state |-> "waiting", attempts |-> @.attempts - 1]]
    /\ UNCHANGED <<webhook, delivery, change, changes, posts, off>>

update(active) ==
    /\ change.at = "idle" /\ changes < MaxChanges
    /\ change' = [at |-> "save", hook |-> webhook, active |-> active]
    /\ changes' = changes + 1
    /\ UNCHANGED <<webhook, delivery, queued, sender, posts, blame, off, errors>>

SaveUpdate ==
    /\ change.at = "save"
    /\ webhook' = [change.hook EXCEPT !.active = change.active]
    /\ off' = (off \/ (change.hook.active /\ ~change.active))
    /\ change' = Quiet
    /\ UNCHANGED <<delivery, queued, sender, changes, posts, blame, errors>>

WebhookNext ==
    \/ \E d \in Deliveries :
         \/ triggerEvent(d) \/ Begin(d) \/ CountAttempt(d) \/ Record(d) \/ LoadWebhook(d)
         \/ SaveStats(d) \/ RecordError(d) \/ ReloadWebhook(d) \/ BlameWebhook(d)
         \/ StatementThrows(d) \/ CrashSender(d)
         \/ \E answer \in {"2xx", "4xx", "5xx", "error"} : Post(d, answer)
    \/ (\E active \in BOOLEAN : update(active)) \/ SaveUpdate

WebhookSpec == WebhookInit /\ [][WebhookNext]_webhookVars

-----------------------------------------------------------------------------
(* Properties *)

\* However deliveries overwrite each other's count: a webhook its owner left on is
\* deactivated only after Threshold failures it is to blame for, its count never
\* exceeds them, and what the receiver accepted once is sent again only after a fault.
WebhookJudgedFairly ==
    /\ webhook.failures <= blame
    /\ ~webhook.active /\ ~off => blame >= Threshold
    /\ \A d \in Deliveries : /\ posts[d].accepted <= 1 + errors
                             /\ posts[d].sent <= MAX_RETRIES + errors
                             /\ delivery[d].status = "success" => posts[d].accepted > 0
=============================================================================
