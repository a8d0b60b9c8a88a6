------------------------------- MODULE ShortLinks -------------------------------
(***************************************************************************)
(* Short links to one split (backend/src/short-links): one link that       *)
(* visitors resolve, counting and logging every access, while the split's  *)
(* creator deletes it and a member generates others up to a limit.         *)
(***************************************************************************)
EXTENDS Naturals, FiniteSets

CONSTANTS
    Visits,      \* requests
    MaxAccesses, \* of the link
    LinkLimit,   \* links of one member for one split, 20 in the source
    MaxDrops     \* bound on failing statements and crashes together

ASSUME ShortLinkConstants ==
    MaxAccesses \in Nat \ {0} /\ LinkLimit \in Nat \ {0} /\ MaxDrops \in Nat

VARIABLES
    link,    \* the link: is it there, and its accessCount
    others,  \* other links of the member, for the same split
    logs,    \* rows of the access log for the link
    ended,   \* the link has expired
    step,    \* where every request is, with the link it read or the links it counted
    served,  \* history: redirects answered
    races,   \* history: writes that undid or ignored another request's
    drops    \* failures so far

linkVars == <<link, others, logs, ended, step, served, races, drops>>

Link   == [there : BOOLEAN, count : 0..MaxAccesses]
Unread == [there |-> TRUE, count |-> 0]
NumLinks == others + (IF link.there THEN 1 ELSE 0)

LinkTypeOK ==
    /\ link \in Link /\ others \in Nat /\ logs \in Nat /\ ended \in BOOLEAN
    /\ step \in [Visits -> [at : {"new", "count", "log", "delete", "generate", "done"},
                            read : Link, counted : Nat]]

LinkInit ==
    /\ link = Unread /\ others \in 0..(LinkLimit - 1) /\ logs = 0 /\ ended = FALSE
    /\ step = [v \in Visits |-> [at |-> "new", read |-> Unread, counted |-> 0]]
    /\ served = 0 /\ races = 0 /\ drops = 0

Raced(so)  == races' = IF so THEN races + 1 ELSE races
Finish(v)  == step' = [step EXCEPT ![v] = [at |-> "done", read |-> Unread, counted |-> 0]]
Goes(v, a) == step' = [step EXCEPT ![v].at = a]

\* Whether the link may be resolved; the first form counts one access too many.
OneMore(l)    == l.count <= MaxAccesses
Resolvable(l) == l.count < MaxAccesses

resolve(v) ==
    /\ step[v].at = "new"
    /\ link.there /\ ~ended /\ Resolvable(link)
    /\ step' = [step EXCEPT ![v].at = "count", ![v].read = link]
    /\ UNCHANGED <<link, others, logs, ended, served, races, drops>>

\* Saving a link that was deleted meanwhile inserts it again.
CountAccess(v) ==
    /\ step[v].at = "count"
    /\ link' = [there |-> TRUE, count |-> step[v].read.count + 1]
    /\ Raced(link # step[v].read)
    /\ Goes(v, "log")
    /\ UNCHANGED <<others, logs, ended, served, drops>>

\* The log refers to the link.
LogAccess(v) ==
    /\ step[v].at = "log"
    /\ IF link.there THEN logs' = logs + 1 /\ served' = served + 1
       ELSE UNCHANGED <<logs, served>>
    /\ Finish(v)
    /\ UNCHANGED <<link, others, ended, races, drops>>

remove(v) ==
    /\ step[v].at = "new" /\ link.there
    /\ Goes(v, "delete")
    /\ UNCHANGED <<link, others, logs, ended, served, races, drops>>

\* The log goes with its link.
DeleteLink(v) ==
    /\ step[v].at = "delete"
    /\ link' = [there |-> FALSE, count |-> 0] /\ logs' = 0
    /\ Finish(v)
    /\ UNCHANGED <<others, ended, served, races, drops>>

generate(v) ==
    /\ step[v].at = "new"
    /\ NumLinks < LinkLimit
    /\ step' = [step EXCEPT ![v].at = "generate", ![v].counted = NumLinks]
    /\ UNCHANGED <<link, others, logs, ended, served, races, drops>>

InsertLink(v) ==
    /\ step[v].at = "generate"
    /\ others' = others + 1
    /\ Raced(NumLinks # step[v].counted)
    /\ Finish(v)
    /\ UNCHANGED <<link, logs, ended, served, drops>>

DropRequest(v) ==
    /\ step[v].at \notin {"new", "done"}
    /\ drops < MaxDrops /\ drops' = drops + 1
    /\ Finish(v)
    /\ UNCHANGED <<link, others, logs, ended, served, races>>

EndLink ==
    /\ ~ended /\ ended' = TRUE
    /\ UNCHANGED <<link, others, logs, step, served, races, drops>>

LinkNext ==
    \/ EndLink
    \/ \E v \in Visits :
         \/ resolve(v) \/ CountAccess(v) \/ LogAccess(v) \/ remove(v) \/ DeleteLink(v)
         \/ generate(v) \/ InsertLink(v) \/ DropRequest(v)

LinkSpec == LinkInit /\ [][LinkNext]_linkVars

-----------------------------------------------------------------------------
(* Properties *)

\* Each write that raced another lets at most MaxAccesses more redirects through, and
\* one more link than a member may have; the log shows no redirect that was not served,
\* and while nothing races or fails it shows as many as the link counts.
LinkLimitsLeakOnlyByRaces ==
    /\ served <= MaxAccesses * (1 + races)
    /\ NumLinks <= LinkLimit + races
    /\ logs <= served
    /\ races = 0 /\ drops = 0 /\ link.there =>
         link.count = logs + Cardinality({v \in Visits : step[v].at = "log"})
=============================================================================
