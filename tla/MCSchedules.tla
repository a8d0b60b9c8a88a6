------------------------------ MODULE MCSchedules ------------------------------
(***************************************************************************)
(* A recurring split, an OCR job and the Horizon poller, which share       *)
(* nothing, one at a time: focus says whose turn it is for the whole       *)
(* behaviour.                                                              *)
(***************************************************************************)
EXTENDS RecurringSplits, OcrJobs, HorizonPoller

VARIABLE focus
vars == <<focus, recurringVars, ocrVars, pollerVars>>

Init ==
    /\ focus \in {"recurring", "ocr", "poller"}
    /\ RecurringInit /\ OcrInit /\ PollerInit
    \* An idle one of each kind beside the one in focus.
    /\ focus # "recurring" => row.ends = Never
    /\ focus # "poller" => ~monitored /\ paying = {} /\ cursor = Now

Next ==
    /\ UNCHANGED focus
    /\ \/ focus = "recurring" /\ RecurringNext /\ UNCHANGED <<ocrVars, pollerVars>>
       \/ focus = "ocr" /\ OcrNext /\ UNCHANGED <<recurringVars, pollerVars>>
       \/ focus = "poller" /\ PollerNext /\ UNCHANGED <<recurringVars, ocrVars>>

\* Neither asks anything of an idle one: nothing is due on day 0, and a poll without an
\* account does nothing.
Spec == Init /\ [][Next]_vars /\ RecurringFairness /\ PollerFairness
=============================================================================
