-------------------------------- MODULE MCQueues --------------------------------
(***************************************************************************)
(* A batch, a webhook, an export and a proposal, which share nothing, one  *)
(* at a time: focus says whose turn it is for the whole behaviour.         *)
(***************************************************************************)
EXTENDS BatchJobs, WebhookDelivery, ExportJobs, Governance, TLC

VARIABLE focus
vars == <<focus, batchVars, webhookVars, exportVars, governanceVars>>

\* Lanes, voters and the callers of a proposal share their names.
Renamings == Permutations(Lanes)

Init ==
    /\ focus \in {"batch", "webhook", "export", "governance"}
    /\ BatchInit /\ WebhookInit /\ ExportInit /\ GovernanceInit
    /\ focus # "batch" => job.state = "none"  \* idle ones beside the one in focus
    /\ focus # "governance" => \A q \in Quorums : proposal.quorum <= q

Next ==
    /\ UNCHANGED focus
    /\ \/ /\ focus = "batch" /\ BatchNext
          /\ UNCHANGED <<webhookVars, exportVars, governanceVars>>
       \/ /\ focus = "webhook" /\ WebhookNext
          /\ UNCHANGED <<batchVars, exportVars, governanceVars>>
       \/ /\ focus = "export" /\ ExportNext
          /\ UNCHANGED <<batchVars, webhookVars, governanceVars>>
       \/ /\ focus = "governance" /\ GovernanceNext
          /\ UNCHANGED <<batchVars, webhookVars, exportVars>>

Spec == Init /\ [][Next]_vars
=============================================================================
