------------------------------- MODULE MCRequests -------------------------------
(***************************************************************************)
(* An invitation, a short link, an idempotency key, the archive of a       *)
(* split, the simplification of debts, the collaborations of a track and   *)
(* the disputes of a split, which share nothing, one at a time: focus says *)
(* whose turn it is for the whole behaviour.                               *)
(***************************************************************************)
EXTENDS Invitations, ShortLinks, Idempotency, Archiving, DebtSimplification,
        Collaboration, BackendDisputes, TLC

VARIABLE focus
vars == <<focus, inviteVars, linkVars, idempotencyVars, archivingVars, debtVars,
          collaborationVars, disputeVars>>

\* Requests have the same names everywhere but at the interceptor.
Renamings == Permutations(Calls)

Init ==
    /\ focus \in {"invitation", "link", "key", "archive", "debts", "collaboration", "dispute"}
    /\ InviteInit /\ LinkInit /\ IdempotencyInit /\ ArchivingInit /\ DebtInit
    /\ CollaborationInit /\ DisputesInit
    \* An idle one of each kind beside the one in focus.
    /\ focus # "invitation" => users = {}
    /\ focus # "link" => others = 0
    /\ focus # "key" => ~nested
    \* Three clients with two payloads, up to the names of both: at most one differs.
    /\ LET c1 == CHOOSE c \in Clients : TRUE
           p1 == CHOOSE p \in Payloads : TRUE
       IN  /\ \A c \in Clients \ {c1} : call[c].payload = p1
           /\ focus # "key" => call[c1].payload = p1

\* What every kind keeps when another has its turn.
Kept ==
    /\ focus # "invitation" => UNCHANGED inviteVars
    /\ focus # "link" => UNCHANGED linkVars
    /\ focus # "key" => UNCHANGED idempotencyVars
    /\ focus # "archive" => UNCHANGED archivingVars
    /\ focus # "debts" => UNCHANGED debtVars
    /\ focus # "collaboration" => UNCHANGED collaborationVars
    /\ focus # "dispute" => UNCHANGED disputeVars

Next ==
    /\ UNCHANGED focus /\ Kept
    /\ \/ focus = "invitation" /\ InviteNext
       \/ focus = "link" /\ LinkNext
       \/ focus = "key" /\ IdempotencyNext
       \/ focus = "archive" /\ ArchivingNext
       \/ focus = "debts" /\ DebtNext
       \/ focus = "collaboration" /\ CollaborationNext
       \/ focus = "dispute" /\ DisputesNext

Spec == Init /\ [][Next]_vars
=============================================================================
