---------------------------- MODULE PaymentsDisputed ----------------------------
(***************************************************************************)
(* Payments and disputes together: they meet in splits.isFrozen.  A dispute *)
(* that freezes or thaws a split updates the split's row, and waits while a *)
(* submission holds it; a submission that finds the split frozen refuses.  *)
(***************************************************************************)
EXTENDS PaymentProcessing

CONSTANTS Disputes, Handlers, MaxActions

VARIABLES dispute, handler, performed, reviewed

D == INSTANCE BackendDisputes WITH isFrozen <- frozen

ASSUME DisputedConstants == D!DisputeConstants

moreVars     == <<dispute, handler, performed, reviewed>>
disputedVars == <<paymentVars, moreVars>>

DisputedInit == Init /\ D!DisputesInit

\* The first form does not wait for the row.
FreezeAtOnce(h)  == TRUE
FreezeWaits(h)   == handler[h].split # None => splitLock[handler[h].split] = None
SetsFrozen(h)    == handler[h].op \in {"file", "resolve", "reject", "appeal"}

\* One await of a dispute's handler, with its effect on the split.
HandleDispute(h) ==
    /\ \/ \E s \in Splits : D!FindActiveDispute(h, s)
       \/ \E d \in Disputes :
            \/ FreezeWaits(h) /\ D!fileDispute(h, d)
            \/ \E op \in D!Operations : D!Load(h, op, d)
       \/ (SetsFrozen(h) => FreezeWaits(h)) /\ D!SaveAction(h)
       \/ D!SaveTransactionHash(h) \/ D!Abandon(h)
    /\ UNCHANGED <<pc, answer, books, seen, locks>>

HandlePayment(r) ==
    /\ submitPayment(r) \/ Proceed(r) \/ Crash(r)
    /\ UNCHANGED moreVars

DisputedNext ==
    \/ \E r \in Requests : HandlePayment(r)
    \/ \E h \in Handlers : HandleDispute(h)

\* Submissions are served to their end; nobody has to file, settle or finish a dispute.
DisputedSpec ==
    /\ DisputedInit /\ [][DisputedNext]_disputedVars
    /\ \A r \in Requests : WF_paymentVars(Proceed(r))

-----------------------------------------------------------------------------
(* Properties *)

\* With one handler and one dispute at a time, the documented life cycle: the split is
\* frozen exactly while its dispute is unsettled ("Whether the split is frozen due to
\* an active dispute", split.entity.ts), every action leaves its entry in the audit
\* trail, rows keep to their types and the status to the state machine.
DisputeLifeCycle ==
    /\ []D!DisputeRowsOK
    /\ [](D!FrozenWhileDisputed /\ D!FrozenOnlyWhileDisputed /\ D!AuditTrailComplete)
    /\ D!StatusFollowsMachine

\* No payment is committed about which a dispute is unsettled, not even one that was
\* under way, past its check of the split, when the dispute was filed.
NoCreditWhileDisputed ==
    [][\A r \in Requests, d \in Disputes :
         r \in credited' \ credited /\ dispute'[d].split = Target(r) =>
            dispute[d].status \in D!Settled /\ dispute'[d].status \in D!Settled]_disputedVars

\* Whatever disputes do to a split is what payment processing allows its surroundings:
\* they freeze and thaw, and never between a submission's check and its commit.
PaymentsRefined == Spec
=============================================================================
