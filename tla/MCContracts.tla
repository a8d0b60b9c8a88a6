------------------------------ MODULE MCContracts ------------------------------
(***************************************************************************)
(* The contracts that share nothing, one at a time: focus says whose turn  *)
(* it is for the whole behaviour.                                          *)
(***************************************************************************)
EXTENDS MultiSigSplits, FlashLoan, PathPayment, SplitTemplate, TLC

VARIABLE focus
vars == <<focus, signVars, loanVars, pathVars, templateVars>>

\* A stranger's share next to one above a hundred, among others.
MCShareLists == {<<>>, <<60, 40>>, <<-1, 101>>}
Renamings    == Permutations(PathAssets)

Init ==
    /\ focus \in {"multi-sig", "flash-loan", "path-payment", "template"}
    /\ SignInit /\ LoanInit /\ PathInit /\ TemplateInit

Next ==
    /\ UNCHANGED focus
    /\ \/ focus = "multi-sig" /\ SignNext /\ UNCHANGED <<loanVars, pathVars, templateVars>>
       \/ focus = "flash-loan" /\ LoanNext /\ UNCHANGED <<signVars, pathVars, templateVars>>
       \/ focus = "path-payment" /\ PathNext /\ UNCHANGED <<signVars, loanVars, templateVars>>
       \/ focus = "template" /\ TemplateNext /\ UNCHANGED <<signVars, loanVars, pathVars>>

Spec == Init /\ [][Next]_vars
=============================================================================
