------------------------- MODULE MCPaymentProcessing -------------------------
(* Model-checking instances of PaymentProcessing: two participants who owe   *)
(* 5.00 each, in one split.                                                  *)
EXTENDS PaymentProcessing

CONSTANTS s1, s2, bill, tip, path, k1, k2

OneSplit  == [p \in 1..2 |-> s1]
MCOwed == [p \in 1..2 |-> 500]
MCTotal == [s \in Splits |-> 1000]
MCAmount == [tx \in {bill, tip, path} |->
                IF tx = bill THEN 500 ELSE IF tx = tip THEN 100 ELSE 400]

Ask(s, p, tx, key) == [split |-> s, participant |-> p, tx |-> tx, key |-> key]

\* A bill submitted twice under one key, a second payment of the same
\* participant, and one of the other participant.
RacingRequests == <<Ask(s1, 1, bill, k1), Ask(s1, 1, bill, k1),
                    Ask(s1, 1, tip, None), Ask(s1, 2, path, k2)>>

\* The client submits with a key of its own what the Horizon poller found too.
PolledRequests == <<Ask(s1, 1, bill, k1), Ask(s1, 1, bill, None), Ask(s1, 2, tip, k2)>>

=============================================================================
