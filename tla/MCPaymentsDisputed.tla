-------------------------- MODULE MCPaymentsDisputed --------------------------
(* Payments while one dispute is filed, settled and appealed: two           *)
(* splits of 10.00 and a participant who owes 5.00 in the first.            *)
EXTENDS PaymentsDisputed

CONSTANTS s1, s2, bill, tip, k1, k2

MCSplitOf == [p \in 1..1 |-> s1]
MCOwed    == [p \in 1..1 |-> 500]
MCTotal   == [s \in Splits |-> 1000]
MCAmount  == [tx \in {bill, tip} |-> IF tx = bill THEN 500 ELSE 100]

Ask(s, p, tx, key) == [split |-> s, participant |-> p, tx |-> tx, key |-> key]

\* Two payments of one participant, and a participant looked for in the wrong split.
MCRequest == <<Ask(s1, 1, bill, k1), Ask(s1, 1, tip, k2), Ask(s2, 1, tip, k1)>>
=============================================================================
