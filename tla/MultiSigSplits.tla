---------------------------- MODULE MultiSigSplits ----------------------------
(***************************************************************************)
(* The multi-sig-splits contract: a split is executed once enough          *)
(* signatures are collected and its time lock has expired, while the       *)
(* admin changes the signers and the threshold under way.  A call that     *)
(* fails changes nothing; overflow traps.                                  *)
(***************************************************************************)
EXTENDS Naturals, FiniteSets

CONSTANTS
    SignIds,      \* split identifiers
    Signatories,  \* addresses
    Thresholds,   \* values callers pass as a threshold
    TimeLocks,    \* values callers pass as a time lock
    Unset,        \* what a missing record holds
    MaxStamp,     \* the highest timestamp an integer of the contract holds
    LastStamp     \* bound on the ledger's time

ASSUME MultiSigConstants ==
    /\ IsFiniteSet(Signatories)
    /\ Thresholds \subseteq Nat /\ TimeLocks \subseteq Nat
    /\ MaxStamp \in Nat /\ LastStamp \in 0..MaxStamp

VARIABLES
    signAdmin, \* the contract is initialised
    multisig,  \* the stored split of every identifier
    signed,    \* the signature records
    intents,   \* identifiers with an executed execution intent
    stamp      \* the ledger's timestamp

signVars == <<signAdmin, multisig, signed, intents, stamp>>

MultisigSplit ==
    [required_signatures : Nat, current_signatures : Nat, time_lock : Nat, created_at : Nat,
     status : {"Pending", "Active", "Executed", "Cancelled"}, signers : SUBSET Signatories]

ASSUME UnsetIsNoSplit == Unset \notin MultisigSplit

SignTypeOK ==
    /\ signAdmin \in BOOLEAN
    /\ multisig \in [SignIds -> MultisigSplit \cup {Unset}]
    /\ signed \subseteq SignIds \X Signatories
    /\ intents \subseteq SignIds
    /\ stamp \in 0..LastStamp

SignInit ==
    /\ signAdmin = FALSE
    /\ multisig = [id \in SignIds |-> Unset]
    /\ signed = {} /\ intents = {} /\ stamp = 0

split_exists(id) == multisig[id] # Unset
Open(id)         == split_exists(id) /\ multisig[id].status \in {"Pending", "Active"}
Signers(id)      == {a \in Signatories : <<id, a>> \in signed}

\* created_at + time_lock, when it does not overflow.
Representable(s) == s.created_at + s.time_lock <= MaxStamp
Unlocked(s)      == Representable(s) /\ stamp >= s.created_at + s.time_lock

initialize ==
    /\ ~signAdmin
    /\ signAdmin' = TRUE
    /\ UNCHANGED <<multisig, signed, intents, stamp>>

create_multisig_split(id, required, lock) ==
    /\ required > 0 /\ lock > 0
    /\ ~split_exists(id)
    /\ multisig' = [multisig EXCEPT ![id] =
         [required_signatures |-> required, current_signatures |-> 0, time_lock |-> lock,
          created_at |-> stamp, status |-> "Pending", signers |-> {}]]
    /\ UNCHANGED <<signAdmin, signed, intents, stamp>>

\* Anyone may sign while no signers are registered; the first form lets them sign twice.
MaySignAgain(id, a) == multisig[id].signers # {} => a \in multisig[id].signers
MaySign(id, a) ==
    /\ multisig[id].signers # {} => a \in multisig[id].signers
    /\ <<id, a>> \notin signed

\* The answer, can_execute, looks at the time lock once the signatures suffice.
sign_split(id, a) ==
    LET s == multisig[id]
        t == [s EXCEPT !.current_signatures = @ + 1, !.status = "Active"]
    IN  /\ Open(id)
        /\ MaySign(id, a)
        /\ t.current_signatures >= t.required_signatures => Representable(t)
        /\ multisig' = [multisig EXCEPT ![id] = t]
        /\ signed' = signed \cup {<<id, a>>}
        /\ UNCHANGED <<signAdmin, intents, stamp>>

execute_split(id) ==
    /\ split_exists(id)
    /\ multisig[id].status = "Active"
    /\ multisig[id].current_signatures >= multisig[id].required_signatures
    /\ Unlocked(multisig[id])
    /\ multisig' = [multisig EXCEPT ![id].status = "Executed"]
    /\ intents' = intents \cup {id}
    /\ UNCHANGED <<signAdmin, signed, stamp>>

cancel_split(id) ==
    /\ signAdmin /\ Open(id)
    /\ multisig' = [multisig EXCEPT ![id].status = "Cancelled"]
    /\ UNCHANGED <<signAdmin, signed, intents, stamp>>

emergency_override(id) ==
    /\ signAdmin /\ Open(id)
    /\ multisig' = [multisig EXCEPT ![id].status = "Executed"]
    /\ UNCHANGED <<signAdmin, signed, intents, stamp>>

add_signer(id, a) ==
    /\ signAdmin /\ Open(id)
    /\ a \notin multisig[id].signers
    /\ multisig' = [multisig EXCEPT ![id].signers = @ \cup {a}]
    /\ UNCHANGED <<signAdmin, signed, intents, stamp>>

\* The signature goes with its signer, and the threshold is lowered to what the
\* remaining signers can reach; the first form keeps the count.
WithoutButCounted(s, id, a) == [s EXCEPT !.signers = @ \ {a}]
Without(s, id, a) ==
    LET remaining == s.signers \ {a}
        n         == Cardinality(remaining)
    IN  [s EXCEPT !.signers = remaining,
                  !.current_signatures = IF <<id, a>> \in signed /\ @ > 0 THEN @ - 1 ELSE @,
                  !.required_signatures = IF @ > n THEN n ELSE @]

remove_signer(id, a) ==
    /\ signAdmin /\ Open(id)
    /\ a \in multisig[id].signers
    /\ Cardinality(multisig[id].signers) # 1
    /\ multisig' = [multisig EXCEPT ![id] = Without(multisig[id], id, a)]
    /\ signed' = signed \ (IF multisig[id].current_signatures > 0 THEN {<<id, a>>} ELSE {})
    /\ UNCHANGED <<signAdmin, intents, stamp>>

update_threshold(id, required) ==
    /\ signAdmin /\ Open(id)
    /\ required \in 1..Cardinality(multisig[id].signers)
    /\ multisig' = [multisig EXCEPT ![id].required_signatures = required]
    /\ UNCHANGED <<signAdmin, signed, intents, stamp>>

SignTick ==
    /\ stamp < LastStamp
    /\ stamp' = stamp + 1
    /\ UNCHANGED <<signAdmin, multisig, signed, intents>>

SignNext ==
    \/ initialize \/ SignTick
    \/ \E id \in SignIds :
         \/ execute_split(id) \/ cancel_split(id) \/ emergency_override(id)
         \/ \E required \in Thresholds, lock \in TimeLocks :
              create_multisig_split(id, required, lock)
         \/ \E required \in Thresholds : update_threshold(id, required)
         \/ \E a \in Signatories :
              sign_split(id, a) \/ add_signer(id, a) \/ remove_signer(id, a)

SignSpec == SignInit /\ [][SignNext]_signVars

-----------------------------------------------------------------------------
(* Properties *)

\* The counter of a split is the number of different addresses whose signature
\* is on record, whatever was done to its signers and threshold, and a split
\* that was executed without the admin's override had a full quorum of them and
\* an expired lock, still true of its record now.
QuorumBacksExecution ==
    \A id \in SignIds : split_exists(id) =>
        LET s == multisig[id] IN
        /\ s.current_signatures = Cardinality(Signers(id))
        /\ id \in intents =>
             /\ s.status = "Executed" /\ Unlocked(s)
             /\ s.current_signatures >= s.required_signatures /\ s.required_signatures > 0
=============================================================================
