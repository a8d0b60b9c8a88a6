---------------------------- MODULE ContractProofs ----------------------------
(***************************************************************************)
(* The contracts that share nothing, for every number of splits, signers,  *)
(* borrowers, templates and pairs: what backs an executed multi-signature  *)
(* split, what the flash-loan pool keeps, how the template stores agree,   *)
(* and that the search for a path misses none and returns a shortest.      *)
(***************************************************************************)
EXTENDS MultiSigSplits, FlashLoan, SplitTemplate, PathPayment, SumsProofs, TLAPS

-----------------------------------------------------------------------------
(* multi-sig-splits *)

\* What QuorumBacksExecution says of one stored split.
Backed(id) ==
    /\ multisig[id].current_signatures = Cardinality(Signers(id))
    /\ id \in intents =>
         /\ multisig[id].status = "Executed" /\ Unlocked(multisig[id])
         /\ multisig[id].current_signatures >= multisig[id].required_signatures
         /\ multisig[id].required_signatures > 0

\* A counter that equals the signatures on record, a threshold that is never
\* zero, nothing on record for a split that is not stored, and the property.
MultiSigInv ==
    /\ SignTypeOK
    /\ \A id \in SignIds :
         IF split_exists(id) THEN multisig[id].required_signatures > 0
         ELSE Signers(id) = {} /\ id \notin intents
    /\ \A id \in SignIds : split_exists(id) => Backed(id)

\* A set of addresses is finite, and its count a number.
LEMMA SignersFinite ==
    ASSUME NEW S \in SUBSET Signatories
    PROVE  IsFiniteSet(S) /\ Cardinality(S) \in Nat
BY MultiSigConstants, FS_Subset, FS_CardinalityType

\* A call that rewrites the split of one identifier, and the signatures under it,
\* keeps the invariant when what it leaves there does.
LEMMA OneSplit ==
    ASSUME MultiSigInv, NEW id \in SignIds, NEW t \in MultisigSplit,
           signAdmin' = signAdmin, stamp' = stamp, stamp \in 0..LastStamp,
           multisig' = [multisig EXCEPT ![id] = t],
           signed' \subseteq SignIds \X Signatories,
           \A j \in SignIds : j # id => Signers(j)' = Signers(j),
           intents' \subseteq intents \cup {id},
           intents \subseteq intents',
           t.required_signatures > 0,
           t.current_signatures = Cardinality(Signers(id)'),
           id \in intents' => /\ t.status = "Executed" /\ Unlocked(t)
                              /\ t.current_signatures >= t.required_signatures
    PROVE  MultiSigInv'
<1>1. /\ multisig' \in [SignIds -> MultisigSplit \cup {Unset}] /\ multisig'[id] = t
      /\ \A j \in SignIds : j # id => multisig'[j] = multisig[j]
  BY DEF MultiSigInv, SignTypeOK
<1>2. SignTypeOK'
  BY <1>1 DEF MultiSigInv, SignTypeOK
<1>3. t # Unset
  BY UnsetIsNoSplit
<1>4. ASSUME NEW j \in SignIds
      PROVE  (IF split_exists(j) THEN multisig[j].required_signatures > 0
              ELSE Signers(j) = {} /\ j \notin intents)'
  BY <1>1, <1>3 DEF MultiSigInv, split_exists
<1>5. (\A j \in SignIds : split_exists(j) => Backed(j))'
  <2> SUFFICES ASSUME NEW j \in SignIds, split_exists(j)' PROVE Backed(j)'
    OBVIOUS
  <2>1. CASE j = id
    <3>1. multisig'[j].current_signatures = Cardinality(Signers(j)')
      BY <1>1, <2>1
    <3>2. (Cardinality(Signers(j)))' = Cardinality(Signers(j)')
      OBVIOUS
    <3>3. j \in intents' => (/\ multisig[j].status = "Executed" /\ Unlocked(multisig[j])
                             /\ multisig[j].current_signatures >= multisig[j].required_signatures
                             /\ multisig[j].required_signatures > 0)'
      BY <1>1, <2>1 DEF Unlocked, Representable
    <3> QED
      BY <3>1, <3>2, <3>3 DEF Backed
  <2>2. CASE j # id
    <3>1. split_exists(j) /\ multisig'[j] = multisig[j] /\ Signers(j)' = Signers(j)
          /\ (j \in intents' => j \in intents)
      BY <1>1, <2>2 DEF split_exists
    <3>2. Backed(j)
      BY <3>1 DEF MultiSigInv
    <3> QED
      BY <3>1, <3>2 DEF Backed, Unlocked, Representable
  <2> QED
    BY <2>1, <2>2
<1> QED
  BY <1>2, <1>4, <1>5 DEF MultiSigInv

\* What a call on an open split may use.
LEMMA OpenFacts ==
    ASSUME MultiSigInv, NEW id \in SignIds, split_exists(id)
    PROVE  /\ multisig[id] \in MultisigSplit
           /\ multisig[id].required_signatures \in Nat
           /\ multisig[id].current_signatures \in Nat
           /\ multisig[id].signers \in SUBSET Signatories
           /\ multisig[id].required_signatures > 0
           /\ multisig[id].current_signatures = Cardinality(Signers(id))
           /\ Signers(id) \in SUBSET Signatories
           /\ IsFiniteSet(Signers(id))
           /\ stamp \in 0..LastStamp /\ signed \subseteq SignIds \X Signatories
           /\ Open(id) => id \notin intents
           /\ multisig \in [SignIds -> MultisigSplit \cup {Unset}]
<1>1. multisig[id] \in MultisigSplit /\ multisig \in [SignIds -> MultisigSplit \cup {Unset}]
      /\ stamp \in 0..LastStamp /\ signed \subseteq SignIds \X Signatories
  BY DEF MultiSigInv, SignTypeOK, split_exists
<1>2. Signers(id) \in SUBSET Signatories
  BY DEF Signers
<1>3. IsFiniteSet(Signers(id))
  BY <1>2, SignersFinite
<1>4. Open(id) => id \notin intents
  BY DEF MultiSigInv, Backed, Open
<1>5. multisig[id].required_signatures > 0
      /\ multisig[id].current_signatures = Cardinality(Signers(id))
  BY DEF MultiSigInv, Backed
<1> QED
  BY <1>1, <1>2, <1>3, <1>4, <1>5 DEF MultisigSplit

LEMMA CreateStep ==
    ASSUME MultiSigInv, NEW id \in SignIds, NEW required \in Nat, NEW lock \in Nat,
           create_multisig_split(id, required, lock)
    PROVE  MultiSigInv'
<1> DEFINE t == [required_signatures |-> required, current_signatures |-> 0, time_lock |-> lock,
                 created_at |-> stamp, status |-> "Pending", signers |-> {}]
<1>1. /\ stamp \in 0..LastStamp /\ stamp \in Nat /\ ~split_exists(id)
      /\ multisig' = [multisig EXCEPT ![id] = t] /\ required > 0
      /\ signAdmin' = signAdmin /\ signed' = signed /\ intents' = intents /\ stamp' = stamp
      /\ signed \subseteq SignIds \X Signatories
  BY MultiSigConstants DEF create_multisig_split, MultiSigInv, SignTypeOK
<1>2. Signers(id) = {} /\ id \notin intents
  BY <1>1 DEF MultiSigInv
<1>3. \A j \in SignIds : Signers(j)' = Signers(j)
  BY <1>1 DEF Signers
<1>4. t \in MultisigSplit
  BY <1>1 DEF MultisigSplit
<1>5. t.required_signatures > 0 /\ t.current_signatures = Cardinality(Signers(id)')
  <2>1. Cardinality({}) = 0
    BY FS_EmptySet
  <2> QED
    BY <1>1, <1>2, <1>3, <2>1
<1> HIDE DEF t
<1> QED
  BY <1>1, <1>2, <1>3, <1>4, <1>5, OneSplit

LEMMA SignStep ==
    ASSUME MultiSigInv, NEW id \in SignIds, NEW a \in Signatories, sign_split(id, a)
    PROVE  MultiSigInv'
<1> DEFINE s == multisig[id]
           t == [s EXCEPT !.current_signatures = @ + 1, !.status = "Active"]
<1>1. /\ Open(id) /\ split_exists(id) /\ <<id, a>> \notin signed
      /\ multisig' = [multisig EXCEPT ![id] = t] /\ signed' = signed \cup {<<id, a>>}
      /\ signAdmin' = signAdmin /\ intents' = intents /\ stamp' = stamp
  BY DEF sign_split, MaySign, Open
<1>2. /\ s \in MultisigSplit /\ s.required_signatures > 0 /\ s.current_signatures \in Nat
      /\ s.current_signatures = Cardinality(Signers(id)) /\ IsFiniteSet(Signers(id))
      /\ stamp \in 0..LastStamp /\ signed \subseteq SignIds \X Signatories
      /\ id \notin intents
  BY <1>1, OpenFacts
<1>3. /\ t \in MultisigSplit /\ t.required_signatures = s.required_signatures
      /\ t.current_signatures = s.current_signatures + 1
  <2> DEFINE n == s.current_signatures + 1
  <2>1. n \in Nat
    BY <1>2
  <2>2. t = [s EXCEPT !.current_signatures = n, !.status = "Active"]
    OBVIOUS
  <2> HIDE DEF t, s, n
  <2>3. t \in MultisigSplit /\ t.required_signatures = s.required_signatures
        /\ t.current_signatures = n
    BY <1>2, <2>1, <2>2 DEF MultisigSplit
  <2> QED
    BY <2>3 DEF n
<1>4. /\ Signers(id)' = Signers(id) \cup {a} /\ a \notin Signers(id)
      /\ \A j \in SignIds : j # id => Signers(j)' = Signers(j)
  BY <1>1 DEF Signers
<1>5. t.current_signatures = Cardinality(Signers(id)')
  BY <1>2, <1>3, <1>4, FS_AddElement
<1> HIDE DEF t
<1>6. signed' \subseteq SignIds \X Signatories
  BY <1>1, <1>2
<1> QED
  BY <1>1, <1>2, <1>3, <1>4, <1>5, <1>6, OneSplit

\* A call that leaves the signatures of a split alone.
LEMMA SameSignatures ==
    ASSUME MultiSigInv, NEW id \in SignIds, split_exists(id), NEW t \in MultisigSplit,
           t.current_signatures = multisig[id].current_signatures, t.required_signatures > 0,
           multisig' = [multisig EXCEPT ![id] = t],
           signAdmin' = signAdmin, signed' = signed, stamp' = stamp,
           \/ intents' = intents /\ id \notin intents
           \/ /\ intents' = intents \cup {id} /\ t.status = "Executed" /\ Unlocked(t)
              /\ t.current_signatures >= t.required_signatures
    PROVE  MultiSigInv'
<1>1. /\ stamp \in 0..LastStamp /\ signed' \subseteq SignIds \X Signatories
      /\ multisig[id].current_signatures = Cardinality(Signers(id))
  BY OpenFacts
<1>2. \A j \in SignIds : Signers(j)' = Signers(j)
  BY DEF Signers
<1>3. t.current_signatures = Cardinality(Signers(id)')
  BY <1>1, <1>2
<1>4. intents' \subseteq intents \cup {id} /\ intents \subseteq intents'
  OBVIOUS
<1>5. id \in intents' => /\ t.status = "Executed" /\ Unlocked(t)
                         /\ t.current_signatures >= t.required_signatures
  OBVIOUS
<1> QED
  BY <1>1, <1>2, <1>3, <1>4, <1>5, OneSplit

LEMMA ExecuteStep ==
    ASSUME MultiSigInv, NEW id \in SignIds, execute_split(id)
    PROVE  MultiSigInv'
<1> DEFINE s == multisig[id]
           t == [s EXCEPT !.status = "Executed"]
<1>1. /\ split_exists(id) /\ s.current_signatures >= s.required_signatures /\ Unlocked(s)
      /\ multisig' = [multisig EXCEPT ![id].status = "Executed"]
      /\ intents' = intents \cup {id}
      /\ signAdmin' = signAdmin /\ signed' = signed /\ stamp' = stamp
  BY DEF execute_split
<1>2. /\ s \in MultisigSplit /\ s.required_signatures > 0
      /\ multisig \in [SignIds -> MultisigSplit \cup {Unset}]
  BY <1>1, OpenFacts
<1>3. multisig' = [multisig EXCEPT ![id] = t]
  BY <1>1, <1>2
<1>4. /\ t \in MultisigSplit /\ t.current_signatures = s.current_signatures
      /\ t.required_signatures = s.required_signatures /\ t.status = "Executed"
      /\ t.created_at = s.created_at /\ t.time_lock = s.time_lock
  BY <1>2 DEF MultisigSplit
<1> HIDE DEF t
<1>5. Unlocked(t)
  BY <1>1, <1>4 DEF Unlocked, Representable
<1> QED
  BY <1>1, <1>2, <1>3, <1>4, <1>5, SameSignatures

\* cancel_split and emergency_override: the status of an open split changes.
LEMMA StatusStep ==
    ASSUME MultiSigInv, NEW id \in SignIds, Open(id), NEW status \in {"Executed", "Cancelled"},
           multisig' = [multisig EXCEPT ![id].status = status],
           signAdmin' = signAdmin, signed' = signed, stamp' = stamp, intents' = intents
    PROVE  MultiSigInv'
<1> DEFINE s == multisig[id]
           t == [s EXCEPT !.status = status]
<1>0. split_exists(id)
  BY DEF Open
<1>1. /\ s \in MultisigSplit /\ s.required_signatures > 0 /\ id \notin intents
      /\ multisig \in [SignIds -> MultisigSplit \cup {Unset}]
  BY <1>0, OpenFacts
<1>2. multisig' = [multisig EXCEPT ![id] = t]
  BY <1>1
<1>3. /\ t \in MultisigSplit /\ t.current_signatures = s.current_signatures
      /\ t.required_signatures = s.required_signatures
  BY <1>1 DEF MultisigSplit
<1> HIDE DEF t
<1> QED
  BY <1>0, <1>1, <1>2, <1>3, SameSignatures

LEMMA AddSignerStep ==
    ASSUME MultiSigInv, NEW id \in SignIds, NEW a \in Signatories, add_signer(id, a)
    PROVE  MultiSigInv'
<1> DEFINE s == multisig[id]
           t == [s EXCEPT !.signers = @ \cup {a}]
<1>1. /\ Open(id) /\ split_exists(id)
      /\ multisig' = [multisig EXCEPT ![id].signers = @ \cup {a}]
      /\ signAdmin' = signAdmin /\ signed' = signed /\ stamp' = stamp /\ intents' = intents
  BY DEF add_signer, Open
<1>2. /\ s \in MultisigSplit /\ s.required_signatures > 0 /\ id \notin intents
      /\ s.signers \in SUBSET Signatories
      /\ multisig \in [SignIds -> MultisigSplit \cup {Unset}]
  BY <1>1, OpenFacts
<1>3. multisig' = [multisig EXCEPT ![id] = t]
  BY <1>1, <1>2
<1>4. /\ t \in MultisigSplit /\ t.current_signatures = s.current_signatures
      /\ t.required_signatures = s.required_signatures
  BY <1>2 DEF MultisigSplit
<1> HIDE DEF t
<1> QED
  BY <1>1, <1>2, <1>3, <1>4, SameSignatures

LEMMA UpdateThresholdStep ==
    ASSUME MultiSigInv, NEW id \in SignIds, NEW required \in Nat, update_threshold(id, required)
    PROVE  MultiSigInv'
<1> DEFINE s == multisig[id]
           t == [s EXCEPT !.required_signatures = required]
<1>1. /\ Open(id) /\ split_exists(id) /\ required \in 1..Cardinality(s.signers)
      /\ multisig' = [multisig EXCEPT ![id].required_signatures = required]
      /\ signAdmin' = signAdmin /\ signed' = signed /\ stamp' = stamp /\ intents' = intents
  BY DEF update_threshold, Open
<1>2. /\ s \in MultisigSplit /\ id \notin intents /\ s.signers \in SUBSET Signatories
      /\ multisig \in [SignIds -> MultisigSplit \cup {Unset}]
  BY <1>1, OpenFacts
<1>3. multisig' = [multisig EXCEPT ![id] = t]
  BY <1>1, <1>2
<1>4. required > 0
  <2>1. Cardinality(s.signers) \in Nat
    BY <1>2, SignersFinite
  <2> QED
    BY <1>1, <2>1
<1>5. /\ t \in MultisigSplit /\ t.current_signatures = s.current_signatures
      /\ t.required_signatures = required
  BY <1>2 DEF MultisigSplit
<1> HIDE DEF t
<1> QED
  BY <1>1, <1>2, <1>3, <1>4, <1>5, SameSignatures

\* Removing a signer takes its signature off the record and off the counter
\* together, and never lowers the threshold to zero: one signer always stays.
LEMMA RemoveSignerStep ==
    ASSUME MultiSigInv, NEW id \in SignIds, NEW a \in Signatories, remove_signer(id, a)
    PROVE  MultiSigInv'
<1> DEFINE s == multisig[id]
           remaining == s.signers \ {a}
           n == Cardinality(remaining)
           count == IF <<id, a>> \in signed /\ s.current_signatures > 0
                    THEN s.current_signatures - 1 ELSE s.current_signatures
           required == IF s.required_signatures > n THEN n ELSE s.required_signatures
           t == [s EXCEPT !.signers = remaining, !.current_signatures = count,
                          !.required_signatures = required]
<1>1. /\ Open(id) /\ split_exists(id) /\ a \in s.signers /\ Cardinality(s.signers) # 1
      /\ multisig' = [multisig EXCEPT ![id] = t]
      /\ signed' = signed \ (IF s.current_signatures > 0 THEN {<<id, a>>} ELSE {})
      /\ signAdmin' = signAdmin /\ stamp' = stamp /\ intents' = intents
  BY DEF remove_signer, Open, Without
<1>2. /\ s \in MultisigSplit /\ id \notin intents /\ s.signers \in SUBSET Signatories
      /\ s.required_signatures \in Nat /\ s.required_signatures > 0
      /\ s.current_signatures \in Nat /\ s.current_signatures = Cardinality(Signers(id))
      /\ IsFiniteSet(Signers(id))
      /\ stamp \in 0..LastStamp /\ signed \subseteq SignIds \X Signatories
  BY <1>1, OpenFacts
<1>3. n \in Nat /\ n > 0
  <2>1. IsFiniteSet(s.signers) /\ Cardinality(s.signers) \in Nat
    BY <1>2, SignersFinite
  <2>2. n = Cardinality(s.signers) - 1
    BY <1>1, <2>1, FS_RemoveElement
  <2>3. Cardinality(s.signers) # 0
    BY <1>1, <2>1, FS_EmptySet
  <2> QED
    BY <1>1, <2>1, <2>2, <2>3
<1>4. required \in Nat /\ required > 0 /\ count \in Nat /\ remaining \in SUBSET Signatories
  <2> HIDE DEF n, s
  <2> QED
    BY <1>2, <1>3
<1>5. /\ t \in MultisigSplit /\ t.current_signatures = count /\ t.required_signatures = required
  <2> HIDE DEF s, remaining, count, required
  <2> QED
    BY <1>2, <1>4 DEF MultisigSplit
<1>6. /\ \A j \in SignIds : j # id => Signers(j)' = Signers(j)
      /\ signed' \subseteq SignIds \X Signatories
  BY <1>1, <1>2 DEF Signers
<1>7. count = Cardinality(Signers(id)')
  <2>1. CASE <<id, a>> \in signed
    <3>1. a \in Signers(id)
      BY <2>1 DEF Signers
    <3>2. s.current_signatures > 0
      <4>1. Signers(id) # {}
        BY <3>1
      <4>2. Cardinality(Signers(id)) # 0
        BY <1>2, <4>1, FS_EmptySet
      <4> QED
        BY <1>2, <4>2
    <3>3. Signers(id)' = Signers(id) \ {a}
      BY <1>1, <3>2 DEF Signers
    <3>4. Cardinality(Signers(id) \ {a}) = Cardinality(Signers(id)) - 1
      BY <1>2, <3>1, FS_RemoveElement
    <3> QED
      BY <1>2, <2>1, <3>2, <3>3, <3>4
  <2>2. CASE <<id, a>> \notin signed
    <3>1. Signers(id)' = Signers(id)
      BY <1>1, <2>2 DEF Signers
    <3> QED
      BY <1>2, <2>2, <3>1
  <2> QED
    BY <2>1, <2>2
<1> HIDE DEF t, count, required
<1>8. intents' \subseteq intents \cup {id} /\ intents \subseteq intents' /\ id \notin intents'
  BY <1>1, <1>2
<1> QED
  BY <1>1, <1>2, <1>4, <1>5, <1>6, <1>7, <1>8, OneSplit

LEMMA OtherSignSteps ==
    ASSUME MultiSigInv, initialize \/ SignTick \/ UNCHANGED signVars
    PROVE  MultiSigInv'
<1>1. /\ multisig' = multisig /\ signed' = signed /\ intents' = intents
      /\ stamp' \in 0..LastStamp /\ stamp <= stamp' /\ stamp \in Nat /\ stamp' \in Nat
  <2>1. /\ stamp \in 0..LastStamp /\ LastStamp \in Nat
    BY MultiSigConstants DEF MultiSigInv, SignTypeOK
  <2> QED
    BY <2>1 DEF initialize, SignTick, signVars
<1>b. signAdmin' \in BOOLEAN
  <2>1. signAdmin' = TRUE \/ signAdmin' = signAdmin
    BY DEF initialize, SignTick, signVars
  <2>2. signAdmin \in BOOLEAN
    BY DEF MultiSigInv, SignTypeOK
  <2> QED
    BY <2>1, <2>2, Zenon
<1>2. \A j \in SignIds : Signers(j)' = Signers(j) /\ split_exists(j)' = split_exists(j)
  BY <1>1 DEF Signers, split_exists
<1>3. ASSUME NEW j \in SignIds, split_exists(j) PROVE Backed(j)'
  <2>1. Backed(j) /\ multisig[j] \in MultisigSplit
    BY <1>3, OpenFacts DEF MultiSigInv
  <2>2. Unlocked(multisig[j]) => Unlocked(multisig[j])'
    <3>1. multisig[j].created_at + multisig[j].time_lock \in Nat
      BY <2>1 DEF MultisigSplit
    <3> QED
      BY <1>1, <3>1 DEF Unlocked, Representable
  <2> QED
    BY <1>1, <1>2, <2>1, <2>2 DEF Backed
<1> QED
  BY <1>1, <1>b, <1>2, <1>3 DEF MultiSigInv, SignTypeOK

LEMMA MultiSigInit == SignInit => MultiSigInv
<1> SUFFICES ASSUME SignInit PROVE MultiSigInv
  OBVIOUS
<1>1. SignTypeOK
  <2>1. signAdmin \in BOOLEAN
    BY Zenon DEF SignInit
  <2>2. /\ multisig \in [SignIds -> MultisigSplit \cup {Unset}]
        /\ signed \subseteq SignIds \X Signatories /\ intents \subseteq SignIds
    BY DEF SignInit
  <2>3. stamp \in 0..LastStamp
    BY MultiSigConstants DEF SignInit
  <2> QED
    BY <2>1, <2>2, <2>3 DEF SignTypeOK
<1>2. \A id \in SignIds : ~split_exists(id) /\ Signers(id) = {} /\ id \notin intents
  BY DEF SignInit, split_exists, Signers
<1> QED
  BY <1>1, <1>2 DEF MultiSigInv

LEMMA MultiSigNext == MultiSigInv /\ [SignNext]_signVars => MultiSigInv'
<1> SUFFICES ASSUME MultiSigInv, [SignNext]_signVars PROVE MultiSigInv'
  OBVIOUS
<1>0. Thresholds \subseteq Nat /\ TimeLocks \subseteq Nat
  BY MultiSigConstants
<1>1. ASSUME NEW id \in SignIds, execute_split(id) PROVE MultiSigInv'
  BY <1>1, ExecuteStep
<1>2. ASSUME NEW id \in SignIds, cancel_split(id) PROVE MultiSigInv'
  BY <1>2, StatusStep DEF cancel_split
<1>3. ASSUME NEW id \in SignIds, emergency_override(id) PROVE MultiSigInv'
  BY <1>3, StatusStep DEF emergency_override
<1>4. ASSUME NEW id \in SignIds, NEW required \in Thresholds, NEW lock \in TimeLocks,
             create_multisig_split(id, required, lock)
      PROVE  MultiSigInv'
  BY <1>0, <1>4, CreateStep
<1>5. ASSUME NEW id \in SignIds, NEW required \in Thresholds, update_threshold(id, required)
      PROVE  MultiSigInv'
  BY <1>0, <1>5, UpdateThresholdStep
<1>6. ASSUME NEW id \in SignIds, NEW a \in Signatories, sign_split(id, a) PROVE MultiSigInv'
  BY <1>6, SignStep
<1>7. ASSUME NEW id \in SignIds, NEW a \in Signatories, add_signer(id, a) PROVE MultiSigInv'
  BY <1>7, AddSignerStep
<1>8. ASSUME NEW id \in SignIds, NEW a \in Signatories, remove_signer(id, a) PROVE MultiSigInv'
  BY <1>8, RemoveSignerStep
<1>9. CASE initialize \/ SignTick \/ UNCHANGED signVars
  BY <1>9, OtherSignSteps
<1> QED
  BY <1>1, <1>2, <1>3, <1>4, <1>5, <1>6, <1>7, <1>8, <1>9 DEF SignNext

\* The counter of a split is the number of different addresses whose signature is
\* on record, and a split executed without the override had a quorum of them and an
\* expired lock (multi-sig-splits: sign_split, remove_signer, execute_split).
THEOREM QuorumsBackExecutions == SignSpec => []QuorumBacksExecution
<1>1. MultiSigInv => QuorumBacksExecution
  BY DEF MultiSigInv, QuorumBacksExecution, Backed
<1>2. SignInit => MultiSigInv
  BY MultiSigInit
<1>3. MultiSigInv /\ [SignNext]_signVars => MultiSigInv'
  BY MultiSigNext
<1> QED
  BY <1>1, <1>2, <1>3, PTL DEF SignSpec

-----------------------------------------------------------------------------
(* flash-loan *)

\* While a callback runs, what the loan found, and would put back, has all the
\* fees earned so far.
LoanInv ==
    /\ LoanTypeOK
    /\ PoolKeepsFees
    /\ running # NoLoan => running.before >= LoanFunds + earned

LEMMA LoanFacts ==
    ASSUME LoanInv
    PROVE  /\ pool \in Nat /\ earned \in Nat /\ wallet \in [Borrowers -> Nat]
           /\ LoanFunds \in Nat
           /\ running # NoLoan =>
                /\ running \in Attempt /\ running.loan \in Loan
                /\ running.loan.amount \in Nat /\ running.loan.fee \in Nat
                /\ running.before \in Nat /\ running.wallets \in [Borrowers -> Nat]
                /\ running.old \in Loan \cup {NoLoan}
BY LoanConstants DEF LoanInv, LoanTypeOK, Attempt, Loan

LEMMA LendStep ==
    ASSUME LoanInv, NEW b \in Borrowers, NEW amount \in Nat, Lend(b, amount)
    PROVE  LoanInv'
<1> DEFINE fee == (amount * fee_bp) \div FeeBase
           record == [borrower |-> b, amount |-> amount, fee |-> fee, repaid |-> FALSE]
           attempt == [loan |-> record, before |-> pool, wallets |-> wallet, old |-> loan]
<1>1. /\ running = NoLoan /\ fee_bp # NoLoan /\ amount <= pool
      /\ loan' = record /\ pool' = pool - amount
      /\ wallet' = [wallet EXCEPT ![b] = @ + amount]
      /\ running' = attempt /\ fee_bp' = fee_bp /\ earned' = earned
  BY DEF Lend
<1>2. /\ pool \in Nat /\ wallet \in [Borrowers -> Nat] /\ loan \in Loan \cup {NoLoan}
      /\ fee_bp \in Nat /\ FeeBase \in Nat \ {0} /\ fee_bp \in LoanFeeRates \cup {NoLoan}
      /\ earned \in Nat
  BY <1>1, LoanConstants DEF LoanInv, LoanTypeOK
<1>3. fee \in Nat
  <2>1. amount * fee_bp \in Nat
    BY <1>2
  <2> DEFINE n == amount * fee_bp
  <2>2. n \in Nat /\ fee = n \div FeeBase
    BY <2>1
  <2> HIDE DEF n, fee
  <2> QED
    BY <1>2, <2>2
<1> HIDE DEF fee
<1>4. record \in Loan
  BY <1>3 DEF Loan
<1> HIDE DEF record
<1>5. attempt \in Attempt /\ attempt.before = pool
  BY <1>2, <1>4 DEF Attempt
<1> HIDE DEF attempt
<1>6. attempt # NoLoan
  BY <1>5, NoLoanIsNone
<1>7. LoanTypeOK'
  <2>1. pool' \in Nat /\ wallet' \in [Borrowers -> Nat]
    BY <1>1, <1>2
  <2> QED
    BY <1>1, <1>2, <1>4, <1>5, <2>1 DEF LoanTypeOK
<1> QED
  BY <1>1, <1>5, <1>6, <1>7 DEF LoanInv, PoolKeepsFees

LEMMA PayStep ==
    ASSUME LoanInv, NEW b \in Borrowers, NEW amount \in Nat, Pay(b, amount)
    PROVE  LoanInv'
<1>1. /\ amount <= wallet[b] /\ wallet' = [wallet EXCEPT ![b] = @ - amount]
      /\ pool' = pool + amount
      /\ fee_bp' = fee_bp /\ loan' = loan /\ running' = running /\ earned' = earned
  BY DEF Pay
<1>2. pool \in Nat /\ wallet \in [Borrowers -> Nat] /\ earned \in Nat /\ LoanFunds \in Nat
  BY LoanFacts
<1>3. pool' \in Nat /\ wallet' \in [Borrowers -> Nat] /\ pool' >= pool
  BY <1>1, <1>2
<1>4. PoolKeepsFees'
  BY <1>1, <1>2, <1>3 DEF LoanInv, PoolKeepsFees
<1> QED
  BY <1>1, <1>3, <1>4 DEF LoanInv, LoanTypeOK

LEMMA HandStep ==
    ASSUME LoanInv, NEW b \in Borrowers, NEW c \in Borrowers, NEW amount \in Nat,
           Hand(b, c, amount)
    PROVE  LoanInv'
<1>1. /\ b # c /\ amount <= wallet[b]
      /\ wallet' = [wallet EXCEPT ![b] = @ - amount, ![c] = @ + amount]
      /\ pool' = pool
      /\ fee_bp' = fee_bp /\ loan' = loan /\ running' = running /\ earned' = earned
  BY DEF Hand
<1>2. wallet \in [Borrowers -> Nat]
  BY LoanFacts
<1>3. wallet' \in [Borrowers -> Nat]
  BY <1>1, <1>2
<1> QED
  BY <1>1, <1>3 DEF LoanInv, LoanTypeOK, PoolKeepsFees

\* A loan concludes with its fee on top of what the pool had before it, however
\* the tokens came back.
LEMMA ConcludeStep ==
    ASSUME LoanInv, Conclude
    PROVE  LoanInv'
<1>1. /\ running # NoLoan /\ Repaid /\ running' = NoLoan
      /\ earned' = earned + running.loan.fee
      /\ fee_bp' = fee_bp /\ pool' = pool /\ wallet' = wallet /\ loan' = loan
  BY DEF Conclude
<1>2. /\ pool \in Nat /\ earned \in Nat /\ LoanFunds \in Nat
      /\ running.loan.amount \in Nat /\ running.loan.fee \in Nat /\ running.before \in Nat
  BY <1>1, LoanFacts
<1>3. running.before >= LoanFunds + earned
  BY <1>1 DEF LoanInv
<1>4. pool >= running.before + running.loan.fee
  BY <1>1, <1>2 DEF Repaid
<1>5. PoolKeepsFees' /\ earned' \in Nat
  BY <1>1, <1>2, <1>3, <1>4 DEF PoolKeepsFees
<1> QED
  BY <1>1, <1>5 DEF LoanInv, LoanTypeOK

LEMMA UndoStep ==
    ASSUME LoanInv, Undo
    PROVE  LoanInv'
<1>1. /\ running # NoLoan /\ pool' = running.before /\ wallet' = running.wallets
      /\ loan' = running.old /\ running' = NoLoan /\ fee_bp' = fee_bp /\ earned' = earned
  BY DEF Undo
<1>2. /\ running.before \in Nat /\ running.wallets \in [Borrowers -> Nat]
      /\ running.old \in Loan \cup {NoLoan}
  BY <1>1, LoanFacts
<1>3. running.before >= LoanFunds + earned
  BY <1>1 DEF LoanInv
<1> QED
  BY <1>1, <1>2, <1>3 DEF LoanInv, LoanTypeOK, PoolKeepsFees

LEMMA RepayStep ==
    ASSUME LoanInv, NEW amount \in Nat, repay_flash_loan(amount)
    PROVE  LoanInv'
<1>1. /\ running = NoLoan /\ loan # NoLoan /\ amount <= wallet[loan.borrower]
      /\ wallet' = [wallet EXCEPT ![loan.borrower] = @ - amount]
      /\ pool' = pool + amount /\ loan' = [loan EXCEPT !.repaid = TRUE]
      /\ fee_bp' = fee_bp /\ running' = running /\ earned' = earned
  BY DEF repay_flash_loan
<1>2. /\ pool \in Nat /\ wallet \in [Borrowers -> Nat] /\ earned \in Nat /\ LoanFunds \in Nat
      /\ loan \in Loan /\ loan.borrower \in Borrowers
  BY <1>1, LoanFacts DEF LoanInv, LoanTypeOK, Loan
<1>3. /\ wallet' \in [Borrowers -> Nat] /\ pool' \in Nat /\ pool' >= pool
  BY <1>1, <1>2
<1>4. loan' \in Loan
  BY <1>1, <1>2 DEF Loan
<1>5. PoolKeepsFees'
  BY <1>1, <1>2, <1>3 DEF LoanInv, PoolKeepsFees
<1> QED
  BY <1>1, <1>3, <1>4, <1>5 DEF LoanInv, LoanTypeOK

LEMMA LoanInitInv == LoanInit => LoanInv
<1> SUFFICES ASSUME LoanInit PROVE LoanInv
  OBVIOUS
<1>1. fee_bp \in LoanFeeRates \cup {NoLoan} /\ loan \in Loan \cup {NoLoan}
      /\ running \in Attempt \cup {NoLoan} /\ running = NoLoan
  BY DEF LoanInit
<1>2. pool \in Nat /\ earned \in Nat /\ wallet \in [Borrowers -> Nat] /\ pool >= LoanFunds + earned
  BY LoanConstants DEF LoanInit
<1> QED
  BY <1>1, <1>2 DEF LoanInv, LoanTypeOK, PoolKeepsFees

LEMMA LoanStepInv == LoanInv /\ [LoanNext]_loanVars => LoanInv'
<1> SUFFICES ASSUME LoanInv, [LoanNext]_loanVars PROVE LoanInv'
  OBVIOUS
<1>0. LoanAmounts \subseteq Nat
  BY LoanConstants
<1>1. CASE Conclude
  BY <1>1, ConcludeStep
<1>2. CASE Undo
  BY <1>2, UndoStep
<1>3. ASSUME NEW r \in LoanFeeRates, LoanInitialize(r) PROVE LoanInv'
  BY <1>3 DEF LoanInitialize, LoanInv, LoanTypeOK, PoolKeepsFees
<1>4. ASSUME NEW amount \in LoanAmounts, repay_flash_loan(amount) PROVE LoanInv'
  BY <1>0, <1>4, RepayStep
<1>5. ASSUME NEW amount \in LoanAmounts, NEW b \in Borrowers, Lend(b, amount) PROVE LoanInv'
  BY <1>0, <1>5, LendStep
<1>6. ASSUME NEW amount \in LoanAmounts, NEW b \in Borrowers, Pay(b, amount) PROVE LoanInv'
  BY <1>0, <1>6, PayStep
<1>7. ASSUME NEW amount \in LoanAmounts, NEW b \in Borrowers, NEW c \in Borrowers,
             Hand(b, c, amount)
      PROVE  LoanInv'
  BY <1>0, <1>7, HandStep
<1>8. CASE UNCHANGED loanVars
  BY <1>8 DEF loanVars, LoanInv, LoanTypeOK, PoolKeepsFees
<1> QED
  BY <1>1, <1>2, <1>3, <1>4, <1>5, <1>6, <1>7, <1>8 DEF LoanNext

\* Whatever the borrowers do with the tokens they hold, inside a callback or
\* outside, the pool has what it was funded with and every fee (flash_loan).
THEOREM PoolNeverLoses == LoanSpec => []PoolKeepsFees
<1>1. LoanInv => PoolKeepsFees
  BY DEF LoanInv
<1> QED
  BY <1>1, LoanInitInv, LoanStepInv, PTL DEF LoanSpec

-----------------------------------------------------------------------------
(* split-template *)

TemplateRecord == [split_type : {"Equal", "Percentage", "Fixed"}, shares : ShareLists,
                   use_count : 0..MaxUses, max_uses : UseCaps]

\* An identifier is listed once under its creator.
ListedOnce(list) == \A i, j \in 1..Len(list) : i < j => list[i] # list[j]

\* What TemplateStoresAgree says of one stored template.
InEveryStore(id) ==
    /\ <<id[1], id[2]>> \in DOMAIN nameIndex /\ nameIndex[<<id[1], id[2]>>] = id
    /\ \E i \in 1..Len(created[id[1]]) : created[id[1]][i] = id
    /\ templates[id].max_uses # Unlimited => templates[id].use_count <= templates[id].max_uses

TemplateInv ==
    /\ DOMAIN templates \subseteq TemplateIds
    /\ templates \in [DOMAIN templates -> TemplateRecord]
    /\ DOMAIN nameIndex \subseteq TemplateCreators \X TemplateNames
    /\ created \in [TemplateCreators -> Seq(TemplateIds)]
    /\ sequence \in 0..LastSequence
    /\ \A id \in DOMAIN templates : InEveryStore(id)
    /\ \A key \in DOMAIN nameIndex : nameIndex[key] \in DOMAIN templates
    /\ \A c \in TemplateCreators :
         /\ ListedOnce(created[c])
         /\ \A i \in 1..Len(created[c]) : created[c][i] \in DOMAIN templates

\* Appending an identifier that is not in a list.
LEMMA AppendNew ==
    ASSUME NEW S, NEW list \in Seq(S), NEW x \in S,
           \A i \in 1..Len(list) : list[i] # x, ListedOnce(list)
    PROVE  /\ Append(list, x) \in Seq(S) /\ Len(Append(list, x)) = Len(list) + 1
           /\ Append(list, x)[Len(list) + 1] = x
           /\ \A i \in 1..Len(list) : Append(list, x)[i] = list[i]
           /\ ListedOnce(Append(list, x))
<1>1. Len(list) \in Nat
  OBVIOUS
<1>2. /\ Append(list, x) \in Seq(S) /\ Len(Append(list, x)) = Len(list) + 1
      /\ Append(list, x)[Len(list) + 1] = x
      /\ \A i \in 1..Len(list) : Append(list, x)[i] = list[i]
  OBVIOUS
<1>3. ASSUME NEW i \in 1..(Len(list) + 1), NEW j \in 1..(Len(list) + 1), i < j
      PROVE  Append(list, x)[i] # Append(list, x)[j]
  <2>1. i \in 1..Len(list)
    BY <1>1, <1>3
  <2>2. CASE j = Len(list) + 1
    BY <1>2, <2>1, <2>2
  <2>3. CASE j \in 1..Len(list)
    BY <1>2, <1>3, <2>1, <2>3 DEF ListedOnce
  <2> QED
    BY <1>1, <2>2, <2>3
<1> QED
  BY <1>2, <1>3 DEF ListedOnce

LEMMA CreateTemplateStep ==
    ASSUME TemplateInv, NEW c \in TemplateCreators, NEW name \in TemplateNames,
           NEW type \in {"Equal", "Percentage", "Fixed"}, NEW shares \in ShareLists,
           NEW cap \in UseCaps, create_template(c, name, type, shares, cap)
    PROVE  TemplateInv'
<1> DEFINE id == <<c, name, sequence>>
           key == <<c, name>>
           record == [split_type |-> type, shares |-> shares, use_count |-> 0, max_uses |-> cap]
<1>1. /\ key \notin DOMAIN nameIndex
      /\ templates' = [x \in DOMAIN templates \cup {id} |-> IF x = id THEN record ELSE templates[x]]
      /\ nameIndex' = [x \in DOMAIN nameIndex \cup {key} |-> IF x = key THEN id ELSE nameIndex[x]]
      /\ created' = [created EXCEPT ![c] = Append(@, id)] /\ sequence' = sequence
  BY DEF create_template, generate_template_id, has_template_with_name, Stored
<1>2. /\ id \in TemplateIds /\ id[1] = c /\ id[2] = name /\ id \notin DOMAIN templates
  <2>1. id \in TemplateIds /\ id[1] = c /\ id[2] = name
    BY DEF TemplateInv, TemplateIds
  <2>2. ASSUME id \in DOMAIN templates PROVE FALSE
    <3>1. InEveryStore(id)
      BY <2>2 DEF TemplateInv
    <3>2. <<id[1], id[2]>> \in DOMAIN nameIndex
      BY <3>1 DEF InEveryStore
    <3> QED
      BY <1>1, <2>1, <3>2
  <2> QED
    BY <2>1, <2>2
<1>3. record \in TemplateRecord
  <2>1. 0 \in 0..MaxUses
    BY TemplateConstants
  <2> QED
    BY <2>1 DEF TemplateRecord
<1>4. /\ created \in [TemplateCreators -> Seq(TemplateIds)] /\ created[c] \in Seq(TemplateIds)
      /\ \A i \in 1..Len(created[c]) : created[c][i] # id
      /\ ListedOnce(created[c])
  BY <1>2 DEF TemplateInv
<1> HIDE DEF record
<1>5. /\ created' \in [TemplateCreators -> Seq(TemplateIds)]
      /\ Len(created'[c]) = Len(created[c]) + 1 /\ Len(created[c]) \in Nat
      /\ created'[c][Len(created[c]) + 1] = id
      /\ \A i \in 1..Len(created[c]) : created'[c][i] = created[c][i]
      /\ ListedOnce(created'[c])
      /\ \A d \in TemplateCreators : d # c => created'[d] = created[d]
  <2> HIDE DEF id
  <2>1. created'[c] = Append(created[c], id)
    BY <1>1, <1>4
  <2>2. /\ created'[c] \in Seq(TemplateIds) /\ Len(created'[c]) = Len(created[c]) + 1
        /\ created'[c][Len(created[c]) + 1] = id
        /\ \A i \in 1..Len(created[c]) : created'[c][i] = created[c][i]
        /\ ListedOnce(created'[c])
    BY <1>2, <1>4, <2>1, AppendNew
  <2>3. \A d \in TemplateCreators : d # c => created'[d] = created[d]
    BY <1>1, <1>4
  <2>4. Len(created[c]) \in Nat
    BY <1>4
  <2>5. created' \in [TemplateCreators -> Seq(TemplateIds)]
    BY <1>1, <1>4, <2>1, <2>2
  <2> QED
    BY <2>2, <2>3, <2>4, <2>5
<1>6. /\ DOMAIN templates' = DOMAIN templates \cup {id}
      /\ DOMAIN nameIndex' = DOMAIN nameIndex \cup {key}
      /\ templates'[id] = record /\ nameIndex'[key] = id
      /\ \A x \in DOMAIN templates : templates'[x] = templates[x]
      /\ \A x \in DOMAIN nameIndex : nameIndex'[x] = nameIndex[x]
  BY <1>1, <1>2
<1>7. /\ DOMAIN templates' \subseteq TemplateIds
      /\ templates' \in [DOMAIN templates' -> TemplateRecord]
      /\ DOMAIN nameIndex' \subseteq TemplateCreators \X TemplateNames
  <2>1. templates' \in [DOMAIN templates \cup {id} -> TemplateRecord]
    <3> HIDE DEF id
    <3> QED
      BY <1>1, <1>3 DEF TemplateInv
  <2>2. key \in TemplateCreators \X TemplateNames
    OBVIOUS
  <2> HIDE DEF id, key
  <2> QED
    BY <1>2, <1>6, <2>1, <2>2 DEF TemplateInv
<1>8. ASSUME NEW x \in DOMAIN templates' PROVE InEveryStore(x)'
  <2>1. CASE x = id
    <3>1. <<x[1], x[2]>> = key /\ x[1] = c
      BY <1>2, <2>1
    <3>2. \E i \in 1..Len(created'[c]) : created'[c][i] = id
      BY <1>5
    <3>3. templates'[id].max_uses # Unlimited => templates'[id].use_count <= templates'[id].max_uses
      <4>1. record.max_uses = cap /\ record.use_count = 0
        BY DEF record
      <4>2. cap # Unlimited => cap \in Nat
        BY TemplateConstants
      <4> QED
        BY <1>6, <4>1, <4>2
    <3> HIDE DEF id, key
    <3> QED
      BY <1>6, <2>1, <3>1, <3>2, <3>3 DEF InEveryStore
  <2>2. CASE x # id
    <3>1. x \in DOMAIN templates /\ x \in TemplateIds
      BY <1>6, <2>2 DEF TemplateInv
    <3>2. InEveryStore(x) /\ x[1] \in TemplateCreators
      BY <3>1 DEF TemplateInv, TemplateIds
    <3>3. PICK i \in 1..Len(created[x[1]]) : created[x[1]][i] = x
      BY <3>2 DEF InEveryStore
    <3>4. \E k \in 1..Len(created'[x[1]]) : created'[x[1]][k] = x
      <4>1. CASE x[1] = c
        <5>1. i \in 1..Len(created[c]) /\ i \in 1..Len(created'[c]) /\ created'[c][i] = x
          BY <1>5, <3>3, <4>1
        <5> QED
          BY <4>1, <5>1
      <4>2. CASE x[1] # c
        BY <1>5, <3>2, <3>3, <4>2
      <4> QED
        BY <4>1, <4>2
    <3>5. /\ <<x[1], x[2]>> \in DOMAIN nameIndex' /\ nameIndex'[<<x[1], x[2]>>] = x
          /\ templates'[x] = templates[x]
      BY <1>6, <3>1, <3>2 DEF InEveryStore
    <3> QED
      BY <3>2, <3>4, <3>5 DEF InEveryStore
  <2> QED
    BY <2>1, <2>2
<1>9. \A k \in DOMAIN nameIndex' : nameIndex'[k] \in DOMAIN templates'
  <2> HIDE DEF id, key
  <2> QED
    BY <1>6 DEF TemplateInv
<1>10. ASSUME NEW d \in TemplateCreators
       PROVE  /\ ListedOnce(created'[d])
              /\ \A i \in 1..Len(created'[d]) : created'[d][i] \in DOMAIN templates'
  <2> HIDE DEF id, key
  <2>1. CASE d = c
    <3> SUFFICES ASSUME NEW i \in 1..Len(created'[c]) PROVE created'[c][i] \in DOMAIN templates'
      BY <1>5, <2>1
    <3>1. CASE i = Len(created[c]) + 1
      BY <1>5, <1>6, <3>1
    <3>2. CASE i # Len(created[c]) + 1
      <4>1. i \in 1..Len(created[c])
        BY <1>5, <3>2
      <4> QED
        BY <1>5, <1>6, <4>1 DEF TemplateInv
    <3> QED
      BY <3>1, <3>2
  <2>2. CASE d # c
    BY <1>5, <1>6, <2>2 DEF TemplateInv
  <2> QED
    BY <2>1, <2>2
<1>11. sequence' \in 0..LastSequence
  BY <1>1 DEF TemplateInv
<1> HIDE DEF id, key
<1> QED
  BY <1>5, <1>7, <1>8, <1>9, <1>10, <1>11 DEF TemplateInv

LEMMA UseTemplateStep ==
    ASSUME TemplateInv, NEW id \in TemplateIds, use_template(id)
    PROVE  TemplateInv'
<1> DEFINE r == templates[id]
           n == r.use_count + 1
           u == [r EXCEPT !.use_count = n]
<1>1. /\ id \in DOMAIN templates /\ r \in TemplateRecord
      /\ r.max_uses # Unlimited => r.use_count < r.max_uses
      /\ r.use_count < MaxUses
      /\ templates' = [templates EXCEPT ![id].use_count = @ + 1]
      /\ nameIndex' = nameIndex /\ created' = created /\ sequence' = sequence
      /\ templates \in [DOMAIN templates -> TemplateRecord]
  BY DEF use_template, TemplateInv
<1>2. templates' = [templates EXCEPT ![id] = u]
  BY <1>1
<1>3. /\ u \in TemplateRecord /\ u.use_count = n /\ u.max_uses = r.max_uses
      /\ n \in 0..MaxUses
  <2>1. r.use_count \in 0..MaxUses /\ MaxUses \in Nat
    BY <1>1, TemplateConstants DEF TemplateRecord
  <2>2. n \in 0..MaxUses
    BY <1>1, <2>1
  <2> HIDE DEF r, n
  <2> QED
    BY <1>1, <2>2 DEF TemplateRecord
<1>4. u.max_uses # Unlimited => u.use_count <= u.max_uses
  <2>1. r.max_uses # Unlimited => r.max_uses \in Nat
    BY <1>1, TemplateConstants DEF TemplateRecord
  <2>2. r.use_count \in Nat
    BY <1>1, TemplateConstants DEF TemplateRecord
  <2> HIDE DEF r, u
  <2> QED
    BY <1>1, <1>3, <2>1, <2>2 DEF n
<1> HIDE DEF u
<1>5. /\ DOMAIN templates' = DOMAIN templates /\ templates'[id] = u
      /\ \A x \in DOMAIN templates : x # id => templates'[x] = templates[x]
      /\ templates' \in [DOMAIN templates -> TemplateRecord]
  BY <1>1, <1>2, <1>3
<1>6. ASSUME NEW x \in DOMAIN templates PROVE InEveryStore(x)'
  <2>1. InEveryStore(x)
    BY DEF TemplateInv
  <2>2. templates'[x].max_uses # Unlimited => templates'[x].use_count <= templates'[x].max_uses
    BY <1>4, <1>5, <2>1 DEF InEveryStore
  <2> QED
    BY <1>1, <2>1, <2>2 DEF InEveryStore
<1> QED
  BY <1>1, <1>5, <1>6 DEF TemplateInv

LEMMA TemplateStutter ==
    ASSUME TemplateInv, CloseLedger \/ UNCHANGED templateVars
    PROVE  TemplateInv'
<1>1. templates' = templates /\ nameIndex' = nameIndex /\ created' = created
  BY DEF CloseLedger, templateVars
<1>2. sequence' \in 0..LastSequence
  BY TemplateConstants DEF CloseLedger, templateVars, TemplateInv
<1> QED
  BY <1>1, <1>2 DEF TemplateInv, InEveryStore

LEMMA TemplateInitInv == TemplateInit => TemplateInv
<1> SUFFICES ASSUME TemplateInit PROVE TemplateInv
  OBVIOUS
<1>1. DOMAIN templates = {} /\ DOMAIN nameIndex = {}
  BY DEF TemplateInit
<1>2. \A c \in TemplateCreators : created[c] = <<>>
  BY DEF TemplateInit
<1>3. created \in [TemplateCreators -> Seq(TemplateIds)] /\ sequence \in 0..LastSequence
  BY TemplateConstants DEF TemplateInit
<1>4. templates \in [DOMAIN templates -> TemplateRecord]
  BY <1>1 DEF TemplateInit
<1> QED
  BY <1>1, <1>2, <1>3, <1>4 DEF TemplateInv, ListedOnce

LEMMA TemplateNextInv == TemplateInv /\ [TemplateNext]_templateVars => TemplateInv'
<1> SUFFICES ASSUME TemplateInv, [TemplateNext]_templateVars PROVE TemplateInv'
  OBVIOUS
<1>1. ASSUME NEW id \in TemplateIds, use_template(id) PROVE TemplateInv'
  BY <1>1, UseTemplateStep
<1>2. ASSUME NEW c \in TemplateCreators, NEW name \in TemplateNames, NEW shares \in ShareLists,
             NEW cap \in UseCaps, NEW type \in {"Equal", "Percentage", "Fixed"},
             create_template(c, name, type, shares, cap)
      PROVE  TemplateInv'
  BY <1>2, CreateTemplateStep
<1>3. CASE CloseLedger \/ UNCHANGED templateVars
  BY <1>3, TemplateStutter
<1> QED
  BY <1>1, <1>2, <1>3 DEF TemplateNext

\* The three stores never drift apart, for any number of creators, names and
\* templates: create_template writes all three, use_template none of the indexes.
THEOREM TemplatesAgree == TemplateSpec => []TemplateStoresAgree
<1>1. TemplateInv => TemplateStoresAgree
  <2> SUFFICES ASSUME TemplateInv PROVE TemplateStoresAgree
    OBVIOUS
  <2>1. ASSUME NEW c \in TemplateCreators, NEW i \in 1..LastSequence + 2,
               NEW j \in 1..LastSequence + 2, i < j, j <= Len(created[c])
        PROVE  created[c][i] # created[c][j]
    <3>1. Len(created[c]) \in Nat
      BY DEF TemplateInv
    <3>2. i \in 1..Len(created[c]) /\ j \in 1..Len(created[c])
      BY <2>1, <3>1, TemplateConstants
    <3> QED
      BY <2>1, <3>2 DEF TemplateInv, ListedOnce
  <2> QED
    BY <2>1 DEF TemplateInv, TemplateStoresAgree, InEveryStore
<1>2. TemplateInit => TemplateInv
  BY TemplateInitInv
<1>3. TemplateInv /\ [TemplateNext]_templateVars => TemplateInv'
  BY TemplateNextInv
<1> QED
  BY <1>1, <1>2, <1>3, PTL DEF TemplateSpec

-----------------------------------------------------------------------------
(* Tables of recursive functions *)

Table(X, start, F, N, s) ==
    /\ s \in [0..N -> X] /\ s[0] = start
    /\ \A k \in 1..N : s[k] = F[<<k, s[k-1]>>]

\* A recursion over 0..N whose step is a function has a table.
LEMMA TableExists ==
    ASSUME NEW X, NEW start \in X, NEW F \in [Nat \X X -> X], NEW N \in Nat
    PROVE  \E s : Table(X, start, F, N, s)
<1> DEFINE Partial(n, s) == /\ s \in [0..n -> X]
                            /\ s = [k \in 0..n |-> IF k = 0 THEN start ELSE F[<<k, s[k-1]>>]]
           T == {n \in Nat : ~ \E s : Partial(n, s)}
<1>1. T = {}
  <2> SUFFICES ASSUME T # {} PROVE FALSE
    OBVIOUS
  <2>1. PICK x \in T : \A y \in T : x <= y
    <3>1. T \in SUBSET Nat
      OBVIOUS
    <3> HIDE DEF T
    <3> QED
      BY <3>1, LeastNat
  <2>2. CASE x = 0
    <3>1. Partial(0, [k \in 0..0 |-> start])
      OBVIOUS
    <3> QED
      BY <2>2, <3>1
  <2>3. CASE x # 0
    <3>1. x - 1 \in Nat /\ ~(x <= x - 1) /\ x \in Nat
      BY <2>3
    <3>2. PICK s : Partial(x - 1, s)
      BY <2>1, <3>1
    <3> DEFINE u == [k \in 0..x |-> IF k = x THEN F[<<x, s[x-1]>>] ELSE s[k]]
    <3>3. s[x-1] \in X /\ F[<<x, s[x-1]>>] \in X
      BY <3>1, <3>2
    <3>4. u \in [0..x -> X]
      BY <3>1, <3>2, <3>3
    <3>5. ASSUME NEW k \in 0..x PROVE u[k] = IF k = 0 THEN start ELSE F[<<k, u[k-1]>>]
      <4>1. CASE k = x
        <5>1. x - 1 \in 0..x /\ x - 1 # x
          BY <3>1
        <5>2. u[x-1] = s[x-1]
          BY <5>1
        <5>3. u[x] = F[<<x, s[x-1]>>]
          BY <3>1
        <5> HIDE DEF u
        <5> QED
          BY <2>3, <4>1, <5>2, <5>3
      <4>2. CASE k # x
        <5>1. k \in 0..(x-1) /\ u[k] = s[k]
          BY <3>1, <4>2
        <5>2. s[k] = IF k = 0 THEN start ELSE F[<<k, s[k-1]>>]
          BY <3>2, <5>1
        <5>3. k # 0 => k - 1 \in 0..x /\ k - 1 # x
          BY <3>1, <5>1
        <5>4. k # 0 => u[k-1] = s[k-1]
          BY <5>3
        <5> QED
          BY <5>1, <5>2, <5>4
      <4> QED
        BY <4>1, <4>2
    <3>6. Partial(x, u)
      BY <3>4, <3>5
    <3> QED
      BY <3>6
  <2> QED
    BY <2>2, <2>3
<1>2. PICK s : Partial(N, s)
  BY <1>1
<1>3. s[0] = start /\ \A k \in 1..N : s[k] = F[<<k, s[k-1]>>]
  BY <1>2
<1> QED
  BY <1>2, <1>3 DEF Table

-----------------------------------------------------------------------------
(* Places in the search *)

\* The step of the search that looks at pair k, of n, while asset i is in front.
Place(n, i, k) == (i - 1) * n + k

\* Step t + 1 looks at pair t % n + 1 while asset t \div n + 1 is in front.
LEMMA Places ==
    ASSUME NEW n \in Nat \ {0}, NEW t \in Nat
    PROVE  LET f == (t + 1 - 1) \div n + 1
               k == ((t + 1 - 1) % n) + 1
           IN  /\ f \in Nat \ {0} /\ k \in 1..n /\ Place(n, f, k) = t + 1
               /\ t < f * n /\ t + 1 <= f * n
<1> DEFINE q == t \div n
           r == t % n
<1>1. q \in Nat /\ r \in 0..(n-1) /\ t = n * q + r
  OBVIOUS
<1>2. t + 1 - 1 = t
  OBVIOUS
<1> HIDE DEF q, r
<1>3. q + 1 - 1 = q /\ (q + 1) * n = n * q + n
  BY <1>1
<1>4. /\ q + 1 \in Nat \ {0} /\ r + 1 \in 1..n
      /\ (q + 1 - 1) * n + (r + 1) = t + 1 /\ t < (q + 1) * n /\ t + 1 <= (q + 1) * n
  BY <1>1, <1>3
<1> QED
  BY <1>2, <1>4 DEF q, r, Place

\* The places before step t + 1 are those of earlier assets, and of earlier pairs of the
\* asset in front.
LEMMA PlacesInOrder ==
    ASSUME NEW n \in Nat \ {0}, NEW t \in Nat, NEW f \in Nat \ {0}, NEW k \in 1..n,
           Place(n, f, k) = t + 1,
           NEW i \in Nat \ {0}
    PROVE  /\ t < i * n => f <= i
           /\ i < f => i * n <= t
           /\ \A j \in 1..n : Place(n, i, j) <= t + 1 => i <= f
           /\ \A j \in 1..n : Place(n, i, j) = t + 1 => i = f /\ j = k
<1>1. f * n = (f - 1) * n + n /\ i * n = (i - 1) * n + n
  OBVIOUS
<1>2. ASSUME i < f PROVE i * n <= (f - 1) * n
  <2>1. i <= f - 1
    BY <1>2
  <2> QED
    BY <2>1
<1>3. ASSUME f < i PROVE f * n <= (i - 1) * n
  <2>1. f <= i - 1
    BY <1>3
  <2> QED
    BY <2>1
<1> DEFINE a == (f - 1) * n
           b == (i - 1) * n
           c == f * n
           e == i * n
<1>4. a \in Int /\ b \in Int /\ c \in Int /\ e \in Int
  OBVIOUS
<1>5. c = a + n /\ e = b + n /\ a + k = t + 1 /\ (i < f => e <= a) /\ (f < i => c <= b)
  BY <1>1, <1>2, <1>3 DEF Place
<1> HIDE DEF a, b, c, e
<1>6. i = f => a = b
  BY DEF a, b
<1>7. /\ t < e => f <= i
      /\ i < f => e <= t
      /\ \A j \in 1..n : b + j <= t + 1 => i <= f
      /\ \A j \in 1..n : b + j = t + 1 => i = f /\ j = k
  BY <1>4, <1>5, <1>6
<1> QED
  BY <1>7 DEF b, e, Place

LEMMA OnePlace ==
    ASSUME NEW n \in Nat \ {0}, NEW t \in Nat, NEW f \in Nat \ {0}, NEW k \in 1..n,
           Place(n, f, k) = t + 1, NEW i \in Nat \ {0}, NEW j \in 1..n, Place(n, i, j) = t + 1
    PROVE  i = f /\ j = k
  BY PlacesInOrder

-----------------------------------------------------------------------------
(* The search *)

Queued == [asset : PathAssets, from : PathAssets]
Start(source) == <<[asset |-> source, from |-> source]>>
PairsTyped == pairs \in Seq(PathAssets \X PathAssets)

LEMMA LookedType ==
    ASSUME PairsTyped, NEW queue \in Seq(Queued), NEW t \in Nat,
           t + 1 <= Len(pairs) * (Len(pairs) + 1)
    PROVE  Looked(queue, t + 1) \in Seq(Queued)
<1> DEFINE n == Len(pairs)
           f == (t + 1 - 1) \div n + 1
           k == ((t + 1 - 1) % n) + 1
<1>1. n \in Nat \ {0}
  <2>1. n \in Nat
    BY DEF PairsTyped
  <2>2. n # 0
    <3> SUFFICES ASSUME n = 0 PROVE FALSE
      OBVIOUS
    <3>1. n * (n + 1) = 0
      OBVIOUS
    <3> QED
      BY <3>1
  <2> QED
    BY <2>1, <2>2
<1>2. f \in Nat \ {0} /\ k \in 1..n
  <2> HIDE DEF n
  <2> QED
    BY <1>1, Places
<1>3. Looked(queue, t + 1) = IF f > Len(queue) THEN queue
                             ELSE Visit(queue, queue[f].asset, pairs[k])
  BY DEF Looked
<1>4. pairs[k] \in PathAssets \X PathAssets
  BY <1>2 DEF PairsTyped
<1> HIDE DEF f, k, n
<1>5. CASE f > Len(queue)
  BY <1>3, <1>5
<1>6. CASE ~(f > Len(queue))
  <2>1. f \in 1..Len(queue)
    BY <1>2, <1>6
  <2>2. queue[f].asset \in PathAssets
    <3>1. queue[f] \in Queued
      BY <2>1
    <3> QED
      BY <3>1 DEF Queued
  <2>3. [asset |-> pairs[k][2], from |-> queue[f].asset] \in Queued
    BY <1>4, <2>2 DEF Queued
  <2>4. Append(queue, [asset |-> pairs[k][2], from |-> queue[f].asset]) \in Seq(Queued)
    BY <2>3
  <2> QED
    BY <1>3, <1>6, <2>4, Zenon DEF Visit
<1> QED
  BY <1>5, <1>6

\* The search goes through a table of queues.
LEMMA SearchTable ==
    ASSUME PairsTyped, NEW source \in PathAssets
    PROVE  \E s \in [0..(Len(pairs) * (Len(pairs) + 1)) -> Seq(Queued)] :
             /\ s[0] = Start(source)
             /\ \A t \in Nat : t + 1 <= Len(pairs) * (Len(pairs) + 1)
                                 => s[t + 1] = Looked(s[t], t + 1)
             /\ Reached(source) = s[Len(pairs) * (Len(pairs) + 1)]
<1> DEFINE N == Len(pairs) * (Len(pairs) + 1)
           start == Start(source)
           F == [x \in Nat \X Seq(Queued) |->
                   IF x[1] \in 1..N THEN Looked(x[2], x[1]) ELSE x[2]]
           Rec(s) == s = [k \in 0..N |-> IF k = 0 THEN start ELSE Looked(s[k-1], k)]
           S == CHOOSE s : Rec(s)
<1>1. N \in Nat
  BY DEF PairsTyped
<1>2. start \in Seq(Queued)
  BY DEF Start, Queued
<1>3. ASSUME NEW queue \in Seq(Queued), NEW k \in 1..N PROVE Looked(queue, k) \in Seq(Queued)
  <2> DEFINE t == k - 1
  <2>1. t \in Nat /\ t + 1 = k /\ t + 1 <= N
    BY <1>1
  <2> HIDE DEF t
  <2> QED
    BY <2>1, LookedType
<1>4. Reached(source) = S[N]
  BY DEF Reached, Start
<1> HIDE DEF N, start, S
<1>5. F \in [Nat \X Seq(Queued) -> Seq(Queued)]
  BY <1>3
<1> HIDE DEF F
<1>6. PICK s : Table(Seq(Queued), start, F, N, s)
  BY <1>1, <1>2, <1>5, TableExists
<1>7. ASSUME NEW k \in 0..N, k # 0 PROVE F[<<k, s[k-1]>>] = Looked(s[k-1], k)
  <2>1. k \in 1..N /\ s[k-1] \in Seq(Queued) /\ k \in Nat
    BY <1>1, <1>6, <1>7 DEF Table
  <2> QED
    BY <2>1 DEF F
<1>8. Rec(s)
  <2> DEFINE r == [k \in 0..N |-> IF k = 0 THEN start ELSE Looked(s[k-1], k)]
  <2>1. s \in [0..N -> Seq(Queued)] /\ s[0] = start
    BY <1>6 DEF Table
  <2>2. ASSUME NEW k \in 0..N, k # 0 PROVE s[k] = Looked(s[k-1], k)
    <3>1. k \in 1..N
      BY <1>1, <2>2
    <3>2. s[k] = F[<<k, s[k-1]>>]
      BY <1>6, <3>1 DEF Table
    <3> QED
      BY <1>7, <2>2, <3>2
  <2>3. \A k \in 0..N : s[k] = r[k]
    BY <2>1, <2>2
  <2> QED
    BY <2>1, <2>3
<1>9. Rec(S)
  <2> HIDE DEF Rec
  <2> QED
    BY <1>8 DEF S
<1>10. \A k \in 0..N : S[k] = IF k = 0 THEN start ELSE Looked(S[k-1], k)
  BY <1>9
<1> DEFINE T == {k \in 0..N : S[k] \notin Seq(Queued)}
<1>11. T = {}
  <2> SUFFICES ASSUME T # {} PROVE FALSE
    OBVIOUS
  <2>1. PICK x \in T : \A y \in T : x <= y
    <3>1. T \in SUBSET Nat
      BY <1>1
    <3> HIDE DEF T
    <3> QED
      BY <3>1, LeastNat
  <2>2. x # 0 /\ x \in 1..N /\ x - 1 \in 0..N /\ ~(x <= x - 1)
    BY <1>1, <1>2, <1>10, <2>1
  <2>3. S[x-1] \in Seq(Queued)
    BY <2>1, <2>2
  <2>4. S[x] = Looked(S[x-1], x)
    BY <1>10, <2>2
  <2> QED
    BY <1>3, <2>1, <2>2, <2>3, <2>4
<1>12. S \in [0..N -> Seq(Queued)]
  <2>1. \A k \in 0..N : S[k] \in Seq(Queued)
    BY <1>11
  <2>2. S = [k \in 0..N |-> S[k]]
    BY <1>9
  <2> QED
    BY <2>1, <2>2
<1>13. S[0] = start
  BY <1>1, <1>10
<1>14. \A t \in Nat : t + 1 <= N => S[t + 1] = Looked(S[t], t + 1)
  BY <1>1, <1>10
<1> QED
  BY <1>4, <1>12, <1>13, <1>14 DEF N, start

-----------------------------------------------------------------------------
(* What the search has found after t steps *)

\* d is how many pairs led to every asset of the queue.
Hops(source, q, d) ==
    /\ q \in Seq(Queued) /\ 1 \in 1..Len(q) /\ d \in [1..Len(q) -> Nat]
    /\ q[1].asset = source /\ d[1] = 0
    /\ \A i, j \in 1..Len(q) : q[i].asset = q[j].asset => i = j
    /\ \A i \in 1..Len(q) : i # 1 =>
         \E j \in 1..Len(q) : j < i /\ q[j].asset = q[i].from /\ d[i] = d[j] + 1
    /\ \A i \in 1..Len(q) : i # 1 =>
         \E k \in 1..Len(pairs) : pairs[k] = <<q[i].from, q[i].asset>>

\* The queue is in the order of the hops, and no more than one hop beyond the asset in
\* front; whatever a pair leads to from an asset, once looked at, is found one hop on at
\* the latest.
Layered(t, q, d) ==
    /\ \A i, j \in 1..Len(q) : i <= j => d[i] <= d[j]
    /\ \A i, j \in 1..Len(q) : t < i * Len(pairs) => d[j] <= d[i] + 1
    /\ \A i \in 1..Len(q), k \in 1..Len(pairs) :
         Place(Len(pairs), i, k) <= t /\ pairs[k][1] = q[i].asset =>
           \E j \in 1..Len(q) : q[j].asset = pairs[k][2] /\ d[j] <= d[i] + 1

LEMMA SearchStart ==
    ASSUME PairsTyped, NEW source \in PathAssets
    PROVE  \E d : Hops(source, Start(source), d) /\ Layered(0, Start(source), d)
<1> DEFINE q == Start(source)
           d == [i \in 1..1 |-> 0]
<1>1. q \in Seq(Queued) /\ Len(q) = 1 /\ q[1].asset = source
  BY DEF Start, Queued
<1>2. Len(pairs) \in Nat
  BY DEF PairsTyped
<1> HIDE DEF q
<1>3. d[1] = 0 /\ d \in [1..1 -> Nat] /\ \A i \in 1..1 : i = 1
  OBVIOUS
<1> HIDE DEF d
<1>4. Hops(source, q, d)
  BY <1>1, <1>3 DEF Hops
<1>5. \A k \in 1..Len(pairs) : ~(Place(Len(pairs), 1, k) <= 0)
  BY <1>2 DEF Place
<1>6. Layered(0, q, d)
  BY <1>1, <1>3, <1>5 DEF Layered
<1> QED
  BY <1>4, <1>6 DEF q

\* A pair from the asset in front to an asset not yet found: the asset joins the queue.
LEMMA SearchFinds ==
    ASSUME PairsTyped, NEW source \in PathAssets, NEW t \in Nat, NEW q, NEW d,
           Hops(source, q, d), Layered(t, q, d), Len(pairs) \in Nat \ {0},
           NEW f \in 1..Len(q), NEW k \in 1..Len(pairs),
           Place(Len(pairs), f, k) = t + 1, t + 1 <= f * Len(pairs),
           pairs[k][1] = q[f].asset,
           \A i \in 1..Len(q) : q[i].asset # pairs[k][2]
    PROVE  LET r == Append(q, [asset |-> pairs[k][2], from |-> q[f].asset])
           IN  \E e : Hops(source, r, e) /\ Layered(t + 1, r, e)
<1> DEFINE n == Len(pairs)
           l == Len(q)
           new == [asset |-> pairs[k][2], from |-> q[f].asset]
           r == Append(q, new)
           e == [i \in 1..(l + 1) |-> IF i = l + 1 THEN d[f] + 1 ELSE d[i]]
<1>1. /\ q \in Seq(Queued) /\ l \in Nat /\ d \in [1..l -> Nat] /\ n \in Nat \ {0} /\ 1 \in 1..l
      /\ f \in 1..l /\ f \in Nat \ {0}
  BY DEF Hops
<1>2. new \in Queued /\ pairs[k] = <<new.from, new.asset>> /\ new.from = q[f].asset
      /\ new.asset = pairs[k][2]
  <2>1. pairs[k] \in PathAssets \X PathAssets
    BY DEF PairsTyped
  <2>2. q[f] \in Queued
    BY <1>1
  <2> QED
    BY <2>1, <2>2 DEF Queued
<1>3. /\ r \in Seq(Queued) /\ Len(r) = l + 1 /\ r[l + 1] = new
      /\ \A i \in 1..l : r[i] = q[i] /\ i \in 1..(l+1) /\ i # l + 1
  <2> HIDE DEF new
  <2> QED
    BY <1>1, <1>2
<1>4. /\ e \in [1..(l+1) -> Nat] /\ e[l + 1] = d[f] + 1
      /\ \A i \in 1..l : e[i] = d[i]
  <2> HIDE DEF l
  <2>1. d[f] + 1 \in Nat /\ \A i \in 1..l : d[i] \in Nat /\ i \in 1..(l+1) /\ i # l + 1
    BY <1>1
  <2>2. l + 1 \in 1..(l+1) /\ \A i \in 1..(l+1) : i # l + 1 => i \in 1..l
    BY <1>1
  <2> QED
    BY <2>1, <2>2
<1>5. \A i \in 1..(l+1) : i = l + 1 \/ i \in 1..l
  BY <1>1
<1>6. l + 1 \in 1..(l+1) /\ l + 1 \notin 1..l /\ l + 1 # 1 /\ f < l + 1
  BY <1>1
<1> HIDE DEF e, r, new
<1>7. ASSUME NEW i \in 1..(l+1), NEW j \in 1..(l+1), r[i].asset = r[j].asset PROVE i = j
  <2>1. CASE i \in 1..l /\ j \in 1..l
    BY <1>3, <1>7, <2>1 DEF Hops
  <2>2. CASE i = l + 1 /\ j \in 1..l
    BY <1>2, <1>3, <1>7, <2>2
  <2>3. CASE i \in 1..l /\ j = l + 1
    BY <1>2, <1>3, <1>7, <2>3
  <2> QED
    BY <1>5, <2>1, <2>2, <2>3
<1>8. ASSUME NEW i \in 1..(l+1), i # 1
      PROVE  /\ \E j \in 1..(l+1) : j < i /\ r[j].asset = r[i].from /\ e[i] = e[j] + 1
             /\ \E m \in 1..n : pairs[m] = <<r[i].from, r[i].asset>>
  <2>1. CASE i = l + 1
    <3>1. f \in 1..(l+1) /\ f < i /\ r[f].asset = r[i].from /\ e[i] = e[f] + 1
      BY <1>1, <1>2, <1>3, <1>4, <1>6, <2>1
    <3> QED
      BY <1>2, <1>3, <2>1, <3>1
  <2>2. CASE i \in 1..l
    <3>1. PICK j \in 1..l : j < i /\ q[j].asset = q[i].from /\ d[i] = d[j] + 1
      BY <1>8, <2>2 DEF Hops
    <3>2. PICK m \in 1..n : pairs[m] = <<q[i].from, q[i].asset>>
      BY <1>8, <2>2 DEF Hops
    <3>3. j \in 1..(l+1) /\ r[j].asset = r[i].from /\ e[i] = e[j] + 1
      BY <1>3, <1>4, <2>2, <3>1
    <3> QED
      BY <1>3, <2>2, <3>1, <3>2, <3>3
  <2> QED
    BY <1>5, <2>1, <2>2
<1>9. Hops(source, r, e)
  <2>1. r[1].asset = source /\ e[1] = 0 /\ 1 \in 1..Len(r)
    BY <1>1, <1>3, <1>4 DEF Hops
  <2>2. \A i, j \in 1..Len(r) : r[i].asset = r[j].asset => i = j
    BY <1>3, <1>7
  <2>3. \A i \in 1..Len(r) : i # 1 =>
           \E j \in 1..Len(r) : j < i /\ r[j].asset = r[i].from /\ e[i] = e[j] + 1
    BY <1>3, <1>8
  <2>4. \A i \in 1..Len(r) : i # 1 => \E m \in 1..Len(pairs) : pairs[m] = <<r[i].from, r[i].asset>>
    BY <1>3, <1>8
  <2>5. r \in Seq(Queued) /\ e \in [1..Len(r) -> Nat]
    BY <1>3, <1>4
  <2> HIDE DEF l, n
  <2> QED
    BY <2>1, <2>2, <2>3, <2>4, <2>5 DEF Hops
\* The layers.
<1>10. \A j \in 1..l : d[j] <= d[f] + 1
  <2>1. t < f * n
    <3> DEFINE b == f * n
    <3>1. b \in Nat
      BY <1>1
    <3> HIDE DEF b
    <3>2. t + 1 <= b
      BY DEF b
    <3> QED
      BY <3>1, <3>2 DEF b
  <2> QED
    BY <2>1 DEF Layered
<1>11. ASSUME NEW i \in 1..(l+1), NEW j \in 1..(l+1), i <= j PROVE e[i] <= e[j]
  <2>1. CASE j \in 1..l
    <3>1. i \in 1..l
      BY <1>1, <1>11, <2>1
    <3> QED
      BY <1>4, <1>11, <2>1, <3>1 DEF Layered
  <2>2. CASE j = l + 1 /\ i \in 1..l
    BY <1>4, <1>10, <2>2
  <2>3. CASE j = l + 1 /\ i = l + 1
    BY <1>4, <2>3
  <2> QED
    BY <1>5, <2>1, <2>2, <2>3
<1>12. ASSUME NEW i \in 1..(l+1), NEW j \in 1..(l+1), t + 1 < i * n PROVE e[j] <= e[i] + 1
  <2>1. i \in Nat \ {0} /\ i * n \in Nat
    BY <1>1
  <2>2. t < i * n
    <3> DEFINE b == i * n
    <3>1. b \in Nat /\ t + 1 < b
      BY <1>12, <2>1
    <3> HIDE DEF b
    <3>2. t < b
      BY <3>1
    <3> QED
      BY <3>2 DEF b
  <2>3. f <= i
    BY <1>1, <2>1, <2>2, PlacesInOrder
  <2>4. e[f] <= e[i] /\ e[f] = d[f] /\ e[f] \in Nat /\ e[i] \in Nat /\ e[j] \in Nat
    <3>1. f \in 1..(l+1) /\ e[f] = d[f]
      BY <1>1, <1>4, <1>6
    <3>2. e[f] <= e[i]
      BY <1>11, <2>3, <3>1
    <3> QED
      BY <1>4, <3>1, <3>2
  <2>5. e[j] <= d[f] + 1
    <3>1. CASE j = l + 1
      BY <1>4, <2>4, <3>1
    <3>2. CASE j \in 1..l
      BY <1>4, <1>10, <3>2
    <3> QED
      BY <1>5, <3>1, <3>2
  <2> QED
    BY <2>4, <2>5
<1>13. ASSUME NEW i \in 1..(l+1), NEW m \in 1..n, Place(n, i, m) <= t + 1,
              pairs[m][1] = r[i].asset
       PROVE  \E j \in 1..(l+1) : r[j].asset = pairs[m][2] /\ e[j] <= e[i] + 1
  <2>1. i \in Nat \ {0} /\ i <= f
    <3>1. i \in Nat \ {0}
      BY <1>1
    <3> QED
      BY <1>1, <1>13, <3>1, PlacesInOrder
  <2>2. i \in 1..l
    BY <1>1, <2>1
  <2>3. CASE Place(n, i, m) = t + 1
    <3>1. i = f /\ m = k
      <4>1. k \in 1..n /\ m \in 1..n /\ Place(n, f, k) = t + 1 /\ Place(n, i, m) = t + 1
        BY <2>3
      <4> HIDE DEF n, l
      <4> QED
        BY <1>1, <2>1, <4>1, OnePlace
    <3>2. r[l+1].asset = pairs[m][2] /\ e[l+1] = e[i] + 1 /\ e[i] + 1 <= e[i] + 1
      BY <1>2, <1>3, <1>4, <2>2, <3>1
    <3> QED
      BY <1>6, <3>2
  <2>4. CASE Place(n, i, m) # t + 1
    <3>1. Place(n, i, m) <= t
      <4> DEFINE b == Place(n, i, m)
      <4>1. b \in Int /\ b <= t + 1 /\ b # t + 1
        BY <1>1, <1>13, <2>1, <2>4 DEF Place
      <4> HIDE DEF b
      <4>2. b <= t
        BY <4>1
      <4> QED
        BY <4>2 DEF b
    <3>2. pairs[m][1] = q[i].asset
      BY <1>3, <1>13, <2>2
    <3>3. PICK j \in 1..l : q[j].asset = pairs[m][2] /\ d[j] <= d[i] + 1
      BY <2>2, <3>1, <3>2 DEF Layered
    <3>4. j \in 1..(l+1) /\ r[j].asset = pairs[m][2] /\ e[j] <= e[i] + 1
      BY <1>3, <1>4, <2>2, <3>3
    <3> QED
      BY <3>4
  <2> QED
    BY <2>3, <2>4
<1>14. Layered(t + 1, r, e)
  BY <1>3, <1>11, <1>12, <1>13 DEF Layered
<1> QED
  BY <1>9, <1>14 DEF r, new

\* Nothing in front, a pair from elsewhere, or one to an asset found before.
LEMMA SearchPasses ==
    ASSUME PairsTyped, NEW source \in PathAssets, NEW t \in Nat, NEW q, NEW d,
           Hops(source, q, d), Layered(t, q, d), Len(pairs) \in Nat \ {0},
           NEW f \in Nat \ {0}, NEW k \in 1..Len(pairs),
           Place(Len(pairs), f, k) = t + 1, t < f * Len(pairs),
           f \in 1..Len(q) /\ pairs[k][1] = q[f].asset =>
             \E i \in 1..Len(q) : q[i].asset = pairs[k][2]
    PROVE  Layered(t + 1, q, d)
<1> DEFINE n == Len(pairs)
           l == Len(q)
<1>1. l \in Nat /\ n \in Nat \ {0} /\ d \in [1..l -> Nat]
  BY DEF Hops
<1>2. ASSUME NEW i \in 1..l, NEW j \in 1..l, t + 1 < i * n PROVE d[j] <= d[i] + 1
  <2> DEFINE b == i * n
  <2>1. b \in Nat /\ t + 1 < b
    BY <1>1, <1>2
  <2> HIDE DEF b
  <2>2. t < b
    BY <2>1
  <2> QED
    BY <2>2 DEF b, Layered
<1>3. ASSUME NEW i \in 1..l, NEW m \in 1..n, Place(n, i, m) <= t + 1, pairs[m][1] = q[i].asset
      PROVE  \E j \in 1..l : q[j].asset = pairs[m][2] /\ d[j] <= d[i] + 1
  <2>1. i \in Nat \ {0} /\ Place(n, i, m) \in Int
    BY <1>1 DEF Place
  <2>2. CASE Place(n, i, m) = t + 1
    <3>1. i = f /\ m = k
      <4>1. k \in 1..n /\ m \in 1..n /\ Place(n, f, k) = t + 1
        OBVIOUS
      <4> HIDE DEF n, l
      <4> QED
        BY <1>1, <2>1, <2>2, <4>1, OnePlace
    <3>2. PICK j \in 1..l : q[j].asset = pairs[m][2]
      BY <1>3, <3>1
    <3>3. d[j] <= d[i] + 1
      BY <3>1 DEF Layered
    <3> QED
      BY <3>2, <3>3
  <2>3. CASE Place(n, i, m) # t + 1
    <3>1. Place(n, i, m) <= t
      BY <1>3, <2>1, <2>3
    <3> QED
      BY <1>3, <3>1 DEF Layered
  <2> QED
    BY <2>2, <2>3
<1>4. \A i, j \in 1..l : i <= j => d[i] <= d[j]
  BY DEF Layered
<1> QED
  BY <1>2, <1>3, <1>4 DEF Layered

LEMMA SearchStep ==
    ASSUME PairsTyped, NEW source \in PathAssets, NEW t \in Nat, NEW q,
           t + 1 <= Len(pairs) * (Len(pairs) + 1),
           \E d : Hops(source, q, d) /\ Layered(t, q, d)
    PROVE  \E d : Hops(source, Looked(q, t + 1), d) /\ Layered(t + 1, Looked(q, t + 1), d)
<1> DEFINE n == Len(pairs)
           f == (t + 1 - 1) \div n + 1
           k == ((t + 1 - 1) % n) + 1
           u == q[f].asset
           new == [asset |-> pairs[k][2], from |-> u]
<1>1. n \in Nat \ {0}
  <2>1. n \in Nat
    BY DEF PairsTyped
  <2>2. n # 0
    <3> SUFFICES ASSUME n = 0 PROVE FALSE
      OBVIOUS
    <3>1. n * (n + 1) = 0
      OBVIOUS
    <3> QED
      BY <3>1
  <2> QED
    BY <2>1, <2>2
<1>2. PICK d : Hops(source, q, d) /\ Layered(t, q, d)
  OBVIOUS
<1>3. /\ f \in Nat \ {0} /\ k \in 1..n /\ Place(n, f, k) = t + 1
      /\ t < f * n /\ t + 1 <= f * n
  <2> HIDE DEF n
  <2> QED
    BY <1>1, Places
<1>4. Looked(q, t + 1) = IF f > Len(q) THEN q ELSE Visit(q, u, pairs[k])
  BY DEF Looked
<1>5. Len(q) \in Nat
  BY <1>2 DEF Hops
<1> HIDE DEF f, k
<1>6. CASE /\ f \in 1..Len(q) /\ pairs[k][1] = u
           /\ \A i \in 1..Len(q) : q[i].asset # pairs[k][2]
  <2>1. ~(f > Len(q))
    BY <1>3, <1>5, <1>6
  <2> DEFINE r == Append(q, [asset |-> pairs[k][2], from |-> q[f].asset])
  <2>2. Looked(q, t + 1) = r
    BY <1>4, <1>6, <2>1 DEF Visit
  <2>3. /\ Len(pairs) \in Nat \ {0} /\ f \in 1..Len(q) /\ k \in 1..Len(pairs)
        /\ Place(Len(pairs), f, k) = t + 1 /\ t + 1 <= f * Len(pairs)
        /\ pairs[k][1] = q[f].asset /\ \A i \in 1..Len(q) : q[i].asset # pairs[k][2]
    BY <1>1, <1>3, <1>6
  <2>4. \E e : Hops(source, r, e) /\ Layered(t + 1, r, e)
    BY <1>2, <2>3, SearchFinds
  <2> QED
    BY <2>2, <2>4
<1>7. CASE ~(/\ f \in 1..Len(q) /\ pairs[k][1] = u
             /\ \A i \in 1..Len(q) : q[i].asset # pairs[k][2])
  <2>1. Looked(q, t + 1) = q
    <3>1. CASE f > Len(q)
      BY <1>4, <3>1
    <3>2. CASE ~(f > Len(q))
      <4>1. f \in 1..Len(q)
        BY <1>3, <1>5, <3>2
      <4> QED
        BY <1>4, <1>7, <3>2, <4>1 DEF Visit
    <3> QED
      BY <3>1, <3>2
  <2>2. Layered(t + 1, q, d)
    BY <1>1, <1>2, <1>3, <1>7, SearchPasses
  <2> QED
    BY <1>2, <2>1, <2>2
<1> QED
  BY <1>6, <1>7

\* When the search is over, every asset of the queue has been in front of every pair.
LEMMA SearchEnds ==
    ASSUME PairsTyped, NEW source \in PathAssets
    PROVE  \E d : /\ Hops(source, Reached(source), d)
                  /\ Layered(Len(pairs) * (Len(pairs) + 1), Reached(source), d)
<1> DEFINE N == Len(pairs) * (Len(pairs) + 1)
           Good(t, q) == \E d : Hops(source, q, d) /\ Layered(t, q, d)
<1>1. N \in Nat
  BY DEF PairsTyped
<1>2. PICK s \in [0..N -> Seq(Queued)] :
         /\ s[0] = Start(source)
         /\ \A t \in Nat : t + 1 <= N => s[t + 1] = Looked(s[t], t + 1)
         /\ Reached(source) = s[N]
  BY SearchTable
<1>3. Good(0, s[0])
  BY <1>2, SearchStart
<1>4. ASSUME NEW t \in Nat, t + 1 <= N, Good(t, s[t]) PROVE Good(t + 1, s[t + 1])
  <2>1. s[t + 1] = Looked(s[t], t + 1)
    BY <1>2, <1>4
  <2> QED
    BY <1>4, <2>1, SearchStep
<1> DEFINE T == {t \in 0..N : ~Good(t, s[t])}
<1> HIDE DEF Good, N
<1>5. T = {}
  <2> SUFFICES ASSUME T # {} PROVE FALSE
    OBVIOUS
  <2>1. PICK x \in T : \A y \in T : x <= y
    <3>1. T \in SUBSET Nat
      BY <1>1
    <3> HIDE DEF T
    <3> QED
      BY <3>1, LeastNat
  <2>2. x # 0
    BY <1>3
  <2> DEFINE t == x - 1
  <2>3. t \in Nat /\ t + 1 = x /\ t + 1 <= N /\ t \in 0..N /\ ~(x <= t)
    BY <1>1, <2>1, <2>2
  <2> HIDE DEF t
  <2>4. Good(t, s[t])
    BY <2>1, <2>3
  <2> QED
    BY <1>4, <2>1, <2>3, <2>4
<1>6. Good(N, s[N])
  BY <1>1, <1>5
<1> QED
  BY <1>2, <1>6 DEF Good, N

\* The search reaches no more assets than there are pairs, and the source.
LEMMA QueueFits ==
    ASSUME PairsTyped, NEW source, NEW q, NEW d, Hops(source, q, d)
    PROVE  Len(q) <= Len(pairs) + 1
<1> DEFINE n == Len(pairs)
           l == Len(q)
           into == [i \in 2..l |-> CHOOSE k \in 1..n : pairs[k] = <<q[i].from, q[i].asset>>]
<1>1. l \in Nat /\ n \in Nat
  BY DEF Hops, PairsTyped
<1>2. ASSUME NEW i \in 2..l
      PROVE  into[i] \in 1..n /\ pairs[into[i]] = <<q[i].from, q[i].asset>> /\ i \in 1..l
  <2>1. i \in 1..l /\ i # 1
    BY <1>1
  <2>2. \E k \in 1..n : pairs[k] = <<q[i].from, q[i].asset>>
    BY <2>1 DEF Hops
  <2> QED
    BY <2>1, <2>2
<1>3. into \in [2..l -> 1..n]
  BY <1>2
<1> HIDE DEF into
<1>4. ASSUME NEW i \in 2..l, NEW j \in 2..l, into[i] = into[j] PROVE i = j
  <2>1. q[i].asset = q[j].asset
    BY <1>2, <1>4
  <2> QED
    BY <1>2, <2>1 DEF Hops
<1>5. IsInjective(into)
  BY <1>3, <1>4 DEF IsInjective
<1>6. /\ IsFiniteSet(1..n) /\ Cardinality(1..n) = n
      /\ IsFiniteSet(2..l) /\ (2 <= l => Cardinality(2..l) = l - 1)
  <2>1. 1 \in Int /\ 2 \in Int /\ n \in Int /\ l \in Int
    BY <1>1
  <2> HIDE DEF n, l
  <2>2. IsFiniteSet(1..n) /\ Cardinality(1..n) = IF 1 > n THEN 0 ELSE n - 1 + 1
    BY <2>1, FS_Interval, Zenon
  <2>3. IsFiniteSet(2..l) /\ Cardinality(2..l) = IF 2 > l THEN 0 ELSE l - 2 + 1
    BY <2>1, FS_Interval, Zenon
  <2> QED
    BY <1>1, <2>2, <2>3
<1>7. Cardinality(2..l) <= Cardinality(1..n)
  BY <1>3, <1>5, <1>6, FS_Injection DEF ExistsInjection, Injection
<1> QED
  BY <1>1, <1>6, <1>7

-----------------------------------------------------------------------------
(* The assets within some hops *)

\* The assets one hop from those of A, and those of A.
Nearer(A) == A \cup {a \in PathAssets : \E b \in A : <<b, a>> \in Edges}

LEMMA WithinTable ==
    ASSUME NEW source \in PathAssets, NEW n \in Nat
    PROVE  \E s \in [0..n -> SUBSET PathAssets] :
             /\ s[0] = {source} /\ Within(source, n) = s[n]
             /\ \A k \in 1..n : s[k] = Nearer(s[k-1])
<1> DEFINE X == SUBSET PathAssets
           F == [x \in Nat \X X |-> Nearer(x[2])]
           Rec(s) == s = [k \in 0..n |->
                            IF k = 0 THEN {source}
                            ELSE s[k-1] \cup {a \in PathAssets : \E b \in s[k-1] : <<b, a>> \in Edges}]
           S == CHOOSE s : Rec(s)
<1>1. Within(source, n) = S[n]
  BY DEF Within
<1>2. {source} \in X
  OBVIOUS
<1>3. ASSUME NEW A \in X PROVE Nearer(A) \in X
  BY DEF Nearer
<1> HIDE DEF X, S
<1>4. F \in [Nat \X X -> X]
  BY <1>3
<1> HIDE DEF F
<1>5. PICK s : Table(X, {source}, F, n, s)
  BY <1>2, <1>4, TableExists
<1>6. ASSUME NEW k \in 1..n PROVE s[k] = Nearer(s[k-1])
  <2>1. s[k-1] \in X /\ k \in Nat /\ s[k] = F[<<k, s[k-1]>>]
    BY <1>5 DEF Table
  <2> QED
    BY <2>1 DEF F
<1>7. Rec(s)
  <2> DEFINE r == [k \in 0..n |->
                     IF k = 0 THEN {source}
                     ELSE s[k-1] \cup {a \in PathAssets : \E b \in s[k-1] : <<b, a>> \in Edges}]
  <2>1. s \in [0..n -> X] /\ s[0] = {source}
    BY <1>5 DEF Table
  <2>2. ASSUME NEW k \in 0..n PROVE s[k] = r[k]
    <3>1. CASE k = 0
      BY <2>1, <3>1
    <3>2. CASE k # 0
      <4>1. k \in 1..n
        BY <3>2
      <4>2. r[k] = Nearer(s[k-1])
        BY <3>2 DEF Nearer
      <4> QED
        BY <1>6, <4>1, <4>2
    <3> QED
      BY <3>1, <3>2
  <2> QED
    BY <2>1, <2>2
<1>8. Rec(S)
  <2> HIDE DEF Rec
  <2> QED
    BY <1>7 DEF S
<1>9. ASSUME NEW k \in 0..n
      PROVE S[k] = IF k = 0 THEN {source} ELSE Nearer(S[k-1])
  BY <1>8 DEF Nearer
<1> DEFINE T == {k \in 0..n : S[k] \notin X}
<1>10. T = {}
  <2> SUFFICES ASSUME T # {} PROVE FALSE
    OBVIOUS
  <2>1. PICK x \in T : \A y \in T : x <= y
    <3>1. T \in SUBSET Nat
      OBVIOUS
    <3> HIDE DEF T
    <3> QED
      BY <3>1, LeastNat
  <2>2. x # 0 /\ x \in 0..n /\ x - 1 \in 0..n /\ ~(x <= x - 1)
    BY <1>2, <1>9, <2>1
  <2>3. S[x-1] \in X
    BY <2>1, <2>2
  <2> QED
    BY <1>3, <1>9, <2>1, <2>2, <2>3
<1>11. S \in [0..n -> X]
  <2>1. \A k \in 0..n : S[k] \in X
    BY <1>10
  <2>2. S = [k \in 0..n |-> S[k]]
    BY <1>8
  <2> QED
    BY <2>1, <2>2
<1>12. S[0] = {source} /\ \A k \in 1..n : S[k] = Nearer(S[k-1])
  BY <1>9
<1> QED
  BY <1>1, <1>11, <1>12 DEF X

\* Once the search is over, every asset within n hops has been found, n hops on at most.
LEMMA WithinIsFound ==
    ASSUME PairsTyped, NEW source \in PathAssets, NEW q, NEW d, Hops(source, q, d),
           Layered(Len(pairs) * (Len(pairs) + 1), q, d),
           NEW n \in Nat, NEW a \in Within(source, n)
    PROVE  \E i \in 1..Len(q) : q[i].asset = a /\ d[i] <= n
<1>1. PICK s \in [0..n -> SUBSET PathAssets] :
         /\ s[0] = {source} /\ Within(source, n) = s[n]
         /\ \A k \in 1..n : s[k] = Nearer(s[k-1])
  BY WithinTable
<1> DEFINE p == Len(pairs)
           l == Len(q)
           Found(k) == \A b \in s[k] : \E i \in 1..l : q[i].asset = b /\ d[i] <= k
           T == {k \in 0..n : ~Found(k)}
<1>2. p \in Nat /\ l \in Nat /\ l <= p + 1 /\ d \in [1..l -> Nat]
  BY QueueFits DEF PairsTyped, Hops
<1>3. Found(0)
  <2>1. 1 \in 1..l /\ q[1].asset = source /\ d[1] <= 0
    BY DEF Hops
  <2> QED
    BY <1>1, <2>1
<1>4. ASSUME NEW k \in 1..n, Found(k-1) PROVE Found(k)
  <2> SUFFICES ASSUME NEW b \in s[k] PROVE \E i \in 1..l : q[i].asset = b /\ d[i] <= k
    OBVIOUS
  <2>1. CASE b \in s[k-1]
    <3>1. PICK i \in 1..l : q[i].asset = b /\ d[i] <= k - 1
      BY <1>4, <2>1
    <3>2. d[i] <= k
      BY <1>2, <3>1
    <3> QED
      BY <3>1, <3>2
  <2>2. CASE b \notin s[k-1]
    <3>1. PICK u \in s[k-1] : <<u, b>> \in Edges
      BY <1>1, <2>2 DEF Nearer
    <3>2. PICK m \in 1..p : pairs[m] = <<u, b>>
      BY <3>1 DEF Edges
    <3>3. PICK i \in 1..l : q[i].asset = u /\ d[i] <= k - 1
      BY <1>4, <3>1
    <3>4. Place(p, i, m) <= p * (p + 1)
      <4> HIDE DEF p, l
      <4>1. i - 1 <= p /\ i - 1 \in Nat /\ m <= p /\ m \in Nat
        BY <1>2, <3>2, <3>3
      <4>2. (i - 1) * p <= p * p
        BY <1>2, <4>1
      <4>3. p * (p + 1) = p * p + p
        BY <1>2
      <4> QED
        BY <1>2, <4>1, <4>2, <4>3 DEF Place
    <3>5. PICK j \in 1..l : q[j].asset = b /\ d[j] <= d[i] + 1
      <4>1. pairs[m][1] = q[i].asset /\ pairs[m][2] = b
        BY <3>2, <3>3
      <4> QED
        BY <3>4, <4>1 DEF Layered
    <3>6. d[j] <= k
      BY <1>2, <3>3, <3>5
    <3> QED
      BY <3>5, <3>6
  <2> QED
    BY <2>1, <2>2
<1> HIDE DEF Found
<1>5. T = {}
  <2> SUFFICES ASSUME T # {} PROVE FALSE
    OBVIOUS
  <2>1. PICK x \in T : \A y \in T : x <= y
    <3>1. T \in SUBSET Nat
      OBVIOUS
    <3> HIDE DEF T
    <3> QED
      BY <3>1, LeastNat
  <2>2. x # 0 /\ x \in 1..n /\ x - 1 \in 0..n /\ ~(x <= x - 1)
    BY <1>3, <2>1
  <2> QED
    BY <1>4, <2>1, <2>2
<1>6. Found(n)
  BY <1>5
<1> QED
  BY <1>1, <1>6 DEF Found

-----------------------------------------------------------------------------
(* The path back *)

\* A walk of h pairs from source to a.
Trail(path, source, a, h) ==
    /\ path \in Seq(PathAssets) /\ Len(path) = h + 1
    /\ path[1] = source /\ path[h + 1] = a /\ IsWalk(path)

LEMMA TrailStarts ==
    ASSUME NEW source \in PathAssets
    PROVE  Trail(<<source>>, source, source, 0)
<1> DEFINE b == <<source>>
<1>1. b \in Seq(PathAssets) /\ Len(b) = 1 /\ b[1] = source
  OBVIOUS
<1> HIDE DEF b
<1>2. IsWalk(b)
  BY <1>1 DEF IsWalk
<1> QED
  BY <1>1, <1>2 DEF Trail, b

LEMMA TrailGrows ==
    ASSUME NEW source, NEW u, NEW a \in PathAssets, NEW h \in Nat, NEW b,
           Trail(b, source, u, h), <<u, a>> \in Edges
    PROVE  Trail(Append(b, a), source, a, h + 1)
<1> DEFINE r == Append(b, a)
<1>1. b \in Seq(PathAssets) /\ Len(b) = h + 1 /\ b[1] = source /\ b[h + 1] = u
  BY DEF Trail
<1>2. /\ r \in Seq(PathAssets) /\ Len(r) = h + 2 /\ r[h + 2] = a
      /\ \A k \in 1..(h + 1) : r[k] = b[k]
  BY <1>1
<1> HIDE DEF r
<1>3. ASSUME NEW k \in 1..(Len(r) - 1) PROVE <<r[k], r[k + 1]>> \in Edges
  <2>1. CASE k = h + 1
    <3>1. r[k] = u /\ r[k + 1] = a
      BY <1>1, <1>2, <2>1
    <3> QED
      BY <3>1
  <2>2. CASE k # h + 1
    <3>1. k \in 1..(Len(b) - 1) /\ r[k] = b[k] /\ r[k + 1] = b[k + 1]
      BY <1>1, <1>2, <2>2
    <3> QED
      BY <3>1 DEF Trail, IsWalk
  <2> QED
    BY <2>1, <2>2
<1>4. r[1] = source /\ h + 1 + 1 = h + 2
  BY <1>1, <1>2
<1> QED
  BY <1>2, <1>3, <1>4 DEF Trail, IsWalk, r

\* The path to an asset the search has found is a walk of as many pairs as led to it;
\* to any other there is none.
LEMMA PathFollows ==
    ASSUME PairsTyped, NEW source \in PathAssets, NEW dest, NEW d,
           Hops(source, Reached(source), d)
    PROVE  LET q == Reached(source) IN
           /\ (\A i \in 1..Len(q) : q[i].asset # dest) => Path(source, dest) = <<>>
           /\ \A i \in 1..Len(q) :
                q[i].asset = dest => Trail(Path(source, dest), source, dest, d[i])
<1> DEFINE q == Reached(source)
           l == Len(q)
           At(a) == CHOOSE i \in 1..Len(q) : q[i].asset = a
           Rec(s) == s = [i \in 1..l |-> IF i = 1 THEN <<source>>
                                         ELSE Append(s[At(q[i].from)], q[i].asset)]
           S == CHOOSE s : Rec(s)
           path == Path(source, dest)
<1>1. path = IF \E i \in 1..l : q[i].asset = dest THEN S[At(dest)] ELSE <<>>
  BY DEF Path
<1> HIDE DEF S, path
<1>h. Hops(source, q, d)
  OBVIOUS
<1> HIDE DEF q
<1>2. l \in Nat /\ d \in [1..l -> Nat] /\ q \in Seq(Queued) /\ 1 \in 1..l
  BY <1>h DEF Hops
<1>3. ASSUME NEW i \in 1..l PROVE At(q[i].asset) = i
  <2>1. \E j \in 1..Len(q) : q[j].asset = q[i].asset
    OBVIOUS
  <2>2. At(q[i].asset) \in 1..Len(q) /\ q[At(q[i].asset)].asset = q[i].asset
    BY <2>1
  <2> HIDE DEF At
  <2> QED
    BY <1>h, <2>2 DEF Hops
<1> DEFINE par(i) == At(q[i].from)
<1>4. ASSUME NEW i \in 1..l, i # 1
      PROVE  /\ par(i) \in 1..(i-1) /\ par(i) \in 1..l
             /\ q[par(i)].asset = q[i].from /\ d[i] = d[par(i)] + 1
  <2>1. PICK j \in 1..l : j < i /\ q[j].asset = q[i].from /\ d[i] = d[j] + 1
    BY <1>h, <1>4 DEF Hops
  <2>2. At(q[j].asset) = j
    BY <1>3
  <2> HIDE DEF At
  <2>3. par(i) = j
    BY <2>1, <2>2
  <2> QED
    BY <1>2, <2>1, <2>3
<1> HIDE DEF At, l
<1> DEFINE Next1(s, i) == IF i = 1 THEN <<source>> ELSE Append(s[par(i)], q[i].asset)
           Partial(m, s) == s = [i \in 1..m |-> Next1(s, i)]
           T == {m \in 0..l : ~ \E s : Partial(m, s)}
<1>5. T = {}
  <2> SUFFICES ASSUME T # {} PROVE FALSE
    OBVIOUS
  <2>1. PICK x \in T : \A y \in T : x <= y
    <3>1. T \in SUBSET Nat
      BY <1>2
    <3> HIDE DEF T
    <3> QED
      BY <3>1, LeastNat
  <2>2. CASE x = 0
    <3> DEFINE e == [i \in 1..0 |-> 0]
    <3>1. Partial(0, e)
      OBVIOUS
    <3> QED
      BY <2>1, <2>2, <3>1
  <2>3. CASE x # 0
    <3>1. x - 1 \in 0..l /\ ~(x <= x - 1) /\ x \in Nat /\ x \in 1..l
      BY <1>2, <2>1, <2>3
    <3>2. PICK s : Partial(x - 1, s)
      BY <2>1, <3>1
    <3> HIDE DEF par
    <3> DEFINE u == [i \in 1..x |-> IF i = x THEN Next1(s, x) ELSE s[i]]
    <3>3. ASSUME NEW i \in 1..x PROVE u[i] = Next1(u, i)
      <4>1. i # 1 => par(i) \in 1..(i-1)
        BY <1>2, <1>4, <3>1
      <4>2. i # 1 => par(i) \in 1..x /\ par(i) # x
        BY <3>1, <4>1
      <4>3. i # 1 => u[par(i)] = s[par(i)]
        BY <4>2
      <4>4. Next1(u, i) = Next1(s, i)
        BY <4>3
      <4>5. CASE i = x
        BY <4>4, <4>5
      <4>6. CASE i # x
        <5>1. i \in 1..(x-1) /\ u[i] = s[i]
          BY <3>1, <4>6
        <5>2. s[i] = Next1(s, i)
          BY <3>2, <5>1
        <5> HIDE DEF u, Next1
        <5> QED
          BY <4>4, <5>1, <5>2
      <4> QED
        BY <4>5, <4>6
    <3>4. Partial(x, u)
      <4> DEFINE r == [i \in 1..x |-> Next1(u, i)]
      <4> HIDE DEF Next1
      <4>1. \A i \in 1..x : u[i] = r[i]
        BY <3>3
      <4> QED
        BY <4>1
    <3> QED
      BY <2>1, <3>4
  <2> QED
    BY <2>2, <2>3
<1>6. \E s : Rec(s)
  <2>1. l \in 0..l
    BY <1>2
  <2>2. PICK s : Partial(l, s)
    BY <1>5, <2>1
  <2>3. Rec(s)
    BY <2>2
  <2> QED
    BY <2>3
<1>7. Rec(S)
  <2> HIDE DEF Rec
  <2> QED
    BY <1>6 DEF S
<1>8. ASSUME NEW i \in 1..l PROVE S[i] = Next1(S, i)
  BY <1>7
<1> DEFINE Good(i) == Trail(S[i], source, q[i].asset, d[i])
           U == {i \in 1..l : ~Good(i)}
<1>9. Good(1)
  <2>1. S[1] = <<source>>
    BY <1>2, <1>8 DEF l
  <2>2. q[1].asset = source /\ d[1] = 0
    BY <1>h DEF Hops
  <2> QED
    BY <2>1, <2>2, TrailStarts
<1>10. ASSUME NEW i \in 1..l, i # 1, Good(par(i)) PROVE Good(i)
  <2>1. S[i] = Append(S[par(i)], q[i].asset)
    BY <1>8, <1>10
  <2>2. /\ par(i) \in 1..l /\ q[par(i)].asset = q[i].from /\ d[i] = d[par(i)] + 1
        /\ d[par(i)] \in Nat
    BY <1>2, <1>4, <1>10 DEF l
  <2>3. <<q[i].from, q[i].asset>> \in Edges
    <3>1. PICK k \in 1..Len(pairs) : pairs[k] = <<q[i].from, q[i].asset>>
      BY <1>h, <1>10 DEF Hops, l
    <3> QED
      BY <3>1 DEF Edges
  <2>4. q[i].asset \in PathAssets
    <3>1. q[i] \in Queued
      BY <1>2 DEF l
    <3> QED
      BY <3>1 DEF Queued
  <2> HIDE DEF par
  <2>5. Trail(S[par(i)], source, q[i].from, d[par(i)])
    BY <1>10, <2>2
  <2>6. Trail(Append(S[par(i)], q[i].asset), source, q[i].asset, d[par(i)] + 1)
    BY <2>2, <2>3, <2>4, <2>5, TrailGrows
  <2> QED
    BY <2>1, <2>2, <2>6
<1>11. U = {}
  <2> SUFFICES ASSUME U # {} PROVE FALSE
    OBVIOUS
  <2>1. PICK x \in U : \A y \in U : x <= y
    <3>1. U \in SUBSET Nat
      BY <1>2
    <3> HIDE DEF U
    <3> QED
      BY <3>1, LeastNat
  <2>2. x # 1 /\ x \in 1..l
    BY <1>9, <2>1
  <2>3. par(x) \in 1..(x-1) /\ par(x) \in 1..l
    BY <1>4, <2>2 DEF l
  <2> HIDE DEF par, Good
  <2>4. Good(par(x))
    <3>1. ~(x <= par(x))
      BY <1>2, <2>2, <2>3
    <3> QED
      BY <2>1, <2>3, <3>1
  <2> QED
    BY <1>10, <2>1, <2>2, <2>4 DEF par
<1>12. ASSUME \A i \in 1..l : q[i].asset # dest PROVE path = <<>>
  BY <1>1, <1>12
<1>13. ASSUME NEW i \in 1..l, q[i].asset = dest PROVE Trail(path, source, dest, d[i])
  <2>1. At(dest) = i
    BY <1>3, <1>13 DEF l
  <2>2. path = S[i]
    BY <1>1, <1>13, <2>1
  <2>3. Good(i)
    BY <1>11
  <2> QED
    BY <1>13, <2>2, <2>3
<1> QED
  BY <1>12, <1>13 DEF path, q, l

LEMMA PathIsShortest ==
    ASSUME PairsTyped, MaxPairs \in Nat, NEW source \in PathAssets, NEW dest \in PathAssets
    PROVE  LET path == Path(source, dest) IN
           IF path = <<>> THEN dest \notin Within(source, MaxPairs)
           ELSE /\ path \in Seq(PathAssets) /\ Len(path) \in Nat \ {0}
                /\ IsWalk(path) /\ path[1] = source /\ Last(path) = dest
                /\ Len(path) > 1 => dest \notin Within(source, Len(path) - 2)
<1> DEFINE q == Reached(source)
           path == Path(source, dest)
<1>1. PICK d : Hops(source, q, d) /\ Layered(Len(pairs) * (Len(pairs) + 1), q, d)
  BY SearchEnds
<1>2. /\ (\A i \in 1..Len(q) : q[i].asset # dest) => path = <<>>
      /\ \A i \in 1..Len(q) : q[i].asset = dest => Trail(path, source, dest, d[i])
  BY <1>1, PathFollows
<1>3. ASSUME NEW n \in Nat, dest \in Within(source, n)
      PROVE  \E i \in 1..Len(q) : q[i].asset = dest /\ d[i] <= n
  BY <1>1, <1>3, WithinIsFound
<1> HIDE DEF q, path
<1>4. d \in [1..Len(q) -> Nat]
  BY <1>1 DEF Hops
<1>5. CASE path = <<>>
  <2>1. \A i \in 1..Len(q) : q[i].asset # dest
    <3> SUFFICES ASSUME NEW i \in 1..Len(q), q[i].asset = dest PROVE FALSE
      OBVIOUS
    <3>1. d[i] \in Nat /\ Len(path) = d[i] + 1 /\ Len(path) = 0
      BY <1>2, <1>4, <1>5 DEF Trail
    <3> QED
      BY <3>1
  <2>2. dest \notin Within(source, MaxPairs)
    BY <1>3, <2>1
  <2> QED
    BY <1>5, <2>2 DEF path
<1>6. CASE path # <<>>
  <2>1. PICK i \in 1..Len(q) : q[i].asset = dest
    BY <1>2, <1>6
  <2>2. Trail(path, source, dest, d[i]) /\ d[i] \in Nat
    BY <1>2, <1>4, <2>1
  <2>3. /\ path \in Seq(PathAssets) /\ Len(path) = d[i] + 1
        /\ IsWalk(path) /\ path[1] = source /\ path[Len(path)] = dest
    BY <2>2 DEF Trail
  <2>4. ASSUME Len(path) > 1, dest \in Within(source, Len(path) - 2) PROVE FALSE
    <3>1. Len(path) - 2 \in Nat /\ ~(d[i] <= Len(path) - 2)
      BY <2>2, <2>3, <2>4
    <3>2. PICK j \in 1..Len(q) : q[j].asset = dest /\ d[j] <= Len(path) - 2
      BY <1>3, <2>4, <3>1
    <3>3. i = j
      BY <1>1, <2>1, <3>2 DEF Hops
    <3> QED
      BY <3>1, <3>2, <3>3
  <2>5. Len(path) \in Nat \ {0} /\ Last(path) = dest
    BY <2>2, <2>3 DEF Last
  <2> QED
    BY <1>6, <2>3, <2>4, <2>5 DEF path
<1> QED
  BY <1>5, <1>6

-----------------------------------------------------------------------------
(* What an execution promises *)

RatesTyped == rate \in [PathAssets \X PathAssets -> Nat]

\* The rates promise an integer amount at every place of the path.
LEMMA PromisedTyped ==
    ASSUME RatesTyped, RateUnit \in Nat \ {0}, NEW amount \in Int, NEW n \in Nat,
           NEW path \in Seq(PathAssets), Len(path) = n + 1
    PROVE  LET expected[k \in 0..n] ==
                 IF k = 0 THEN amount ELSE Converted(path[k], path[k + 1], expected[k - 1])
           IN  expected[0] = amount /\ expected[n] \in Int
<1> DEFINE Step(k, x) == Converted(path[k], path[k + 1], x)
           F == [x \in Nat \X Int |-> IF x[1] \in 1..n THEN Step(x[1], x[2]) ELSE 0]
           Rec(s) == s = [k \in 0..n |-> IF k = 0 THEN amount ELSE Step(k, s[k-1])]
           S == CHOOSE s : Rec(s)
<1>1. ASSUME NEW k \in 1..n, NEW x \in Int PROVE Step(k, x) \in Int
  <2>1. <<path[k], path[k+1]>> \in PathAssets \X PathAssets
    BY <1>1
  <2>2. rate[<<path[k], path[k+1]>>] \in Nat
    BY <2>1 DEF RatesTyped
  <2> QED
    BY <2>2 DEF Converted
<1> HIDE DEF Step
<1>2. F \in [Nat \X Int -> Int]
  BY <1>1
<1> HIDE DEF F
<1>3. PICK s : Table(Int, amount, F, n, s)
  BY <1>2, TableExists
<1>4. ASSUME NEW k \in 1..n PROVE s[k] = Step(k, s[k-1])
  <2>1. s[k-1] \in Int /\ s[k] = F[<<k, s[k-1]>>] /\ k \in Nat
    BY <1>3 DEF Table
  <2> QED
    BY <2>1 DEF F
<1>5. Rec(s)
  <2> DEFINE r == [k \in 0..n |-> IF k = 0 THEN amount ELSE Step(k, s[k-1])]
  <2>1. s \in [0..n -> Int] /\ s[0] = amount
    BY <1>3 DEF Table
  <2>2. ASSUME NEW k \in 0..n PROVE s[k] = r[k]
    <3>1. k = 0 \/ k \in 1..n
      OBVIOUS
    <3> QED
      BY <1>4, <2>1, <3>1
  <2> QED
    BY <2>1, <2>2
<1>6. Rec(S)
  <2> HIDE DEF Rec
  <2> QED
    BY <1>5 DEF S
<1>7. \A k \in 0..n : S[k] = IF k = 0 THEN amount ELSE Step(k, S[k-1])
  BY <1>6
<1> HIDE DEF S
<1> DEFINE T == {k \in 0..n : S[k] \notin Int}
<1>8. T = {}
  <2> SUFFICES ASSUME T # {} PROVE FALSE
    OBVIOUS
  <2>1. PICK x \in T : \A y \in T : x <= y
    <3>1. T \in SUBSET Nat
      OBVIOUS
    <3> HIDE DEF T
    <3> QED
      BY <3>1, LeastNat
  <2>2. x # 0 /\ x \in 1..n /\ x \in 0..n /\ x - 1 \in 0..n /\ ~(x <= x - 1)
    BY <1>7, <2>1
  <2>3. S[x-1] \in Int
    BY <2>1, <2>2
  <2>4. S[x] = Step(x, S[x-1])
    BY <1>7, <2>2
  <2> QED
    BY <1>1, <2>1, <2>2, <2>3, <2>4
<1>9. S[0] = amount /\ S[n] \in Int
  <2>1. 0 \in 0..n /\ n \in 0..n
    OBVIOUS
  <2> QED
    BY <1>7, <1>8, <2>1
<1> QED
  BY <1>9 DEF S, Step

LEMMA FloorIsClose ==
    ASSUME NEW v \in Int, NEW b \in Nat \ {0}, NEW out \in Int, out >= v \div b
    PROVE  out * b > v - b
<1> DEFINE f == v \div b
<1>1. f \in Int /\ v < f * b + b
  OBVIOUS
<1>2. out * b >= f * b
  OBVIOUS
<1> DEFINE x == out * b
           y == f * b
<1>3. x \in Int /\ y \in Int
  BY <1>1
<1> HIDE DEF x, y, f
<1>4. v < y + b /\ x >= y
  BY <1>1, <1>2 DEF x, y
<1> QED
  BY <1>3, <1>4 DEF x

-----------------------------------------------------------------------------
(* The path-payment contract *)

IntentLeads(i) == i.path \in Seq(PathAssets) /\ Len(i.path) \in Nat \ {0} /\ IsWalk(i.path)
NearPromise(e) == e.out * SlipBase > e.expected * (SlipBase - e.slippage) - SlipBase

\* Rows as the code writes them, intents that lead along pairs, and the last execution.
PathInv ==
    /\ PairsTyped
    /\ RatesTyped
    /\ intent = [s \in PathSplits |-> intent[s]]
    /\ \A s \in PathSplits : intent[s] # Nothing => IntentLeads(intent[s])
    /\ executed # Nothing => NearPromise(executed)

LEMMA PathInitInv == PathInit => PathInv
<1> SUFFICES ASSUME PathInit PROVE PathInv
  OBVIOUS
<1>1. PairsTyped /\ RatesTyped
  BY DEF PathInit, PairsTyped, RatesTyped
<1> QED
  BY <1>1 DEF PathInit, PathInv

\* Pairs are only added: a walk stays one.
LEMMA PairsAreAdded ==
    ASSUME PathInv, NEW from \in PathAssets, NEW to \in PathAssets, register_pair(from, to)
    PROVE  PathInv'
<1>1. /\ pairs \in Seq(PathAssets \X PathAssets) /\ pairs' = Append(pairs, <<from, to>>)
      /\ UNCHANGED <<rate, intent, executed>>
  BY DEF PathInv, PairsTyped, register_pair
<1>2. PairsTyped'
  BY <1>1 DEF PairsTyped
<1>3. Edges \subseteq Edges'
  <2> SUFFICES ASSUME NEW k \in 1..Len(pairs) PROVE pairs[k] \in Edges'
    BY DEF Edges
  <2>1. k \in 1..Len(pairs') /\ pairs'[k] = pairs[k]
    BY <1>1
  <2> QED
    BY <2>1 DEF Edges
<1>4. ASSUME NEW s \in PathSplits, intent[s] # Nothing PROVE IntentLeads(intent[s])'
  <2>1. IntentLeads(intent[s])
    BY <1>4 DEF PathInv
  <2> QED
    BY <1>1, <1>3, <2>1 DEF IntentLeads, IsWalk
<1> QED
  BY <1>1, <1>2, <1>4 DEF PathInv, RatesTyped, NearPromise

LEMMA RatesAreSet ==
    ASSUME PathInv, NEW from \in PathAssets, NEW to \in PathAssets, NEW r \in ConvRates,
           set_rate(from, to, r)
    PROVE  PathInv'
<1>1. rate' = [rate EXCEPT ![<<from, to>>] = r] /\ UNCHANGED <<pairs, intent, executed>>
  BY DEF set_rate
<1>2. RatesTyped'
  BY <1>1, PathConstants DEF PathInv, RatesTyped
<1>3. Edges' = Edges
  BY <1>1 DEF Edges
<1> QED
  BY <1>1, <1>2, <1>3 DEF PathInv, PairsTyped, NearPromise, IntentLeads, IsWalk

LEMMA IntentsLead ==
    ASSUME PathInv, NEW from \in PathAssets, NEW to \in PathAssets, NEW s \in PathSplits,
           find_payment_path(from, to, s)
    PROVE  PathInv'
<1> DEFINE path == Path(from, to)
           new == [path |-> path, discovered_ledger |-> ledger]
<1>1. /\ ShortEnough(path) /\ intent' = [intent EXCEPT ![s] = new]
      /\ UNCHANGED <<pairs, rate, executed>>
  BY DEF find_payment_path
<1>2. path # <<>>
  BY <1>1, PathConstants DEF ShortEnough
<1>3. /\ path \in Seq(PathAssets) /\ Len(path) \in Nat \ {0} /\ IsWalk(path)
  BY <1>2, PathIsShortest, PathConstants DEF PathInv
<1> HIDE DEF path
<1>4. IntentLeads(new)
  BY <1>3 DEF IntentLeads
<1> HIDE DEF new
<1>5. intent' = [t \in PathSplits |-> IF t = s THEN new ELSE intent[t]]
  BY <1>1 DEF PathInv
<1>6. Edges' = Edges
  BY <1>1 DEF Edges
<1>7. ASSUME NEW t \in PathSplits, intent'[t] # Nothing PROVE IntentLeads(intent[t])'
  <2>1. IntentLeads(intent'[t])
    BY <1>4, <1>5, <1>7 DEF PathInv
  <2> QED
    BY <1>6, <2>1 DEF IntentLeads, IsWalk
<1>8. intent' = [t \in PathSplits |-> intent'[t]]
  BY <1>5
<1> QED
  BY <1>1, <1>7, <1>8 DEF PathInv, PairsTyped, RatesTyped, NearPromise

LEMMA ExecutionKeepsPromise ==
    ASSUME PathInv, NEW s \in PathSplits, NEW amount \in SwapAmounts, NEW slippage \in Slippages,
           execute_path_payment(s, amount, slippage)
    PROVE  PathInv'
<1> DEFINE path == intent[s].path
           n == Len(path) - 1
           expected[k \in 0..n] ==
             IF k = 0 THEN amount ELSE Converted(path[k], path[k + 1], expected[k - 1])
           e == expected[n]
<1>1. /\ intent[s] # Nothing /\ amount > 0
      /\ UNCHANGED <<pairs, rate, intent>>
      /\ \E answers \in [0..n -> SwapAmounts \cup {amount}] :
           /\ answers[0] = amount
           /\ n > 0 => answers[n] >= AtLeast(e, slippage)
           /\ executed' = [expected |-> e, slippage |-> slippage, out |-> answers[n]]
  BY DEF execute_path_payment
<1>2. path \in Seq(PathAssets) /\ Len(path) = n + 1 /\ n \in Nat
  BY <1>1 DEF PathInv, IntentLeads
<1>3. amount \in Int /\ slippage \in Nat /\ SlipBase \in Nat \ {0} /\ RateUnit \in Nat \ {0}
      /\ SwapAmounts \cup {amount} \subseteq Int
  BY PathConstants
<1>4. expected[0] = amount /\ e \in Int
  <2> HIDE DEF n, path
  <2> QED
    BY <1>2, <1>3, PromisedTyped DEF PathInv
<1> HIDE DEF expected, n, path
<1>5. n = 0 => e = amount
  BY <1>4
<1> HIDE DEF e
<1>6. PICK answers \in [0..n -> SwapAmounts \cup {amount}] :
           /\ answers[0] = amount
           /\ n > 0 => answers[n] >= AtLeast(e, slippage)
           /\ executed' = [expected |-> e, slippage |-> slippage, out |-> answers[n]]
  BY <1>1
<1> DEFINE out == answers[n]
<1>7. out \in Int
  <2>1. n \in 0..n
    BY <1>2
  <2>2. out \in SwapAmounts \cup {amount}
    BY <1>6, <2>1
  <2> QED
    BY <1>3, <2>2
<1>8. out * SlipBase > e * (SlipBase - slippage) - SlipBase
  <2>1. CASE n = 0
    <3>1. out = amount /\ e = amount
      BY <1>5, <1>6, <2>1
    <3>2. amount * (SlipBase - slippage) = amount * SlipBase - amount * slippage
      BY <1>3
    <3>3. amount * slippage >= 0
      BY <1>1, <1>3
    <3> DEFINE x == amount * SlipBase
               y == amount * slippage
    <3>4. x \in Int /\ y \in Int
      BY <1>3
    <3> HIDE DEF x, y
    <3>5. x > x - y - SlipBase
      BY <1>3, <3>3, <3>4 DEF y
    <3> QED
      BY <3>1, <3>2, <3>5 DEF x, y
  <2>2. CASE n # 0
    <3> DEFINE v == e * (SlipBase - slippage)
    <3>1. v \in Int
      BY <1>3, <1>4 DEF e
    <3>2. out >= v \div SlipBase
      BY <1>2, <1>6, <2>2 DEF AtLeast
    <3> HIDE DEF v, out
    <3> QED
      BY <1>3, <1>7, <3>1, <3>2, FloorIsClose DEF v
  <2> QED
    BY <2>1, <2>2
<1>9. NearPromise(executed)'
  BY <1>6, <1>8 DEF NearPromise
<1>10. Edges' = Edges
  BY <1>1 DEF Edges
<1> QED
  BY <1>1, <1>9, <1>10 DEF PathInv, PairsTyped, RatesTyped, IntentLeads, IsWalk

LEMMA PathStepInv == PathInv /\ [PathNext]_pathVars => PathInv'
<1> SUFFICES ASSUME PathInv, [PathNext]_pathVars PROVE PathInv'
  OBVIOUS
<1> DEFINE Same == UNCHANGED <<pairs, rate, intent, executed>>
<1>1. ASSUME Same PROVE PathInv'
  <2>1. Edges' = Edges
    BY <1>1 DEF Edges
  <2> QED
    BY <1>1, <2>1 DEF PathInv, PairsTyped, RatesTyped, IntentLeads, IsWalk, NearPromise
<1>2. CASE PathInitialize \/ set_swap_router \/ NextLedger
  BY <1>1, <1>2 DEF PathInitialize, set_swap_router, NextLedger
<1>3. CASE \E from, to \in PathAssets :
             \/ register_pair(from, to)
             \/ \E r \in ConvRates : set_rate(from, to, r)
             \/ \E s \in PathSplits : find_payment_path(from, to, s)
  BY <1>3, PairsAreAdded, RatesAreSet, IntentsLead
<1>4. CASE \E s \in PathSplits, amount \in SwapAmounts, slippage \in Slippages :
             execute_path_payment(s, amount, slippage)
  BY <1>4, ExecutionKeepsPromise
<1>5. CASE UNCHANGED pathVars
  BY <1>1, <1>5 DEF pathVars
<1> QED
  BY <1>2, <1>3, <1>4, <1>5 DEF PathNext

\* Every path the search finds is a shortest one, no path is missed, stored paths lead
\* along registered pairs, and what an execution returns is within the slippage of what
\* the rates promised: find_payment_path and execute_path_payment of the contract.
THEOREM ShortestPaths == PathSpec => []PathsAreShortest
<1>1. PathInv => PathsAreShortest
  <2> SUFFICES ASSUME PathInv PROVE PathsAreShortest
    OBVIOUS
  <2>1. ASSUME NEW source \in PathAssets, NEW dest \in PathAssets
        PROVE  LET path == Path(source, dest) IN
               IF path = <<>> THEN dest \notin Within(source, MaxPairs)
               ELSE /\ IsWalk(path) /\ path[1] = source /\ Last(path) = dest
                    /\ Len(path) > 1 => dest \notin Within(source, Len(path) - 2)
    BY PathIsShortest, PathConstants DEF PathInv
  <2> QED
    BY <2>1 DEF PathInv, PathsAreShortest, IntentLeads, NearPromise
<1> QED
  BY <1>1, PathInitInv, PathStepInv, PTL DEF PathSpec

-----------------------------------------------------------------------------
(* Types *)

\* The bounds that the paths' invariant leaves open.
IntentFits(i) == Len(i.path) \in 1..MAX_PATH_LEN /\ i.discovered_ledger \in 0..LastLedger

PathBounds ==
    /\ pathAdmin \in BOOLEAN /\ router \in BOOLEAN
    /\ Len(pairs) <= MaxPairs /\ ledger \in 0..LastLedger
    /\ rate \in [PathAssets \X PathAssets -> ConvRates \cup {0}]
    /\ \A s \in PathSplits : intent[s] # Nothing => IntentFits(intent[s])

LEMMA PathBoundsStep == PathInv /\ PathBounds /\ [PathNext]_pathVars => PathBounds'
<1> SUFFICES ASSUME PathInv, PathBounds, [PathNext]_pathVars PROVE PathBounds'
  OBVIOUS
<1>1. /\ pathAdmin \in BOOLEAN /\ router \in BOOLEAN
      /\ Len(pairs) <= MaxPairs /\ ledger \in 0..LastLedger
      /\ rate \in [PathAssets \X PathAssets -> ConvRates \cup {0}]
      /\ \A s \in PathSplits : intent[s] # Nothing => IntentFits(intent[s])
      /\ LastLedger \in Nat /\ MaxPairs \in Nat /\ pairs \in Seq(PathAssets \X PathAssets)
  BY PathConstants DEF PathBounds, PathInv, PairsTyped
<1>2. ASSUME NEW from \in PathAssets, NEW to \in PathAssets, register_pair(from, to)
      PROVE  PathBounds'
  <2>1. Len(pairs') = Len(pairs) + 1 /\ Len(pairs) < MaxPairs
    BY <1>1, <1>2 DEF register_pair
  <2> QED
    BY <1>1, <1>2, <2>1 DEF register_pair, PathBounds, IntentFits
<1>3. ASSUME NEW from \in PathAssets, NEW to \in PathAssets, NEW s \in PathSplits,
             find_payment_path(from, to, s)
      PROVE  PathBounds'
  <2> DEFINE new == [path |-> Path(from, to), discovered_ledger |-> ledger]
  <2>1. /\ intent' = [intent EXCEPT ![s] = new] /\ ShortEnough(Path(from, to))
        /\ UNCHANGED <<pathAdmin, pairs, rate, router, ledger>>
    BY <1>3 DEF find_payment_path
  <2>2. IntentFits(new)
    BY <1>1, <2>1 DEF IntentFits, ShortEnough
  <2> HIDE DEF new
  <2>3. \A t \in PathSplits : intent'[t] = IF t = s THEN new ELSE intent[t]
    BY <2>1 DEF PathInv
  <2>4. \A t \in PathSplits : intent'[t] # Nothing => IntentFits(intent'[t])
    BY <1>1, <2>2, <2>3
  <2>5. \A t \in PathSplits : intent'[t] # Nothing => IntentFits(intent[t])'
    BY <2>4 DEF IntentFits
  <2> QED
    BY <1>1, <2>1, <2>5 DEF PathBounds
<1>4. ASSUME \/ PathInitialize \/ set_swap_router
             \/ NextLedger \/ UNCHANGED pathVars
             \/ \E from, to \in PathAssets : \E r \in ConvRates : set_rate(from, to, r)
             \/ \E s \in PathSplits, amount \in SwapAmounts, slippage \in Slippages :
                  execute_path_payment(s, amount, slippage)
      PROVE  PathBounds'
  <2>1. /\ pathAdmin' = pathAdmin \/ pathAdmin' = TRUE
        /\ router' = router \/ router' = TRUE
        /\ ledger' = ledger \/ (ledger < LastLedger /\ ledger' = ledger + 1)
        /\ pairs' = pairs /\ intent' = intent
        /\ \/ rate' = rate
           \/ \E from, to \in PathAssets : \E r \in ConvRates : rate' = [rate EXCEPT ![<<from, to>>] = r]
    BY <1>4, Zenon DEF PathInitialize, set_swap_router, NextLedger, pathVars, set_rate,
       execute_path_payment
  <2>2. pathAdmin' \in BOOLEAN /\ router' \in BOOLEAN
    BY <1>1, <2>1, Zenon
  <2>3. Len(pairs') <= MaxPairs /\ ledger' \in 0..LastLedger
    BY <1>1, <2>1
  <2>5. rate' \in [PathAssets \X PathAssets -> ConvRates \cup {0}]
    <3>1. CASE rate' = rate
      BY <1>1, <3>1
    <3>2. ASSUME NEW from \in PathAssets, NEW to \in PathAssets, NEW r \in ConvRates,
                 rate' = [rate EXCEPT ![<<from, to>>] = r]
          PROVE  rate' \in [PathAssets \X PathAssets -> ConvRates \cup {0}]
      BY <1>1, <3>2
    <3> QED
      BY <2>1, <3>1, <3>2
  <2>4. \A t \in PathSplits : intent'[t] # Nothing => IntentFits(intent[t])'
    BY <1>1, <2>1 DEF IntentFits
  <2> QED
    BY <2>2, <2>3, <2>4, <2>5 DEF PathBounds
<1> QED
  BY <1>2, <1>3, <1>4 DEF PathNext

\* The stores of the four contracts keep their types for any number of calls, signatories,
\* borrowers, templates and pairs: amounts never go below zero, no stored path is longer
\* than the limit, and no use count passes its bound.
THEOREM ContractTypes ==
    /\ SignSpec => []SignTypeOK
    /\ LoanSpec => []LoanTypeOK
    /\ TemplateSpec => []TemplateTypeOK
    /\ PathSpec => []PathTypeOK
<1>1. SignSpec => []SignTypeOK
  <2>1. MultiSigInv => SignTypeOK
    BY DEF MultiSigInv
  <2> QED
    BY <2>1, MultiSigInit, MultiSigNext, PTL DEF SignSpec
<1>2. LoanSpec => []LoanTypeOK
  <2>1. LoanInv => LoanTypeOK
    BY DEF LoanInv
  <2> QED
    BY <2>1, LoanInitInv, LoanStepInv, PTL DEF LoanSpec
<1>3. TemplateSpec => []TemplateTypeOK
  <2>1. TemplateInv => TemplateTypeOK
    BY DEF TemplateInv, TemplateTypeOK, TemplateRecord
  <2> QED
    BY <2>1, TemplateInitInv, TemplateNextInv, PTL DEF TemplateSpec
<1>4. PathSpec => []PathTypeOK
  <2>1. PathInit => PathBounds
    <3> SUFFICES ASSUME PathInit PROVE PathBounds
      OBVIOUS
    <3>1. pathAdmin \in BOOLEAN /\ router \in BOOLEAN
      BY Zenon DEF PathInit
    <3>2. /\ Len(pairs) <= MaxPairs /\ ledger \in 0..LastLedger
          /\ rate \in [PathAssets \X PathAssets -> ConvRates \cup {0}]
          /\ \A s \in PathSplits : intent[s] = Nothing
      BY PathConstants DEF PathInit
    <3> QED
      BY <3>1, <3>2 DEF PathBounds
  <2>2. PathInv /\ PathBounds => PathTypeOK
    <3> SUFFICES ASSUME PathInv, PathBounds PROVE PathTypeOK
      OBVIOUS
    <3>1. \A s \in PathSplits : intent[s] # Nothing =>
            /\ intent[s].path \in Seq(PathAssets) /\ Len(intent[s].path) \in 1..MAX_PATH_LEN
            /\ intent[s].discovered_ledger \in 0..LastLedger
      BY Zenon DEF PathInv, PathBounds, IntentLeads, IntentFits
    <3>2. pathAdmin \in BOOLEAN /\ router \in BOOLEAN
      BY Zenon DEF PathBounds
    <3>3. /\ pairs \in Seq(PathAssets \X PathAssets) /\ Len(pairs) <= MaxPairs
          /\ rate \in [PathAssets \X PathAssets -> ConvRates \cup {0}] /\ ledger \in 0..LastLedger
      BY DEF PathInv, PathBounds, PairsTyped
    <3> QED
      BY <3>1, <3>2, <3>3 DEF PathTypeOK
  <2> QED
    BY <2>1, <2>2, PathInitInv, PathStepInv, PathBoundsStep, PTL DEF PathSpec
<1> QED
  BY <1>1, <1>2, <1>3, <1>4
=============================================================================
