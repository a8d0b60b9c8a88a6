----------------------- MODULE DisputeResolutionProofs -----------------------
(***************************************************************************)
(* The dispute contract on top of the escrow contract, for any number of   *)
(* accounts, escrows, voters and disputes: the escrow keeps its own        *)
(* guarantees (every step of the composition is a step of SplitEscrow or   *)
(* leaves the escrow alone), and an outcome, once executed, stands.        *)
(***************************************************************************)
EXTENDS DisputeResolution, SplitEscrowProofs

\* The escrow half of every step.
LEMMA EscrowHalf == [DNext]_allVars => [Next]_escrowVars
<1> SUFFICES ASSUME [DNext]_allVars PROVE [Next]_escrowVars
  OBVIOUS
<1>1. CASE Next
  BY <1>1
<1>2. CASE DisputeNext
  <2>1. ASSUME NEW d \in DisputeId, resolve_dispute(d) PROVE Next
    <3> DEFINE id == disputes[d].escrow_split_id
    <3>1. id \in SplitId
      BY <2>1 DEF resolve_dispute
    <3>2. cancel_split(id) \/ release_funds(id)
      BY <2>1 DEF resolve_dispute, execute_action
    <3> QED
      BY <3>1, <3>2 DEF Next, MoneyNext
  <2>2. CASE UNCHANGED escrowVars
    BY <2>2
  <2> QED
    BY <1>2, <2>1, <2>2 DEF DisputeNext, initialize_disputes, raise_dispute, vote_on_dispute
<1>3. CASE UNCHANGED allVars
  BY <1>3 DEF allVars
<1> QED
  BY <1>1, <1>2, <1>3 DEF DNext

\* The composed system implements the escrow contract: to it, disputes are callers.
THEOREM DisputesRefineEscrow == DSpec => EscrowRefined
<1>1. DInit => Init
  BY DEF DInit
<1> QED
  BY <1>1, EscrowHalf, PTL DEF DSpec, Spec, EscrowRefined

\* Everything proved of the escrow contract holds under disputes as well.
THEOREM DisputedEscrowInvariant == DSpec => []EscrowInv
BY DisputesRefineEscrow, EscrowInvariant, PTL DEF EscrowRefined

\* Among it: the vault covers the escrows and the books agree, alerts and caps are kept, and
\* every settlement is final and pays out in full, whoever votes and resolves.
THEOREM EscrowUnderDisputes ==
    DSpec => []EscrowBooks /\ []AlertsAndCaps /\ SettlementSound /\ FreezeHolds
<1>1. DSpec => Spec
  BY DisputesRefineEscrow DEF EscrowRefined
<1> QED
  BY <1>1, EscrowBooksKept, EscrowAlertsAndCaps, EscrowSettlementSound, EscrowFreezeHolds

-----------------------------------------------------------------------------
(* The inductive invariant of the dispute records *)

DisputeInv ==
    /\ DisputeTypeOK
    /\ now \in 0..MaxTime
    /\ \A d \in DisputeId : disputes[d].status # "Absent" =>
         disputeAdmin # None /\ disputes[d].escrow_split_id \in SplitId
    /\ \A d \in DisputeId : disputes[d].status = "Absent" => disputes[d] = NoDispute
    /\ \A d \in DisputeId : IsFiniteSet(disputes[d].voters)
    /\ TalliesCountVoters
    /\ OutcomeStands
    /\ OneResolutionPerEscrow

LEMMA NoDisputeType == NoDispute \in Dispute
BY EscrowConstants DEF NoDispute, Dispute, Results

\* Steps that leave the dispute records alone.
LEMMA EscrowOnlyStep ==
    ASSUME EscrowInv, DisputeInv, [Next]_escrowVars, UNCHANGED disputeVars
    PROVE  DisputeInv'
<1>1. now' \in 0..MaxTime
  <2>1. CASE Tick
    BY <2>1, EscrowConstants DEF Tick, DisputeInv
  <2>2. CASE now' = now
    BY <2>2 DEF DisputeInv
  <2> QED
    BY <2>1, <2>2 DEF Next, AdminNext, CreateNext, EditNext, MoneyNext, escrowVars,
       initialize, upgrade_version, set_fee, set_treasury, pause, schedule_unpause, unpause,
       create_escrow, set_note, update_metadata, add_to_whitelist, remove_from_whitelist,
       toggle_whitelist, deposit, cancel_split, release_funds
<1>2. OutcomeStands'
  <2> SUFFICES ASSUME NEW d \in DisputeId, disputes[d].status = "Resolved"
               PROVE  splits'[disputes[d].escrow_split_id] = splits[disputes[d].escrow_split_id]
    BY DEF OutcomeStands, DisputeInv, disputeVars
  <2>1. disputes[d].escrow_split_id \in SplitId
    BY DEF DisputeInv
  <2>2. splits[disputes[d].escrow_split_id].status \in {"Released", "Cancelled"}
    BY DEF DisputeInv, OutcomeStands
  <2> QED
    BY <2>1, <2>2, TerminalStep
<1> QED
  BY <1>1, <1>2 DEF DisputeInv, disputeVars, DisputeTypeOK, TalliesCountVoters,
                    OneResolutionPerEscrow

\* What the invariant says of one record, apart from the others.
RecordInv(r) ==
    /\ r \in Dispute
    /\ IsFiniteSet(r.voters)
    /\ r.votes_for + r.votes_against = Cardinality(r.voters)
    /\ disputeAdmin \notin r.voters
    /\ r.status # "Absent"
    /\ r.escrow_split_id \in SplitId

\* A call of the dispute contract that rewrites one record.
LEMMA OneRecordStep ==
    ASSUME DisputeInv, NEW d \in DisputeId, NEW r, RecordInv(r),
           disputes' = [disputes EXCEPT ![d] = r], disputeAdmin' = disputeAdmin,
           disputeAdmin # None, now' = now
    PROVE  /\ DisputeTypeOK' /\ now' \in 0..MaxTime /\ TalliesCountVoters'
           /\ \A e \in DisputeId : disputes'[e].status # "Absent" =>
                disputeAdmin' # None /\ disputes'[e].escrow_split_id \in SplitId
           /\ \A e \in DisputeId : disputes'[e].status = "Absent" => disputes'[e] = NoDispute
           /\ \A e \in DisputeId : IsFiniteSet(disputes'[e].voters)
<1>1. disputes \in [DisputeId -> Dispute] /\ disputeAdmin \in DisputeAdmins \cup {None}
  BY DEF DisputeInv, DisputeTypeOK
<1>2. disputes'[d] = r /\ \A e \in DisputeId : e # d => disputes'[e] = disputes[e]
  BY <1>1
<1>3. DisputeTypeOK'
  BY <1>1 DEF DisputeTypeOK, RecordInv
<1>4. TalliesCountVoters'
  BY <1>2 DEF DisputeInv, TalliesCountVoters, RecordInv
<1> QED
  BY <1>2, <1>3, <1>4 DEF DisputeInv, RecordInv

\* A record that stays open decides nothing.
LEMMA StillOpenStep ==
    ASSUME DisputeInv, NEW d \in DisputeId, NEW r, r.status = "Voting",
           disputes' = [disputes EXCEPT ![d] = r], splits' = splits
    PROVE  OutcomeStands' /\ OneResolutionPerEscrow'
<1>1. disputes \in [DisputeId -> Dispute]
  BY DEF DisputeInv, DisputeTypeOK
<1>2. disputes'[d] = r /\ \A e \in DisputeId : e # d => disputes'[e] = disputes[e]
  BY <1>1
<1> QED
  BY <1>2 DEF DisputeInv, OutcomeStands, OneResolutionPerEscrow

LEMMA InitializeStep ==
    ASSUME DisputeInv, NEW a \in DisputeAdmins, initialize_disputes(a)
    PROVE  DisputeInv'
<1>1. \A d \in DisputeId : disputes[d] = NoDispute
  BY DEF DisputeInv, initialize_disputes
<1>2. /\ disputes' = disputes /\ splits' = splits /\ now' = now
      /\ disputeAdmin' \in DisputeAdmins \cup {None}
  BY DEF initialize_disputes, escrowVars
<1>3. TalliesCountVoters'
  BY <1>1, <1>2, FS_EmptySet DEF TalliesCountVoters, NoDispute
<1> QED
  BY <1>1, <1>2, <1>3 DEF DisputeInv, DisputeTypeOK, OutcomeStands, OneResolutionPerEscrow,
                          NoDispute

LEMMA RaiseStep ==
    ASSUME DisputeInv, NEW name \in SplitNames, NEW id \in SplitId, raise_dispute(name, id)
    PROVE  DisputeInv'
<1> DEFINE d == <<name, now>>
           r == [NoDispute EXCEPT !.status = "Voting", !.voting_ends_at = Deadline(now),
                                  !.escrow_split_id = id]
<1>1. d \in DisputeId /\ now \in Nat
  BY EscrowConstants DEF DisputeInv, DisputeId
<1>2. disputes' = [disputes EXCEPT ![d] = r] /\ disputeAdmin' = disputeAdmin
      /\ disputeAdmin # None /\ now' = now /\ splits' = splits
  BY DEF raise_dispute, escrowVars
<1>3. Deadline(now) \in Nat
  BY <1>1, DisputeConstants DEF Deadline
<1>4. /\ r.status = "Voting" /\ r.escrow_split_id = id /\ r.voters = {}
      /\ r.votes_for = 0 /\ r.votes_against = 0
  BY DEF NoDispute
<1>5. r \in Dispute
  BY <1>3 DEF NoDispute, Dispute, Results
<1>6. RecordInv(r)
  BY <1>4, <1>5, FS_EmptySet DEF RecordInv
<1> HIDE DEF d, r
<1>7. OutcomeStands' /\ OneResolutionPerEscrow'
  BY <1>1, <1>2, <1>4, StillOpenStep
<1> QED
  BY <1>1, <1>2, <1>6, <1>7, OneRecordStep DEF DisputeInv

LEMMA VoteStep ==
    ASSUME DisputeInv, NEW d \in DisputeId, NEW voter \in Voters, NEW support \in BOOLEAN,
           vote_on_dispute(d, voter, support)
    PROVE  DisputeInv'
<1> DEFINE q == disputes[d]
           r == disputes'[d]
<1>1. q \in Dispute /\ disputes \in [DisputeId -> Dispute]
  BY DEF DisputeInv, DisputeTypeOK
<1>2. /\ disputeAdmin' = disputeAdmin /\ disputeAdmin # None /\ voter # disputeAdmin
      /\ now' = now /\ splits' = splits
      /\ q.status = "Voting" /\ voter \notin q.voters
  BY DEF vote_on_dispute, MayVote, escrowVars
<1>3. r = [q EXCEPT !.voters = @ \cup {voter},
                    !.votes_for = IF support THEN @ + 1 ELSE @,
                    !.votes_against = IF support THEN @ ELSE @ + 1]
      /\ disputes' = [disputes EXCEPT ![d] = r]
  BY <1>1 DEF vote_on_dispute
<1>4. /\ r.voters = q.voters \cup {voter}
      /\ r.votes_for = (IF support THEN q.votes_for + 1 ELSE q.votes_for)
      /\ r.votes_against = (IF support THEN q.votes_against ELSE q.votes_against + 1)
      /\ r.status = q.status /\ r.escrow_split_id = q.escrow_split_id
  BY <1>1, <1>3 DEF Dispute
<1>5. r = [status |-> r.status, votes_for |-> r.votes_for, votes_against |-> r.votes_against,
           voters |-> r.voters, voting_ends_at |-> r.voting_ends_at, result |-> r.result,
           escrow_split_id |-> r.escrow_split_id]
      /\ r.voting_ends_at = q.voting_ends_at /\ r.result = q.result
  BY <1>1, <1>3 DEF Dispute
<1>6. /\ IsFiniteSet(q.voters) /\ disputeAdmin \notin q.voters
      /\ q.votes_for + q.votes_against = Cardinality(q.voters)
      /\ q.escrow_split_id \in SplitId
      /\ q.votes_for \in Nat /\ q.votes_against \in Nat
  BY <1>1, <1>2 DEF DisputeInv, TalliesCountVoters, Dispute
<1>7. /\ q.status \in {"Absent", "Voting", "Resolved"} /\ q.voters \in SUBSET Voters
      /\ q.voting_ends_at \in Nat /\ q.result \in Results \cup {"None"}
      /\ q.escrow_split_id \in SplitId \cup {0}
  BY <1>1 DEF Dispute
<1> HIDE DEF q, r
<1>8. r.votes_for \in Nat /\ r.votes_against \in Nat
  BY <1>4, <1>6
<1>9. r \in Dispute
  BY <1>4, <1>5, <1>7, <1>8 DEF Dispute
<1>10. IsFiniteSet(q.voters \cup {voter})
       /\ Cardinality(q.voters \cup {voter}) = IF voter \in q.voters THEN Cardinality(q.voters)
                                              ELSE Cardinality(q.voters) + 1
  BY <1>6, FS_AddElement
<1>11. IsFiniteSet(r.voters) /\ Cardinality(r.voters) = Cardinality(q.voters) + 1
  BY <1>2, <1>4, <1>10
<1>12. r.votes_for + r.votes_against = Cardinality(r.voters)
  <2>1. CASE support
    BY <1>4, <1>6, <1>11, <2>1
  <2>2. CASE ~support
    BY <1>4, <1>6, <1>11, <2>2
  <2> QED
    BY <2>1, <2>2
<1>13. RecordInv(r)
  BY <1>2, <1>4, <1>6, <1>9, <1>11, <1>12 DEF RecordInv
<1>14. OutcomeStands' /\ OneResolutionPerEscrow'
  BY <1>2, <1>3, <1>4, StillOpenStep
<1> QED
  BY <1>2, <1>3, <1>13, <1>14, OneRecordStep DEF DisputeInv

\* The three-way result of the vote.
LEMMA OutcomeCases ==
    ASSUME NEW q \in Dispute
    PROVE  /\ Outcome(q) \in Results
           /\ Outcome(q) = "UpheldForRaiser" <=> q.votes_for > q.votes_against
<1>1. q.votes_for \in Nat /\ q.votes_against \in Nat
  BY DEF Dispute
<1>2. CASE q.votes_for > q.votes_against
  BY <1>1, <1>2 DEF Outcome, Results
<1>3. CASE q.votes_against > q.votes_for
  BY <1>1, <1>3 DEF Outcome, Results
<1>4. CASE q.votes_for = q.votes_against
  BY <1>1, <1>4 DEF Outcome, Results
<1> QED
  BY <1>1, <1>2, <1>3, <1>4

\* The escrow call of a resolution touches one open split and settles it.
LEMMA ExecuteStep ==
    ASSUME EscrowInv, NEW id \in SplitId, NEW result \in Results, execute_action(result, id)
    PROVE  /\ splits[id].status \in {"Pending", "Ready"}
           /\ splits'[id].status = IF result = "UpheldForRaiser" THEN "Cancelled" ELSE "Released"
           /\ \A j \in SplitId : j # id => splits'[j] = splits[j]
           /\ now' = now
<1>1. splits \in [SplitId -> Split]
  BY DEF EscrowInv, TypeOK
<1>2. CASE result = "UpheldForRaiser" /\ cancel_split(id)
  <2>1. splits'[id].status = "Cancelled"
    BY <1>2, StatusAfter
  <2>2. splits[id].status \in {"Pending", "Ready"} /\ now' = now
    BY <1>2 DEF cancel_split, is_active
  <2>3. \A j \in SplitId : j # id => splits'[j] = splits[j]
    BY <1>1, <1>2 DEF cancel_split
  <2> QED
    BY <1>2, <2>1, <2>2, <2>3
<1>3. CASE result \in {"DismissedForRaiser", "Tied"} /\ release_funds(id)
  <2>1. splits'[id].status = "Released"
    BY <1>3, StatusAfter
  <2>2. splits[id].status \in {"Pending", "Ready"} /\ now' = now
    BY <1>3 DEF release_funds
  <2>3. \A j \in SplitId : j # id => splits'[j] = splits[j]
    BY <1>1, <1>3 DEF release_funds
  <2> QED
    BY <1>3, <2>1, <2>2, <2>3
<1> QED
  BY <1>2, <1>3 DEF execute_action

\* A resolution finds its escrow open, so no other dispute had settled it.
LEMMA ResolveStep ==
    ASSUME EscrowInv, DisputeInv, NEW d \in DisputeId, resolve_dispute(d)
    PROVE  DisputeInv'
<1> DEFINE q == disputes[d]
           id == q.escrow_split_id
           r == disputes'[d]
<1>1. q \in Dispute /\ disputes \in [DisputeId -> Dispute]
  BY DEF DisputeInv, DisputeTypeOK
<1>2. /\ disputeAdmin' = disputeAdmin /\ q.status = "Voting" /\ id \in SplitId
      /\ execute_action(Outcome(q), id)
      /\ disputes' = [disputes EXCEPT ![d].status = "Resolved", ![d].result = Outcome(q)]
  BY DEF resolve_dispute
<1>3. disputeAdmin # None
  BY <1>2 DEF DisputeInv
<1>4. /\ splits[id].status \in {"Pending", "Ready"}
      /\ splits'[id].status = IF Outcome(q) = "UpheldForRaiser" THEN "Cancelled" ELSE "Released"
      /\ \A j \in SplitId : j # id => splits'[j] = splits[j]
      /\ now' = now
  BY <1>1, <1>2, ExecuteStep, OutcomeCases
<1>5. /\ r = [q EXCEPT !.status = "Resolved", !.result = Outcome(q)]
      /\ disputes' = [disputes EXCEPT ![d] = r]
  BY <1>1, <1>2
<1>6. /\ r \in Dispute /\ r.status = "Resolved" /\ r.result = Outcome(q)
      /\ r.votes_for = q.votes_for /\ r.votes_against = q.votes_against
      /\ r.voters = q.voters /\ r.escrow_split_id = id
  BY <1>1, <1>5, OutcomeCases DEF Dispute
<1>7. RecordInv(r)
  BY <1>2, <1>6 DEF RecordInv, DisputeInv, TalliesCountVoters
<1>8. \A e \in DisputeId : e # d => disputes'[e] = disputes[e]
  BY <1>1, <1>2
<1>9. ASSUME NEW e \in DisputeId, e # d, disputes[e].status = "Resolved"
      PROVE  /\ disputes[e].escrow_split_id \in SplitId
             /\ disputes[e].escrow_split_id # id
  BY <1>4, <1>9 DEF DisputeInv, OutcomeStands
<1>10. OneResolutionPerEscrow'
  BY <1>6, <1>8, <1>9 DEF DisputeInv, OneResolutionPerEscrow
<1>11. OutcomeStands'
  <2> SUFFICES ASSUME NEW e \in DisputeId, disputes'[e].status = "Resolved"
      PROVE  /\ disputes'[e].result = "UpheldForRaiser"
                   <=> disputes'[e].votes_for > disputes'[e].votes_against
             /\ splits'[disputes'[e].escrow_split_id].status =
                   IF disputes'[e].votes_for > disputes'[e].votes_against
                   THEN "Cancelled" ELSE "Released"
    BY DEF OutcomeStands
  <2>1. CASE e = d
    BY <1>1, <1>4, <1>6, <2>1, OutcomeCases
  <2>2. CASE e # d
    <3>1. disputes'[e] = disputes[e]
      BY <1>8, <2>2
    <3>2. splits'[disputes[e].escrow_split_id] = splits[disputes[e].escrow_split_id]
      BY <1>4, <1>9, <2>2, <3>1
    <3> QED
      BY <3>1, <3>2 DEF DisputeInv, OutcomeStands
  <2> QED
    BY <2>1, <2>2
<1> HIDE DEF q, r
<1> QED
  BY <1>3, <1>2, <1>4, <1>5, <1>7, <1>10, <1>11, OneRecordStep DEF DisputeInv

LEMMA DisputeStep ==
    ASSUME EscrowInv, DisputeInv, [DNext]_allVars
    PROVE  DisputeInv'
<1>1. [Next]_escrowVars
  BY EscrowHalf
<1>2. CASE UNCHANGED disputeVars
  BY <1>1, <1>2, EscrowOnlyStep
<1>3. CASE DisputeNext
  BY <1>3, InitializeStep, RaiseStep, VoteStep, ResolveStep DEF DisputeNext
<1> QED
  BY <1>2, <1>3 DEF DNext, allVars

LEMMA DisputeStart == DInit => DisputeInv
<1> SUFFICES ASSUME DInit PROVE DisputeInv
  OBVIOUS
<1>1. /\ disputes \in [DisputeId -> Dispute] /\ \A d \in DisputeId : disputes[d] = NoDispute
      /\ disputeAdmin = None /\ now = 0 /\ 0 \in 0..MaxTime
  BY NoDisputeType, EscrowConstants DEF DInit, Init
<1>2. TalliesCountVoters
  BY <1>1, FS_EmptySet DEF TalliesCountVoters, NoDispute
<1> QED
  BY <1>1, <1>2, FS_EmptySet DEF DisputeInv, DisputeTypeOK, OutcomeStands,
                                 OneResolutionPerEscrow, NoDispute

\* The inductive invariant, on top of the escrow's own.
THEOREM DisputeInvariant == DSpec => [](EscrowInv /\ DisputeInv)
<1>1. EscrowInv /\ DisputeInv /\ [DNext]_allVars => DisputeInv'
  BY DisputeStep
<1> QED
  BY <1>1, DisputeStart, DisputedEscrowInvariant, PTL DEF DSpec

\* A recorded resolution follows its tallies and is what happened to the escrow,
\* for ever, whoever else calls either contract.
THEOREM DisputeOutcomeStands == DSpec => []OutcomeStands
<1>1. DisputeInv => OutcomeStands
  BY DEF DisputeInv
<1> QED
  BY <1>1, DisputeInvariant, PTL

\* Each account counts once in a dispute's tallies and the admin never does.
THEOREM DisputeTallies == DSpec => []TalliesCountVoters
<1>1. DisputeInv => TalliesCountVoters
  BY DEF DisputeInv
<1> QED
  BY <1>1, DisputeInvariant, PTL

\* However many disputes are filed about an escrow, at most one is resolved.
THEOREM DisputeResolvedOnce == DSpec => []OneResolutionPerEscrow
<1>1. DisputeInv => OneResolutionPerEscrow
  BY DEF DisputeInv
<1> QED
  BY <1>1, DisputeInvariant, PTL

\* Dispute records keep their types.
THEOREM DisputeTypes == DSpec => []DisputeTypeOK
<1>1. DisputeInv => DisputeTypeOK
  BY DEF DisputeInv
<1> QED
  BY <1>1, DisputeInvariant, PTL

-----------------------------------------------------------------------------
(* What a step may do to a dispute *)

\* A settled escrow leaves its open disputes without a possible resolution.
LEMMA OrphanStep ==
    ASSUME EscrowInv, DisputeInv, [DNext]_allVars, NEW d \in Raised,
           disputes[d].status = "Voting",
           splits[disputes[d].escrow_split_id].status \in {"Cancelled", "Released"}
    PROVE  disputes'[d].status = "Voting"
<1>1. d \in DisputeId /\ disputes \in [DisputeId -> Dispute]
  BY DEF Raised, DisputeInv, DisputeTypeOK
<1>2. CASE UNCHANGED disputes
  BY <1>2
<1>3. ASSUME NEW name \in SplitNames, NEW id \in SplitId, raise_dispute(name, id)
      PROVE  disputes'[d].status = "Voting"
  BY <1>1, <1>3 DEF raise_dispute
<1>4. ASSUME NEW e \in DisputeId, NEW voter \in Voters, NEW support \in BOOLEAN,
             vote_on_dispute(e, voter, support)
      PROVE  disputes'[d].status = "Voting"
  BY <1>1, <1>4 DEF vote_on_dispute, Dispute
<1>5. ASSUME NEW e \in DisputeId, resolve_dispute(e)
      PROVE  disputes'[d].status = "Voting"
  <2>1. disputes[e] \in Dispute /\ disputes[e].escrow_split_id \in SplitId
        /\ execute_action(Outcome(disputes[e]), disputes[e].escrow_split_id)
    BY <1>1, <1>5 DEF resolve_dispute
  <2>2. splits[disputes[e].escrow_split_id].status \in {"Pending", "Ready"}
    BY <2>1, ExecuteStep, OutcomeCases
  <2>3. e # d
    BY <2>2
  <2> QED
    BY <1>1, <1>5, <2>3 DEF resolve_dispute
<1> QED
  BY <1>2, <1>3, <1>4, <1>5 DEF DNext, DisputeNext, allVars, disputeVars, initialize_disputes

\* Settling the escrow directly orphans every open dispute about it.
THEOREM DisputeOrphaned == DSpec => SettledEscrowOrphansDispute
<1>1. ASSUME EscrowInv, DisputeInv, [DNext]_allVars
      PROVE  [\A d \in Raised :
                /\ disputes[d].status = "Voting"
                /\ splits[disputes[d].escrow_split_id].status \in {"Cancelled", "Released"}
                => disputes'[d].status = "Voting"]_allVars
  BY <1>1, OrphanStep
<1> QED
  BY <1>1, DisputeInvariant, PTL DEF DSpec, SettledEscrowOrphansDispute

\* A vote needs an open window and leaves the dispute open.
LEMMA VoteOrderStep ==
    ASSUME DisputeInv, [DNext]_allVars, NEW d \in DisputeId
    PROVE  /\ disputes'[d].voters # disputes[d].voters =>
                 now <= disputes[d].voting_ends_at /\ disputes'[d].status = "Voting"
           /\ (disputes[d].status = "Voting" /\ disputes'[d].status = "Resolved") =>
                 \A voter \in Voters : ~MayVote(d, voter)
<1>1. disputes \in [DisputeId -> Dispute] /\ disputes[d] \in Dispute /\ now \in Nat
  BY EscrowConstants DEF DisputeInv, DisputeTypeOK
<1>2. CASE UNCHANGED disputes
  BY <1>2
<1>3. ASSUME NEW name \in SplitNames, NEW id \in SplitId, raise_dispute(name, id)
      PROVE  \/ disputes'[d].voters = disputes[d].voters /\ disputes'[d].status # "Resolved"
             \/ disputes'[d] = disputes[d]
  <2> DEFINE i == <<name, now>>
  <2>1. CASE d = i
    <3>1. disputes[d] = NoDispute
      BY <1>3, <2>1 DEF raise_dispute, DisputeInv
    <3> QED
      BY <1>1, <1>3, <2>1, <3>1 DEF raise_dispute, NoDispute
  <2>2. CASE d # i
    BY <1>1, <1>3, <2>2 DEF raise_dispute
  <2> QED
    BY <2>1, <2>2
<1>4. ASSUME NEW e \in DisputeId, NEW voter \in Voters, NEW support \in BOOLEAN,
             vote_on_dispute(e, voter, support)
      PROVE  disputes'[d] = disputes[d]
             \/ (now <= disputes[d].voting_ends_at /\ disputes'[d].status = "Voting")
  <2>1. CASE d = e
    BY <1>1, <1>4, <2>1 DEF vote_on_dispute, MayVote, Dispute
  <2>2. CASE d # e
    BY <1>1, <1>4, <2>2 DEF vote_on_dispute
  <2> QED
    BY <2>1, <2>2
<1>5. ASSUME NEW e \in DisputeId, resolve_dispute(e)
      PROVE  disputes'[d] = disputes[d]
             \/ (/\ disputes'[d].voters = disputes[d].voters
                 /\ now > disputes[d].voting_ends_at)
  <2>1. CASE d = e
    BY <1>1, <1>5, <2>1 DEF resolve_dispute, WindowClosed, Dispute
  <2>2. CASE d # e
    BY <1>1, <1>5, <2>2 DEF resolve_dispute
  <2> QED
    BY <2>1, <2>2
<1>6. now > disputes[d].voting_ends_at => \A voter \in Voters : ~MayVote(d, voter)
  BY <1>1 DEF MayVote, Dispute
<1> QED
  BY <1>2, <1>3, <1>4, <1>5, <1>6
     DEF DNext, DisputeNext, allVars, disputeVars, initialize_disputes

\* No vote is cast once the window has closed, none remains possible when a
\* dispute is resolved.
THEOREM DisputeVotesFirst == DSpec => VotesBeforeResolution
<1>1. ASSUME DisputeInv, [DNext]_allVars
      PROVE  [\A d \in DisputeId :
                /\ disputes'[d].voters # disputes[d].voters =>
                     now <= disputes[d].voting_ends_at /\ disputes'[d].status = "Voting"
                /\ disputes[d].status = "Voting" /\ disputes'[d].status = "Resolved" =>
                     \A voter \in Voters : ~MayVote(d, voter)]_allVars
  BY <1>1, VoteOrderStep
<1> QED
  BY <1>1, DisputeInvariant, PTL DEF DSpec, VotesBeforeResolution

-----------------------------------------------------------------------------
(* The parts together *)

\* Disputes settle once and as voted, for any number of disputes, voters and escrows.
THEOREM DisputesSettle == DSpec => []DisputesSettleOnce
<1>1. TalliesCountVoters /\ OutcomeStands /\ OneResolutionPerEscrow => DisputesSettleOnce
  BY DEF DisputesSettleOnce
<1> QED
  BY <1>1, DisputeTallies, DisputeOutcomeStands, DisputeResolvedOnce, PTL

\* No vote after the window, no resolution behind a settled escrow, no money past the
\* freeze, for any number of disputes.
THEOREM DisputeCallsAreSound == DSpec => DisputeCallsSound
<1>1. EscrowRefined => FreezeHolds
  BY EscrowFreezeHolds DEF EscrowRefined
<1> QED
  BY <1>1, DisputesRefineEscrow, DisputeVotesFirst, DisputeOrphaned DEF DisputeCallsSound
=============================================================================
