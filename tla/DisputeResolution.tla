-------------------------- MODULE DisputeResolution --------------------------
(***************************************************************************)
(* The dispute-resolution contract (contracts/dispute-resolution) on top   *)
(* of the escrow contract it trusts.  Anyone may raise a dispute about an  *)
(* escrow and vote once while the window is open; after it, the escrow's   *)
(* creator executes the outcome: refund when upheld, release when          *)
(* dismissed or tied.  resolve_dispute calls the escrow contract inside    *)
(* its own transaction, so a failing escrow call undoes the resolution.    *)
(* The escrow is not locked while a dispute is open: every action of       *)
(* SplitEscrow stays available.                                            *)
(***************************************************************************)
EXTENDS SplitEscrow

CONSTANTS
    SplitNames,    \* off-chain split ids (strings) disputes are filed under
    Voters,        \* accounts that vote
    DisputeAdmins, \* accounts passed to initialize as the dispute admin
    VotingPeriod,  \* VOTING_PERIOD
    MaxDisputes    \* bound on the number of disputes

ASSUME DisputeConstants ==
    /\ VotingPeriod \in Nat
    /\ MaxDisputes \in Nat

VARIABLES
    disputeAdmin,  \* DataKey::Admin of the dispute contract
    disputes       \* DataKey::Dispute(id)

disputeVars == <<disputeAdmin, disputes>>
allVars     == <<escrowVars, disputeVars>>

\* generate_dispute_id hashes the split name and the ledger sequence; one
\* ledger closes per tick of the clock.  A name used twice within one ledger
\* therefore gives the same id.
DisputeId == SplitNames \X (0..MaxTime)

Results == {"UpheldForRaiser", "DismissedForRaiser", "Tied"}

NoDispute == [status |-> "Absent", votes_for |-> 0, votes_against |-> 0, voters |-> {},
              voting_ends_at |-> 0, result |-> "None", escrow_split_id |-> 0]

Raised == {d \in DisputeId : disputes[d].status # "Absent"}

DInit ==
    /\ Init
    /\ disputeAdmin = None
    /\ disputes = [d \in DisputeId |-> NoDispute]

-----------------------------------------------------------------------------
initialize_disputes(caller) ==
    /\ disputeAdmin = None
    /\ disputeAdmin' = caller
    /\ UNCHANGED <<escrowVars, disputes>>

\* The end of the voting window.
Deadline(t) == t + VotingPeriod

\* The trusted escrow contract is the one recorded by initialize; the escrow
\* split id is taken as given, whether or not such a split exists.
raise_dispute(name, escrowId) ==
    LET id == <<name, now>> IN
    /\ disputeAdmin # None
    /\ disputes[id].status = "Absent"
    /\ Cardinality(Raised) < MaxDisputes
    /\ disputes' = [disputes EXCEPT ![id] =
                      [NoDispute EXCEPT !.status = "Voting",
                                        !.voting_ends_at = Deadline(now),
                                        !.escrow_split_id = escrowId]]
    /\ UNCHANGED <<escrowVars, disputeAdmin>>

\* The vote guard; the first form forgets who voted before.
MayVoteAgain(d, voter) == disputes[d].status = "Voting" /\ now <= disputes[d].voting_ends_at
MayVote(d, voter) ==
    /\ disputes[d].status = "Voting"
    /\ now <= disputes[d].voting_ends_at
    /\ voter \notin disputes[d].voters

vote_on_dispute(d, voter, support) ==
    /\ disputeAdmin # None
    /\ voter # disputeAdmin
    /\ MayVote(d, voter)
    /\ disputes' = [disputes EXCEPT
                      ![d].voters = @ \cup {voter},
                      ![d].votes_for = IF support THEN @ + 1 ELSE @,
                      ![d].votes_against = IF support THEN @ ELSE @ + 1]
    /\ UNCHANGED <<escrowVars, disputeAdmin>>

\* The result of the vote; in the first form a tie favours the raiser.
OutcomeTieUpheld(dispute) ==
    IF dispute.votes_for >= dispute.votes_against THEN "UpheldForRaiser"
    ELSE "DismissedForRaiser"
Outcome(dispute) ==
    CASE dispute.votes_for > dispute.votes_against -> "UpheldForRaiser"
      [] dispute.votes_against > dispute.votes_for -> "DismissedForRaiser"
      [] OTHER -> "Tied"

\* adapt_outcome and execute_action: the escrow entry point each result calls.
\* The first form ignores a failing call, the second settles on paper without
\* moving money.
execute_ignoring_failure(result, id) ==
    \/ result = "UpheldForRaiser" /\ cancel_split(id)
    \/ result \in {"DismissedForRaiser", "Tied"} /\ release_funds(id)
    \/ UNCHANGED escrowVars
execute_on_paper(result, id) ==
    /\ splits' = [splits EXCEPT ![id].status = "Released"]
    /\ UNCHANGED <<adminVars, pauseVars, nextSplitId, listVars, tokenVars, now>>
execute_action(result, id) ==
    \/ result = "UpheldForRaiser" /\ cancel_split(id)
    \/ result \in {"DismissedForRaiser", "Tied"} /\ release_funds(id)

\* When the window has closed; the first form is one tick early.
WindowOver(dispute) == now > dispute.voting_ends_at - 1
WindowClosed(dispute) == now > dispute.voting_ends_at

\* Signed by the escrow's creator: get_creator(escrow_split_id) fails when the
\* split does not exist.
resolve_dispute(d) ==
    LET dispute == disputes[d] IN
    /\ dispute.status = "Voting"
    /\ WindowClosed(dispute)
    /\ dispute.escrow_split_id \in SplitId
    /\ Exists(dispute.escrow_split_id)
    /\ execute_action(Outcome(dispute), dispute.escrow_split_id)
    /\ disputes' = [disputes EXCEPT ![d].status = "Resolved", ![d].result = Outcome(dispute)]
    /\ UNCHANGED disputeAdmin

DisputeNext ==
    \/ \E a \in DisputeAdmins : initialize_disputes(a)
    \/ \E name \in SplitNames, id \in SplitId : raise_dispute(name, id)
    \/ \E d \in DisputeId, voter \in Voters, support \in BOOLEAN :
         vote_on_dispute(d, voter, support)
    \/ \E d \in DisputeId : resolve_dispute(d)

DNext == (Next /\ UNCHANGED disputeVars) \/ DisputeNext

DSpec == DInit /\ [][DNext]_allVars

-----------------------------------------------------------------------------
(* Properties *)

Dispute == [status : {"Absent", "Voting", "Resolved"}, votes_for : Nat, votes_against : Nat,
            voters : SUBSET Voters, voting_ends_at : Nat, result : Results \cup {"None"},
            escrow_split_id : SplitId \cup {0}]

\* Dispute records keep their types.
DisputeTypeOK ==
    /\ disputeAdmin \in DisputeAdmins \cup {None}
    /\ disputes \in [DisputeId -> Dispute]

\* One vote per account, none of the admin's: the two tallies count exactly
\* the recorded voters (vote_on_dispute's "FIX 1" and "FIX 2").
TalliesCountVoters ==
    \A d \in DisputeId :
        /\ disputes[d].votes_for + disputes[d].votes_against = Cardinality(disputes[d].voters)
        /\ disputeAdmin \notin disputes[d].voters

\* A recorded resolution is the one its final tallies give, it has been carried
\* out on the escrow, and stays so: a majority of "for" means refunded, anything
\* else, a tie included, means released.
OutcomeStands ==
    \A d \in DisputeId :
        LET upheld == disputes[d].votes_for > disputes[d].votes_against IN
        disputes[d].status = "Resolved" =>
            /\ disputes[d].result = "UpheldForRaiser" <=> upheld
            /\ splits[disputes[d].escrow_split_id].status =
                  IF upheld THEN "Cancelled" ELSE "Released"

\* Several disputes about one escrow: at most one of them is ever resolved.
OneResolutionPerEscrow ==
    \A d, e \in DisputeId :
        /\ disputes[d].status = "Resolved" /\ disputes[e].status = "Resolved"
        /\ disputes[d].escrow_split_id = disputes[e].escrow_split_id
        => d = e

\* Voting and resolving never overlap: a vote is cast only up to the end of
\* the window, a dispute is resolved only after it, and no vote arrives later.
VotesBeforeResolution ==
    [][\A d \in DisputeId :
         /\ disputes'[d].voters # disputes[d].voters =>
              now <= disputes[d].voting_ends_at /\ disputes'[d].status = "Voting"
         /\ disputes[d].status = "Voting" /\ disputes'[d].status = "Resolved" =>
              \A voter \in Voters : ~MayVote(d, voter)]_allVars

\* The escrow is not locked by a dispute: when its creator settles it directly
\* the dispute can never be resolved any more, and its votes decide nothing.
SettledEscrowOrphansDispute ==
    [][\A d \in Raised :
         /\ disputes[d].status = "Voting"
         /\ splits[disputes[d].escrow_split_id].status \in {"Cancelled", "Released"}
         => disputes'[d].status = "Voting"]_allVars

\* Seen from the escrow contract, disputes are just callers: every step is a
\* step of SplitEscrow or leaves the escrow unchanged.
EscrowRefined == Spec

-----------------------------------------------------------------------------
(* What the run checks, with the parts above *)

\* However votes, several disputes and the escrow's own calls interleave: tallies count
\* each voter once, and at most one dispute about an escrow is resolved, as its tallies
\* say and with the money where they say.
DisputesSettleOnce == TalliesCountVoters /\ OutcomeStands /\ OneResolutionPerEscrow

\* Votes end before a resolution, an escrow settled behind a dispute's back leaves it
\* unresolvable, and no call of either contract gets round the escrow's freeze.
DisputeCallsSound == VotesBeforeResolution /\ SettledEscrowOrphansDispute /\ FreezeHolds
=============================================================================
