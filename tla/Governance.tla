------------------------------- MODULE Governance -------------------------------
(***************************************************************************)
(* One proposal (backend/src/governance): calls load the proposal with its *)
(* votes, look at it, and save it whole several statements later; nothing  *)
(* holds them apart.  Every voter weighs the same, as in the source.       *)
(***************************************************************************)
EXTENDS Naturals, FiniteSets

CONSTANTS
    Voters,       \* addresses that vote
    Callers,      \* requests that can be under way together
    TotalPower,   \* getTotalVotingPower, in voters
    Quorums,      \* percentages of the power, 51 unless the proposer says otherwise
    VotingStart, VotingEnd,
    Delay,        \* the timelock
    Unvoted,      \* a voter with no vote
    LastHour,     \* bound on time
    MaxRequests   \* bound on the calls

Sides == {"for", "against", "abstain"}

ASSUME GovernanceConstants ==
    /\ Unvoted \notin Sides
    /\ TotalPower \in Nat /\ Quorums \subseteq 1..100
    /\ VotingStart \in Nat /\ VotingEnd \in Nat /\ VotingStart <= VotingEnd
    /\ Delay \in Nat /\ LastHour \in Nat /\ MaxRequests \in Nat

VARIABLES
    proposal,  \* the row: status, tally of every side, executionTime, quorum
    ballot,    \* the votes, one row for a voter
    request,   \* where every call is, and what it holds
    requests,  \* calls so far
    hour,      \* the time
    executed   \* history: the actions have been executed

governanceVars == <<proposal, ballot, request, requests, hour, executed>>

Times == 0..(LastHour + Delay)
ProposalStatus == {"pending", "active", "defeated", "queued", "executed", "vetoed"}
Proposal == [status : ProposalStatus, tally : [Sides -> Nat], eta : Times, quorum : Quorums]
Steps == {"idle", "check", "activate", "find", "store", "tally", "vote-typed", "execute", "finalize",
          "decide", "reload", "act", "done", "veto"}

GovernanceTypeOK ==
    /\ proposal \in Proposal
    /\ ballot \in [Voters -> Sides \cup {Unvoted}]
    /\ request \in [Callers -> [at : Steps, voter : Voters \cup {Unvoted}, side : Sides,
                                now : 0..LastHour, read : Proposal, seen : SUBSET Voters,
                                executes : BOOLEAN]]
    /\ hour \in 0..LastHour

\* What an idle request holds has no meaning.
Idle == [at |-> "idle", voter |-> Unvoted, side |-> "for", now |-> 0, seen |-> {},
         executes |-> FALSE, read |-> [status |-> "pending", tally |-> [s \in Sides |-> 0],
                                       eta |-> 0, quorum |-> CHOOSE q \in Quorums : TRUE]]

GovernanceInit ==
    /\ proposal \in [status : {"pending"}, tally : {[s \in Sides |-> 0]}, eta : {0},
                     quorum : Quorums]
    /\ ballot = [v \in Voters |-> Unvoted]
    /\ request = [c \in Callers |-> Idle]
    /\ requests = 0 /\ hour = 0 /\ executed = FALSE

Voted == {v \in Voters : ballot[v] # Unvoted}

\* A call takes its first step once getProposal has answered.
Load(c, kind, voter, side) ==
    /\ request[c].at = "idle" /\ requests < MaxRequests
    /\ requests' = requests + 1
    /\ request' = [request EXCEPT ![c] =
         [Idle EXCEPT !.at = kind, !.voter = voter, !.side = side, !.read = proposal,
                      !.seen = Voted]]
    /\ UNCHANGED <<proposal, ballot, hour, executed>>

InRequest(c, place) == request[c].at = place
Move(c, place)      == request' = [request EXCEPT ![c].at = place]
Done(c)             == request' = [request EXCEPT ![c] = Idle]

\* save writes the row as the call holds it.  The list of votes was loaded with it: if
\* votes have been added since, the library tries to detach them, and the column that
\* ties them to the proposal may refuse.
Save(c, row, onwards) ==
    \/ proposal' = row /\ onwards
    \/ Voted # request[c].seen /\ Done(c) /\ UNCHANGED proposal

-----------------------------------------------------------------------------
(* Voting *)

vote(c) ==
    /\ InRequest(c, "check")
    /\ LET r == request[c].read IN
         IF hour \in VotingStart..VotingEnd /\ r.status \in {"active", "pending"}
         THEN request' = [request EXCEPT
                ![c].at = IF r.status = "pending" THEN "activate" ELSE "find",
                ![c].read.status = "active"]
         ELSE Done(c)
    /\ UNCHANGED <<proposal, ballot, requests, hour, executed>>

SaveActive(c) ==
    /\ InRequest(c, "activate")
    /\ Save(c, request[c].read, Move(c, "find"))
    /\ UNCHANGED <<ballot, requests, hour, executed>>

\* This one never looks at the status.
voteWithType(c) ==
    /\ InRequest(c, "vote-typed")
    /\ IF hour \in VotingStart..VotingEnd THEN Move(c, "find") ELSE Done(c)
    /\ UNCHANGED <<proposal, ballot, requests, hour, executed>>

FindVote(c) ==
    /\ InRequest(c, "find")
    /\ IF request[c].voter \in Voted THEN Done(c) ELSE Move(c, "store")
    /\ UNCHANGED <<proposal, ballot, requests, hour, executed>>

\* The unique index refuses a second vote that got this far.
StoreVote(c) ==
    LET v == request[c].voter IN
    /\ InRequest(c, "store")
    /\ IF v \in Voted THEN Done(c) /\ UNCHANGED ballot
       ELSE ballot' = [ballot EXCEPT ![v] = request[c].side] /\ Move(c, "tally")
    /\ UNCHANGED <<proposal, requests, hour, executed>>

Tally(c) ==
    /\ InRequest(c, "tally")
    /\ Save(c, [request[c].read EXCEPT !.tally[request[c].side] = @ + 1], Done(c))
    /\ UNCHANGED <<ballot, requests, hour, executed>>

-----------------------------------------------------------------------------
(* Deciding and executing *)

SumOfVotes(r) == r.tally["for"] + r.tally["against"] + r.tally["abstain"]

\* quorumReached; the first form leaves the total out.
AnyTurnout(r) == r.quorum > 0
Quorate(r)    == SumOfVotes(r) * 100 >= TotalPower * r.quorum

Outcome(r) ==
    IF Quorate(r) /\ r.tally["for"] > r.tally["against"]
    THEN [r EXCEPT !.status = "queued", !.eta = hour + Delay]
    ELSE [r EXCEPT !.status = "defeated"]

\* now is taken before anything is finalized.
executeProposal(c) ==
    /\ InRequest(c, "execute")
    /\ IF hour < VotingEnd THEN Done(c)
       ELSE request' = [request EXCEPT
              ![c].at = IF request[c].read.status = "active"
                        THEN "finalize" ELSE "reload",
              ![c].now = hour, ![c].executes = TRUE]
    /\ UNCHANGED <<proposal, ballot, requests, hour, executed>>

LoadToFinalize(c) ==
    /\ InRequest(c, "finalize")
    /\ request' = [request EXCEPT ![c].at = "decide", ![c].read = proposal, ![c].seen = Voted]
    /\ UNCHANGED <<proposal, ballot, requests, hour, executed>>

\* Whatever the status: a proposal can be decided again.
finalizeProposal(c) ==
    /\ InRequest(c, "decide")
    /\ IF hour < VotingEnd THEN Done(c) /\ UNCHANGED proposal
       ELSE Save(c, Outcome(request[c].read),
                 IF request[c].executes THEN Move(c, "reload") ELSE Done(c))
    /\ UNCHANGED <<ballot, requests, hour, executed>>

ReloadToExecute(c) ==
    /\ InRequest(c, "reload")
    /\ IF proposal.status = "queued" /\ request[c].now >= proposal.eta
       THEN request' = [request EXCEPT ![c].at = "act", ![c].read = proposal, ![c].seen = Voted]
       ELSE Done(c)
    /\ UNCHANGED <<proposal, ballot, requests, hour, executed>>

ExecuteActions(c) ==
    /\ InRequest(c, "act")
    /\ executed' = TRUE
    /\ Move(c, "done")
    /\ UNCHANGED <<proposal, ballot, requests, hour>>

SaveExecuted(c) ==
    /\ InRequest(c, "done")
    /\ Save(c, [request[c].read EXCEPT !.status = "executed"], Done(c))
    /\ UNCHANGED <<ballot, requests, hour, executed>>

\* By an address that may.
vetoProposal(c) ==
    /\ InRequest(c, "veto")
    /\ IF request[c].read.status = "executed" THEN Done(c) /\ UNCHANGED proposal
       ELSE Save(c, [request[c].read EXCEPT !.status = "vetoed"], Done(c))
    /\ UNCHANGED <<ballot, requests, hour, executed>>

NextHour ==
    /\ hour < LastHour
    /\ hour' = hour + 1
    /\ UNCHANGED <<proposal, ballot, request, requests, executed>>

GovernanceNext ==
    \/ \E c \in Callers :
         \/ \E v \in Voters :
              \/ \E s \in {"for", "against"} : Load(c, "check", v, s)
              \/ \E s \in Sides : Load(c, "vote-typed", v, s)
         \/ \E kind \in {"execute", "finalize", "veto"} : Load(c, kind, Unvoted, "for")
         \/ vote(c) \/ SaveActive(c) \/ voteWithType(c) \/ FindVote(c) \/ StoreVote(c) \/ Tally(c)
         \/ executeProposal(c) \/ LoadToFinalize(c) \/ finalizeProposal(c) \/ ReloadToExecute(c)
         \/ ExecuteActions(c) \/ SaveExecuted(c) \/ vetoProposal(c)
    \/ NextHour

GovernanceSpec == GovernanceInit /\ [][GovernanceNext]_governanceVars

-----------------------------------------------------------------------------
(* Properties *)

\* Calls that save stale rows may lose votes, revive a vetoed proposal and decide it
\* again, but never count a vote nobody cast or one voter twice, and never execute what
\* fewer voters than the quorum voted on, nobody voted for, or the timelock still held.
ExecutedWasCarried ==
    /\ \A s \in Sides : proposal.tally[s] <= Cardinality({v \in Voters : ballot[v] = s})
    /\ executed =>
         /\ Cardinality(Voted) * 100 >= TotalPower * proposal.quorum
         /\ \E v \in Voters : ballot[v] = "for"
         /\ hour >= VotingEnd + Delay
=============================================================================
