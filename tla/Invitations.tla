------------------------------ MODULE Invitations ------------------------------
(***************************************************************************)
(* One invitation to a split (backend/src/invitations): calls that join by *)
(* its token read the row, check it, insert a participant and then save    *)
(* the row with one more use; the split's creator revokes it; guests are   *)
(* upgraded to accounts.                                                   *)
(***************************************************************************)
EXTENDS Naturals, FiniteSets

CONSTANTS
    Calls,    \* requests; a join's participant has the name of its request
    Emails,
    Guest,    \* joining without an email
    Nobody,   \* no participant
    MaxUses,  \* how often the invitation may be used
    MaxCuts   \* bound on failing statements and crashes together

ASSUME InvitationConstants == MaxUses \in Nat \ {0} /\ MaxCuts \in Nat

VARIABLES
    invite,       \* usesCount, usedAt is set, the revocations (tokenVersion, expiresAt)
    over,         \* the original expiry has passed
    participant,  \* the row a join inserted: a guest, an email or an account
    users,        \* emails with an account
    visit,        \* where every call is, and what it read
    stale,        \* history: saves that undid another call's
    cuts          \* failures so far

inviteVars == <<invite, over, participant, users, visit, stale, cuts>>

Account(e) == [account |-> e]

\* The columns of a participant tell guests, emails and accounts apart.
ASSUME NamesDiffer ==
    /\ Nobody # Guest /\ Nobody \notin Emails /\ Guest \notin Emails
    /\ \A e \in Emails : Account(e) \notin Emails \cup {Nobody, Guest}

Invite     == [uses : 0..MaxUses, used : BOOLEAN, revoked : BOOLEAN]
Start      == [at |-> "new", who |-> Guest, read |-> [uses |-> 0, used |-> FALSE, revoked |-> FALSE],
               guest |-> Nobody]

InviteTypeOK ==
    /\ invite \in Invite
    /\ participant \in [Calls -> {Nobody, Guest} \cup Emails \cup {Account(e) : e \in Emails}]
    /\ users \subseteq Emails
    /\ visit \in [Calls -> [at : {"new", "duplicate", "insert", "use", "revoke", "register",
                                  "link", "done"},
                            who : Emails \cup {Guest}, read : Invite,
                            guest : Calls \cup {Nobody}]]

InviteInit ==
    /\ invite = Start.read /\ over = FALSE
    /\ participant = [c \in Calls |-> Nobody]
    /\ users \in SUBSET Emails
    /\ visit = [c \in Calls |-> Start]
    /\ stale = 0 /\ cuts = 0

To(c, place)      == visit' = [visit EXCEPT ![c].at = place]
SaveInvite(c, row) ==
    /\ invite' = row
    /\ stale' = IF invite = visit[c].read THEN stale ELSE stale + 1
    /\ visit' = [visit EXCEPT ![c] = [Start EXCEPT !.at = "done"]]

\* What joinByToken asks of the row; the first form forgets the uses.
Unexpired(row) == ~row.revoked /\ ~over
Usable(row)    == row.uses < MaxUses /\ ~(row.used /\ MaxUses = 1) /\ ~row.revoked /\ ~over

joinByToken(c, who) ==
    /\ visit[c].at = "new"
    /\ Usable(invite)
    /\ visit' = [visit EXCEPT ![c].at = "duplicate", ![c].who = who, ![c].read = invite]
    /\ UNCHANGED <<invite, over, participant, users, stale, cuts>>

\* An upgraded guest is stored under the account, so the email joins again.
FindDuplicate(c) ==
    /\ visit[c].at = "duplicate"
    /\ IF \E d \in Calls : visit[c].who # Guest /\ participant[d] = visit[c].who
       THEN To(c, "done") ELSE To(c, "insert")
    /\ UNCHANGED <<invite, over, participant, users, stale, cuts>>

InsertParticipant(c) ==
    /\ visit[c].at = "insert"
    /\ participant' = [participant EXCEPT ![c] = visit[c].who]
    /\ To(c, "use")
    /\ UNCHANGED <<invite, over, users, stale, cuts>>

UseInvite(c) ==
    LET n == visit[c].read.uses + 1 IN
    /\ visit[c].at = "use"
    /\ SaveInvite(c, [visit[c].read EXCEPT !.uses = n, !.used = @ \/ n >= MaxUses])
    /\ UNCHANGED <<over, participant, users, cuts>>

invalidate(c) ==
    /\ visit[c].at = "new"
    /\ visit' = [visit EXCEPT ![c].at = "revoke", ![c].read = invite]
    /\ UNCHANGED <<invite, over, participant, users, stale, cuts>>

SaveRevoked(c) ==
    /\ visit[c].at = "revoke"
    /\ SaveInvite(c, [visit[c].read EXCEPT !.revoked = TRUE])
    /\ UNCHANGED <<over, participant, users, cuts>>

upgradeGuest(c, d, e) ==
    /\ visit[c].at = "new"
    /\ participant[d] = Guest
    /\ visit' = [visit EXCEPT ![c] = [Start EXCEPT !.at = IF e \in users THEN "link" ELSE "register",
                                                   !.who = e, !.guest = d]]
    /\ UNCHANGED <<invite, over, participant, users, stale, cuts>>

\* The email is unique.
RegisterUser(c) ==
    /\ visit[c].at = "register"
    /\ To(c, IF visit[c].who \in users THEN "done" ELSE "link")
    /\ users' = users \cup {visit[c].who}
    /\ UNCHANGED <<invite, over, participant, stale, cuts>>

LinkParticipant(c) ==
    /\ visit[c].at = "link"
    /\ participant' = [participant EXCEPT ![visit[c].guest] = Account(visit[c].who)]
    /\ To(c, "done")
    /\ UNCHANGED <<invite, over, users, stale, cuts>>

CutShort(c) ==
    /\ visit[c].at \notin {"new", "done"}
    /\ cuts < MaxCuts /\ cuts' = cuts + 1
    /\ To(c, "done")
    /\ UNCHANGED <<invite, over, participant, users, stale>>

Expire ==
    /\ ~over /\ over' = TRUE
    /\ UNCHANGED <<invite, participant, users, visit, stale, cuts>>

InviteNext ==
    \/ Expire
    \/ \E c \in Calls :
         \/ \E who \in Emails \cup {Guest} : joinByToken(c, who)
         \/ FindDuplicate(c) \/ InsertParticipant(c) \/ UseInvite(c)
         \/ invalidate(c) \/ SaveRevoked(c)
         \/ \E d \in Calls, e \in Emails : upgradeGuest(c, d, e)
         \/ RegisterUser(c) \/ LinkParticipant(c) \/ CutShort(c)

InviteSpec == InviteInit /\ [][InviteNext]_inviteVars

-----------------------------------------------------------------------------
(* Properties *)

Joined == {c \in Calls : participant[c] # Nobody}

\* Joins race with joins, revocations and crashes, and the cap is off by what was lost:
\* each save of a stale row lets at most another MaxUses participants in, each failure
\* after the insert one more; every account a guest was upgraded to exists.
CapLeaksOnlyByRaces ==
    /\ Cardinality(Joined) <= MaxUses * (1 + stale) + cuts
                              + Cardinality({c \in Calls : visit[c].at = "use"})
    /\ \A c \in Joined, e \in Emails : participant[c] = Account(e) => e \in users
=============================================================================
