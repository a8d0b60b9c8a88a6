----------------------------- MODULE SplitTemplate -----------------------------
(***************************************************************************)
(* The split-template contract: templates by identifier, by creator and    *)
(* name, and by creator, with a cap on uses.                               *)
(***************************************************************************)
EXTENDS Integers, Sequences

CONSTANTS
    TemplateCreators, \* addresses that create templates
    TemplateNames,    \* names
    ShareLists,       \* share sequences callers pass, one entry per participant
    UseCaps,          \* max_uses callers pass: numbers and Unlimited
    Unlimited,        \* None of max_uses
    LastSequence,     \* bound on the ledger sequence number
    MaxUses           \* bound on the uses of one template

ASSUME TemplateConstants ==
    /\ UseCaps \subseteq Nat \cup {Unlimited} /\ Unlimited \notin Nat
    /\ LastSequence \in Nat /\ MaxUses \in Nat

VARIABLES
    templates, \* stored templates by identifier
    nameIndex, \* identifier by creator and name
    created,   \* every creator's identifiers, in order of creation
    sequence   \* the ledger sequence number

templateVars == <<templates, nameIndex, created, sequence>>

\* The identifier is the SHA-256 of creator, name and sequence: equal only for equal ones.
generate_template_id(creator, name) == <<creator, name, sequence>>
TemplateIds == TemplateCreators \X TemplateNames \X (0..LastSequence)

ShareTotal(shares) ==
    LET upTo[i \in 0..Len(shares)] == IF i = 0 THEN 0 ELSE upTo[i - 1] + shares[i]
    IN  upTo[Len(shares)]

validate_shares(type, shares) ==
    \/ type = "Equal"
    \/ /\ type = "Percentage"
       /\ \A i \in 1..Len(shares) : shares[i] \in 0..100
       /\ ShareTotal(shares) = 100
    \/ type = "Fixed" /\ \A i \in 1..Len(shares) : shares[i] > 0

TemplateTypeOK ==
    /\ DOMAIN templates \subseteq TemplateIds
    /\ \A id \in DOMAIN templates :
         /\ templates[id].split_type \in {"Equal", "Percentage", "Fixed"}
         /\ templates[id].use_count \in 0..MaxUses
         /\ templates[id].max_uses \in UseCaps
    /\ DOMAIN nameIndex \subseteq TemplateCreators \X TemplateNames
    /\ created \in [TemplateCreators -> Seq(TemplateIds)]
    /\ sequence \in 0..LastSequence

TemplateInit ==
    /\ templates = <<>> /\ nameIndex = <<>>
    /\ created = [c \in TemplateCreators |-> <<>>]
    /\ sequence = 0

\* f with v at k.
Stored(f, k, v) == [x \in DOMAIN f \cup {k} |-> IF x = k THEN v ELSE f[x]]

\* Whether the creator has a template of that name; the first form compares identifiers.
SameId(creator, name) == generate_template_id(creator, name) \in DOMAIN templates
has_template_with_name(creator, name) == <<creator, name>> \in DOMAIN nameIndex

create_template(creator, name, type, shares, cap) ==
    LET id == generate_template_id(creator, name) IN
    /\ shares # <<>>
    /\ validate_shares(type, shares)
    /\ ~has_template_with_name(creator, name)
    /\ templates' = Stored(templates, id, [split_type |-> type, shares |-> shares,
                                           use_count |-> 0, max_uses |-> cap])
    /\ nameIndex' = Stored(nameIndex, <<creator, name>>, id)
    /\ created' = [created EXCEPT ![creator] = Append(@, id)]
    /\ UNCHANGED sequence

\* apply_template and use_template; versions are all the current one.
use_template(id) ==
    /\ id \in DOMAIN templates
    /\ templates[id].max_uses # Unlimited => templates[id].use_count < templates[id].max_uses
    /\ templates[id].use_count < MaxUses
    /\ templates' = [templates EXCEPT ![id].use_count = @ + 1]
    /\ UNCHANGED <<nameIndex, created, sequence>>

CloseLedger ==
    /\ sequence < LastSequence
    /\ sequence' = sequence + 1
    /\ UNCHANGED <<templates, nameIndex, created>>

TemplateNext ==
    \/ CloseLedger
    \/ \E id \in TemplateIds : use_template(id)
    \/ \E c \in TemplateCreators, name \in TemplateNames, shares \in ShareLists,
          cap \in UseCaps, type \in {"Equal", "Percentage", "Fixed"} :
         create_template(c, name, type, shares, cap)

TemplateSpec == TemplateInit /\ [][TemplateNext]_templateVars

-----------------------------------------------------------------------------
(* Properties *)

\* The three stores never drift apart: every template is in its creator's index
\* exactly once and is what the name of its creator leads to, no index names a
\* template that is not stored, and no stored template was used beyond its cap
\* or was overwritten by another of the same identifier.
TemplateStoresAgree ==
    /\ \A id \in DOMAIN templates :
         /\ <<id[1], id[2]>> \in DOMAIN nameIndex /\ nameIndex[<<id[1], id[2]>>] = id
         /\ \E i \in 1..Len(created[id[1]]) : created[id[1]][i] = id
         /\ templates[id].max_uses # Unlimited =>
              templates[id].use_count <= templates[id].max_uses
    /\ \A key \in DOMAIN nameIndex : nameIndex[key] \in DOMAIN templates
    /\ \A c \in TemplateCreators, i, j \in 1..LastSequence + 2 :
         i < j /\ j <= Len(created[c]) => created[c][i] # created[c][j]
    /\ \A c \in TemplateCreators : \A i \in 1..Len(created[c]) :
         created[c][i] \in DOMAIN templates
=============================================================================
