------------------------------ MODULE PathPayment ------------------------------
(***************************************************************************)
(* The path-payment contract: breadth-first search over the registered     *)
(* pairs, the stored intent with its age, and the conversion along the     *)
(* intent's path at the rates of the moment.                               *)
(***************************************************************************)
EXTENDS Integers, Sequences, SequencesExt

CONSTANTS
    PathAssets,     \* token contracts
    PathSplits,     \* split identifiers
    ConvRates,      \* rates the admin sets, per RateUnit
    RateUnit,       \* 10_000_000 in the source
    MAX_PATH_LEN,   \* 6 in the source
    MAX_STALENESS,  \* MAX_PATH_STALENESS_LEDGERS, 30 in the source
    Slippages,      \* max_slippage, out of SlipBase
    SlipBase,       \* 10000 in the source
    SwapAmounts,    \* amounts paid in and answers of the router
    MaxPairs,       \* bound on registrations
    LastLedger,     \* bound on the ledger sequence
    Nothing         \* an unset record

ASSUME PathConstants ==
    /\ ConvRates \subseteq Nat \ {0} /\ RateUnit \in Nat \ {0} /\ SlipBase \in Nat \ {0}
    /\ MAX_PATH_LEN \in Nat /\ MAX_STALENESS \in Nat
    /\ Slippages \subseteq Nat /\ SwapAmounts \subseteq Int
    /\ MaxPairs \in Nat /\ LastLedger \in Nat

VARIABLES
    pathAdmin, \* initialised
    pairs,     \* the registered pairs, in order, repetitions included
    rate,      \* rates by pair, 0 when unset
    router,    \* a swap router is set
    intent,    \* the path intent stored for every split
    ledger,    \* the ledger sequence number
    executed   \* history: the last execution that succeeded

pathVars == <<pathAdmin, pairs, rate, router, intent, ledger, executed>>

PathTypeOK ==
    /\ pathAdmin \in BOOLEAN /\ router \in BOOLEAN
    /\ pairs \in Seq(PathAssets \X PathAssets) /\ Len(pairs) <= MaxPairs
    /\ rate \in [PathAssets \X PathAssets -> ConvRates \cup {0}]
    /\ \A s \in PathSplits : intent[s] # Nothing =>
         /\ intent[s].path \in Seq(PathAssets) /\ Len(intent[s].path) \in 1..MAX_PATH_LEN
         /\ intent[s].discovered_ledger \in 0..LastLedger
    /\ ledger \in 0..LastLedger

PathInit ==
    /\ pathAdmin = FALSE /\ router = FALSE
    /\ pairs = <<>>
    /\ rate = [p \in PathAssets \X PathAssets |-> 0]
    /\ intent = [s \in PathSplits |-> Nothing]
    /\ ledger = 0 /\ executed = Nothing

Edges == {pairs[i] : i \in 1..Len(pairs)}

-----------------------------------------------------------------------------
(* The search *)

\* The queue holds assets, each with the asset it was reached from.  Looking at one
\* pair while asset u is in front; the first form follows pairs against their direction.
VisitBackwards(queue, u, pair) ==
    IF pair[2] = u /\ \A i \in 1..Len(queue) : queue[i].asset # pair[1]
    THEN Append(queue, [asset |-> pair[1], from |-> u])
    ELSE queue
Visit(queue, u, pair) ==
    IF pair[1] = u /\ \A i \in 1..Len(queue) : queue[i].asset # pair[2]
    THEN Append(queue, [asset |-> pair[2], from |-> u])
    ELSE queue

\* Every asset of the queue in turn, and for each of them every pair in turn: after the
\* last asset of the queue there is nothing to do.
Looked(queue, step) ==
    LET n == Len(pairs)
        front == (step - 1) \div n + 1
    IN  IF front > Len(queue) THEN queue
        ELSE Visit(queue, queue[front].asset, pairs[((step - 1) % n) + 1])

Reached(source) ==
    LET steps == Len(pairs) * (Len(pairs) + 1)
        search[step \in 0..steps] ==
          IF step = 0 THEN <<[asset |-> source, from |-> source]>>
          ELSE Looked(search[step - 1], step)
    IN  search[steps]

\* The assets from source to dest along the parents; empty when dest was not reached.
Path(source, dest) ==
    LET queue == Reached(source)
        At(a) == CHOOSE i \in 1..Len(queue) : queue[i].asset = a
        back[i \in 1..Len(queue)] ==
          IF i = 1 THEN <<source>> ELSE Append(back[At(queue[i].from)], queue[i].asset)
    IN  IF \E i \in 1..Len(queue) : queue[i].asset = dest THEN back[At(dest)] ELSE <<>>

-----------------------------------------------------------------------------
(* The entry points *)

PathInitialize ==
    /\ ~pathAdmin
    /\ pathAdmin' = TRUE
    /\ UNCHANGED <<pairs, rate, router, intent, ledger, executed>>

register_pair(from, to) ==
    /\ pathAdmin
    /\ Len(pairs) < MaxPairs
    /\ pairs' = Append(pairs, <<from, to>>)
    /\ UNCHANGED <<pathAdmin, rate, router, intent, ledger, executed>>

\* Bound: rates of pairs that are not registered are never read.
set_rate(from, to, r) ==
    /\ pathAdmin
    /\ <<from, to>> \in Edges
    /\ rate' = [rate EXCEPT ![<<from, to>>] = r]
    /\ UNCHANGED <<pathAdmin, pairs, router, intent, ledger, executed>>

set_swap_router ==
    /\ pathAdmin
    /\ router' = TRUE
    /\ UNCHANGED <<pathAdmin, pairs, rate, intent, ledger, executed>>

\* A path found is refused when it is too long.
ShortEnough(path) == Len(path) \in 1..MAX_PATH_LEN

find_payment_path(source, dest, s) ==
    LET path == Path(source, dest) IN
    /\ pathAdmin
    /\ ShortEnough(path)
    /\ intent' = [intent EXCEPT ![s] = [path |-> path, discovered_ledger |-> ledger]]
    /\ UNCHANGED <<pathAdmin, pairs, rate, router, ledger, executed>>

Converted(from, to, amount) == (amount * rate[<<from, to>>]) \div RateUnit
AtLeast(expected, slippage) == (expected * (SlipBase - slippage)) \div SlipBase

\* answers[k] is what the router returns for hop k; answers[0] is what is paid in.
execute_path_payment(s, amount, slippage) ==
    LET path == intent[s].path
        n    == Len(path) - 1
        expected[k \in 0..n] ==
            IF k = 0 THEN amount ELSE Converted(path[k], path[k + 1], expected[k - 1])
    IN  /\ pathAdmin
        /\ intent[s] # Nothing
        /\ ledger - intent[s].discovered_ledger <= MAX_STALENESS
        /\ amount > 0
        /\ \A k \in 1..n : expected[k] > 0
        /\ n > 0 => router
        /\ \E answers \in [0..n -> SwapAmounts \cup {amount}] :
             /\ answers[0] = amount
             /\ \A k \in 1..n :
                  LET step == Converted(path[k], path[k + 1], answers[k - 1]) IN
                  answers[k] > 0 /\ step > 0 /\ answers[k] >= AtLeast(step, slippage)
             /\ n > 0 => answers[n] >= AtLeast(expected[n], slippage)
             /\ executed' = [expected |-> expected[n], slippage |-> slippage, out |-> answers[n]]
        /\ UNCHANGED <<pathAdmin, pairs, rate, router, intent, ledger>>

NextLedger ==
    /\ ledger < LastLedger
    /\ ledger' = ledger + 1
    /\ UNCHANGED <<pathAdmin, pairs, rate, router, intent, executed>>

PathNext ==
    \/ PathInitialize \/ set_swap_router \/ NextLedger
    \/ \E from, to \in PathAssets :
         \/ register_pair(from, to)
         \/ \E r \in ConvRates : set_rate(from, to, r)
         \/ \E s \in PathSplits : find_payment_path(from, to, s)
    \/ \E s \in PathSplits, amount \in SwapAmounts, slippage \in Slippages :
         execute_path_payment(s, amount, slippage)

PathSpec == PathInit /\ [][PathNext]_pathVars

-----------------------------------------------------------------------------
(* Properties *)

IsWalk(path) == \A k \in 1..(Len(path) - 1) : <<path[k], path[k + 1]>> \in Edges

\* The assets at most n hops from source, by definition.
Within(source, n) ==
    LET near[k \in 0..n] ==
          IF k = 0 THEN {source}
          ELSE near[k - 1] \cup {a \in PathAssets : \E b \in near[k - 1] : <<b, a>> \in Edges}
    IN  near[n]

\* The search finds a path exactly when there is one, and then a shortest one, so
\* the length limit never refuses a payment that a shorter path allows; every
\* stored intent still leads along registered pairs.  What an execution returns is
\* within the slippage of what the rates promised for the whole path.
PathsAreShortest ==
    /\ \A source, dest \in PathAssets :
         LET path == Path(source, dest) IN
         IF path = <<>> THEN dest \notin Within(source, MaxPairs)
         ELSE /\ IsWalk(path) /\ path[1] = source /\ Last(path) = dest
              /\ Len(path) > 1 => dest \notin Within(source, Len(path) - 2)
    /\ \A s \in PathSplits : intent[s] # Nothing => IsWalk(intent[s].path)
    /\ executed # Nothing =>
         executed.out * SlipBase > executed.expected * (SlipBase - executed.slippage) - SlipBase
=============================================================================
