---------------------------- MODULE CoinSelection ----------------------------
(***************************************************************************)
(* What the design (section 4.6, selectCoinsAndBuildTransaction) promises  *)
(* of the wallet's transaction builder, as an abstract specification.  The *)
(* wallet is seen only through its spendable coins (value and owner) and  *)
(* whether a coin's transaction is missing from the cache; a built         *)
(* transaction only through the coins it spends and the values and        *)
(* addresses it pays.  Everything else the wallet does may change the      *)
(* coins at any time, and leaves the built transactions and the outcome    *)
(* alone.                                                                  *)
(***************************************************************************)
EXTENDS Integers, FiniteSets, Sequences

CONSTANTS
    Amounts,     \* amounts generateTx is called with, in satoshi
    Changes,     \* change addresses it is called with, or NoChange
    To,          \* the destination generateTx is called with
    Broker,      \* the address of the auxiliary fee
    NoChange,    \* no change address given
    Scale,       \* amounts are in units of 1/Scale satoshi
    MinFee,      \* the minimum fee, in satoshi
    BrokerFee    \* the auxiliary fee, in satoshi

VARIABLES
    wallet,      \* [spendable coin -> [value, owner]]
    uncached,    \* some coin's transaction is not in the cache
    pool,        \* transactions built and not yet handed on
    result       \* outcome of the last build

vars == <<wallet, uncached, pool, result>>

\* fee = max(amount / 1000, 50000) in whole satoshi; the amount is scaled.
Fee(amount) == IF amount > MinFee * Scale THEN amount \div Scale ELSE MinFee
Total(amount) == amount + Fee(amount) + BrokerFee

RECURSIVE SumOf(_)
SumOf(S) == IF S = {} THEN 0
            ELSE LET c == CHOOSE x \in S : TRUE IN wallet[c].value + SumOf(S \ {c})

\* t is what a build for amount and change may return: spendable coins in
\* ascending order of value, smaller than every coin left out, taken until
\* their sum first reaches the total; then the outputs destination,
\* auxiliary fee, change = sum - total, the change going to the address
\* given or to the owner of one of the coins spent.
Promise(t, amount, change) ==
    LET k      == Len(t.ins)
        picked == {t.ins[i] : i \in 1..k}
    IN /\ k > 0 /\ Cardinality(picked) = k
       /\ picked \subseteq DOMAIN wallet
       /\ \A i, j \in 1..k : i < j => wallet[t.ins[i]].value <= wallet[t.ins[j]].value
       /\ \A c \in DOMAIN wallet \ picked : wallet[c].value >= wallet[t.ins[k]].value
       /\ SumOf(picked) >= Total(amount)
       /\ SumOf(picked \ {t.ins[k]}) < Total(amount)
       /\ \E owner \in IF change = NoChange THEN {wallet[c].owner : c \in picked}
                                           ELSE {change} :
            t.outs = << [value |-> amount, to |-> To],
                        [value |-> BrokerFee, to |-> Broker],
                        [value |-> SumOf(picked) - Total(amount), to |-> owner] >>

Init == pool = {} /\ result = "none"

\* A build: fails on an uncached coin, reports InsufficientFunds when all
\* spendable coins do not reach the total, or adds a promised transaction.
Generate(amount, change) ==
    /\ \/ /\ uncached
          /\ result' = "TypeError" /\ UNCHANGED pool
       \/ /\ ~uncached
          /\ SumOf(DOMAIN wallet) < Total(amount)
          /\ result' = "InsufficientFunds" /\ UNCHANGED pool
       \/ /\ ~uncached
          /\ \E t \in pool' : Promise(t, amount, change) /\ pool' = pool \cup {t}
          /\ result' = "ok"
    /\ UNCHANGED <<wallet, uncached>>

\* A built transaction is handed on (broadcast) and leaves the pool.
HandOn(t) == pool' = pool \ {t} /\ UNCHANGED <<wallet, uncached, result>>

\* A reload forgets what was built.
Reset == pool' = {} /\ result' = "none"

\* Any other call of the wallet, or a change of the chain.
Other == UNCHANGED <<pool, result>>

\* Other comes first: most steps of the wallet leave the pool alone.
Next ==
    \/ Other
    \/ \E t \in pool : HandOn(t)
    \/ Reset
    \/ \E amount \in Amounts, change \in Changes : Generate(amount, change)

Spec == Init /\ [][Next]_vars
=============================================================================
