------------------------------- MODULE Asset -------------------------------
(***************************************************************************)
(* btc.Asset, the wallet ledger (src/applications/btcproxy/www/js/btc/    *)
(* asset.js), with its two collaborators as environment:                   *)
(*   - the ChainSource ("sync" argument of syncronize/getTx): the block    *)
(*     chain, which grows while a synchronize is between remote calls;     *)
(*   - localStorage, whose setItem may throw (quota) and which survives a  *)
(*     page reload (Restart = the Asset constructor run again).            *)
(* Asset methods are synchronous JavaScript: no two of them interleave.    *)
(* Only the chain moves between the remote calls of one syncronize.        *)
(***************************************************************************)
EXTENDS Integers, Sequences, FiniteSets, SequencesExt, TLC, Tx

CONSTANTS
    Addr,          \* pubkey hashes the wallet may hold keys or watch entries for
    Other,         \* an address outside the wallet (payee, external spender)
    Broker,        \* the fixed broker address "19bvWMvx..." of generateTx
    InvalidAddr,   \* the keymap entry addAddress makes from a malformed string
    NoChange,      \* generateTx called without a change address
    NoStore,       \* localStorage holds no "keymap" item
    Values,        \* values of the coins external payers send
    Amounts,       \* amounts callers pass to generateTx
    FeeDecimals,   \* 3 in the code: fee = amount / 1000
    MinFee,        \* 50000 in the code
    BrokerFee,     \* 50000 in the code
    CommitMayFail, \* whether localStorage.setItem may throw
    CallerPurges,  \* whether callers ever call purgeTxCache
    MaxChain,      \* bound on the chain length
    MaxPool,       \* bound on generated, not yet broadcast transactions
    MaxSyncs,      \* bound on syncronize calls (debits/credits only grow)
    MaxRestarts    \* bound on page reloads

ASSUME FeeDecimals \in Nat /\ MinFee \in Nat /\ BrokerFee \in Nat
ASSUME CommitMayFail \in BOOLEAN /\ CallerPurges \in BOOLEAN

VARIABLES
    chain,      \* the ChainSource's block chain: a sequence of Tx records
    keymap,     \* _keymap: registered hash -> "key" (ECKey) | "watch" (undefined)
    stored,     \* localStorage "keymap": a keymap, or NoStore
    txCache,    \* _tx_cache: the txids cached (a tx's content is chain[txid])
    coins,      \* _coins: coins <<txid, n>> found by the last syncronize
    debits,     \* _debits: every debit coin any syncronize pushed
    credits,    \* _credits: every credit <<txid, input>> any syncronize pushed
    sync,       \* a running syncronize: its mode, addresses left, current address
    pool,       \* transactions generateTx returned, not yet broadcast
    result,     \* outcome of the last generateTx
    syncs,      \* number of syncronize calls
    restarts,   \* number of page reloads
    hist,       \* history: chain facts at the start and end of the last syncronize
    notified    \* history: hashes whose key a call that threw left unstored

vars == <<chain, keymap, stored, txCache, coins, debits, credits, sync, pool,
          result, syncs, restarts, hist, notified>>

KeyHashes == Addr \cup {InvalidAddr}
Coin == (1..MaxChain) \X (1..3)

-----------------------------------------------------------------------------
(* The ChainSource: what the block chain says about coins and addresses.   *)

Outputs(ch) == UNION {{<<t, n>> : n \in DOMAIN ch[t].outs} : t \in 1..Len(ch)}
SpentBy(ch) == UNION {{ch[t].ins[i].prevout : i \in DOMAIN ch[t].ins} : t \in 1..Len(ch)}
OutOf(ch, c) == ch[c[1]].outs[c[2]]
\* Asset.prototype.getAddress(out): out.script.simpleOutPubKeyHash().
OwnerOf(ch, c) == SimpleOutPubKeyHash(OutOf(ch, c).script)
Utxo(ch, A) == {c \in Outputs(ch) \ SpentBy(ch) : OwnerOf(ch, c) \in A}
\* sync.getDebitCoins(addr): the outputs paying addr.
DebitCoins(ch, a) == {c \in Outputs(ch) : OwnerOf(ch, c) = a}
\* sync.getCreditCoins(addr): the inputs <<txid, index>> spending from addr.
CreditCoins(ch, a) ==
    UNION {{<<t, i>> : i \in {j \in DOMAIN ch[t].ins :
                                 OwnerOf(ch, ch[t].ins[j].prevout) = a}}
           : t \in 1..Len(ch)}
\* sync.getCoins(addr): the unspent outputs paying addr.
UnspentCoins(ch, a) == Utxo(ch, {a})

-----------------------------------------------------------------------------
(* Persistence.                                                            *)

\* The keys of km that the stored keymap does not hold as keys.
Unstored(km) ==
    {a \in DOMAIN km : km[a] = "key" /\ (stored = NoStore \/ a \notin DOMAIN stored
                                        \/ stored[a] # "key")}

\* Mutant: a throw of setItem is swallowed, as the catch block intends.
CommitKeymapSilent(km) ==
    /\ stored' \in IF CommitMayFail THEN {km, stored} ELSE {km}
    /\ UNCHANGED notified

\* commitKeymap: setItem("keymap", ...) inside try/catch.  The catch block
\* compares the error with QUOTA_EXCEEDED_ERR, a name no script declares,
\* so it throws a ReferenceError to the caller: a failed commit leaves the
\* stored keymap as it was, the in-memory keymap as updated, and the caller
\* told that the keys km holds beyond the stored ones are not persisted.
\* Every caller commits last, so nothing else of the call is skipped.
CommitKeymap(km) ==
    \/ stored' = km /\ notified' = {}
    \/ /\ CommitMayFail
       /\ stored' = stored
       /\ notified' = notified \cup Unstored(km)

\* this._keymap[h] = v.
SetKey(km, h, v) == [x \in DOMAIN km \cup {h} |-> IF x = h THEN v ELSE km[x]]

-----------------------------------------------------------------------------
(* Reads of the ledger (methods with no state change).                     *)

\* Asset.prototype.value: getTx(coin.hash).out[coin.n].getValue().
Value(c) == OutOf(chain, c).value

\* Asset.prototype.isSpendable: the output's hash has an ECKey in _keymap.
IsSpendable(c) ==
    LET h == OwnerOf(chain, c) IN h \in DOMAIN keymap /\ keymap[h] = "key"

RECURSIVE SumValues(_)
SumValues(S) == IF S = {} THEN 0
                ELSE LET c == CHOOSE x \in S : TRUE IN Value(c) + SumValues(S \ {c})

\* Asset.prototype.spendable_balance: the loop reads this._coin[i], a typo
\* for this._coins, as soon as a coin is spendable, which throws.
\* The result: whether it threw, and the sum it returned otherwise.
SpendableBalance ==
    IF \E c \in coins : IsSpendable(c) THEN [threw |-> TRUE, sum |-> 0]
                                        ELSE [threw |-> FALSE, sum |-> 0]

\* Asset.prototype.getLedger: an entry per debit, the value of its output,
\* then an entry per credit, minus the value of the output its input spends;
\* every transaction is read with the one-argument getTx, which returns
\* undefined when it is not cached, and tx.out / tx.in of undefined throws.
\* The entries are in loop order: the final sort is not modelled.
\* getTx(hash) with one argument: the cached transaction, or undefined when
\* _tx_cache has no entry for the hash.
Cached(t) == t \in txCache

GetLedger ==
    LET spentOf(cr) == chain[cr[1]].ins[cr[2]].prevout
    IN IF /\ \A i \in DOMAIN debits : Cached(debits[i][1])
          /\ \A i \in DOMAIN credits : Cached(credits[i][1]) /\ Cached(spentOf(credits[i])[1])
       THEN [threw |-> FALSE,
             entries |-> [i \in DOMAIN debits |-> [coin |-> debits[i], value |-> Value(debits[i])]]
                         \o [i \in DOMAIN credits |->
                               [coin |-> credits[i], value |-> -Value(spentOf(credits[i]))]]]
       ELSE [threw |-> TRUE, entries |-> << >>]

-----------------------------------------------------------------------------
(* generateTx helpers: fee arithmetic, coin order and selection, signing.  *)

Scale == 10^FeeDecimals
\* Math.max(amount / 1000, 50000), in units of 1/Scale.
FeeScaled(amount) == IF amount > MinFee * Scale THEN amount ELSE MinFee * Scale
\* total = amount + fee + brokerfee, in units of 1/Scale.
\* Mutant: the fee is left out of the total.
TotalScaledNoFee(amount) == amount * Scale + BrokerFee * Scale
TotalScaled(amount) == amount * Scale + FeeScaled(amount) + BrokerFee * Scale

\* A change value x/Scale becomes a TxOut through new BigInteger(String(x), 10),
\* which skips the "." of a fractional number: the digits are read as an
\* integer, i.e. x divided by 10 to the number of trailing zero decimals.
TrailingZeros(x) ==
    CHOOSE z \in 0..FeeDecimals :
        x % 10^z = 0 /\ (z = FeeDecimals \/ x % 10^(z + 1) # 0)
NumberToValue(x) == x \div 10^TrailingZeros(x)

\* Mutant: compareCoinValue returns value(b) - value(a), a descending sort.
AscendingOrdersDescending(S) ==
    {s \in SetToSeqs(S) : \A i, j \in DOMAIN s : i < j => Value(s[i]) >= Value(s[j])}

\* spendable_coins.sort(compareCoinValue): every ascending order of the set.
AscendingOrders(S) ==
    {s \in SetToSeqs(S) : \A i, j \in DOMAIN s : i < j => Value(s[i]) <= Value(s[j])}

\* Mutant: the loop breaks one coin early, counting only the coins whose
\* running sum is still below the total.
SelectCountEarly(order, total) ==
    Cardinality({k \in 1..Len(order) : Scale * SumValues({order[i] : i \in 1..k}) < total})

\* The input loop: add coins in order, break once sum >= total; the number
\* of coins taken, or 0 when the loop runs out first.
SelectCount(order, total) ==
    LET enough == {k \in 1..Len(order) :
                      Scale * SumValues({order[i] : i \in 1..k}) >= total}
    IN IF enough = {} THEN 0 ELSE CHOOSE k \in enough : \A j \in enough : k <= j

\* Tx.prototype.addOutput(address, value) with a Number value: a TxOut whose
\* script is createOutputScript(address) and whose value is the number's
\* decimal string read by new BigInteger (NumberToValue for the change).
AddOutput(addr, v) == MkTxOut(v, CreateOutputScript(addr))

\* The transaction before signing: each input holds the previous output's
\* script as placeholder; outputs to, broker, change in that order.
UnsignedTx(order, k, to, amount, changeAddr) ==
    LET sum == SumValues({order[i] : i \in 1..k}) IN
    MkTx([i \in 1..k |-> MkTxIn(order[i], OutOf(chain, order[i]).script, SequenceFinal)],
         << AddOutput(to, amount),
            AddOutput(Broker, BrokerFee),
            AddOutput(changeAddr, NumberToValue(Scale * sum - TotalScaled(amount))) >>)

\* signWithKey(pubKeyHash, hash) then signature.push(hashType).
Signature(pkh, digest, hashType) == [signer |-> pkh, digest |-> digest, hashType |-> hashType]

\* The signing loop, input by input on the transaction as it is mutated.
RECURSIVE SignFrom(_, _)
SignFrom(tx, i) ==
    IF i > Len(tx.ins) THEN tx
    ELSE LET script == tx.ins[i].script
             pkh    == SimpleOutPubKeyHash(script)
             sig    == Signature(pkh, HashTxForSignature(tx, script, i, SIGHASH_ALL),
                                 SIGHASH_ALL)
         IN SignFrom([tx EXCEPT !.ins[i].script = CreateInputScript(sig, PubKeyOf(pkh))],
                     i + 1)

-----------------------------------------------------------------------------
(* Initial state: the constructor on an empty localStorage generates one   *)
(* key and commits it; the txcache is created empty.  A commit that throws *)
(* here throws out of the constructor and leaves no wallet, so a wallet    *)
(* starts with its key stored.                                             *)

IdleSync == [active |-> FALSE, mode |-> "none", pending |-> {}, cur |-> {}, snap |-> {}]
NoHist == [startUtxo |-> {}, startSpent |-> {}, endSpent |-> {}, done |-> FALSE]

Init ==
    /\ chain = << >>
    /\ \E a \in Addr : keymap = (a :> "key")
    /\ stored = keymap
    /\ notified = {}
    /\ txCache = {}
    /\ coins = {}
    /\ debits = << >>
    /\ credits = << >>
    /\ sync = IdleSync
    /\ pool = {}
    /\ result = "none"
    /\ syncs = 0
    /\ restarts = 0
    /\ hist = NoHist
-----------------------------------------------------------------------------
(* Keymap operations.  Every Asset method first requires that no           *)
(* syncronize is running: JavaScript runs one method to completion.        *)

Quiet == ~sync.active

\* addAddress(addr) for a 40-hex string or a btc.Address: the hash is set
\* to undefined, whatever it held before, and the keymap is committed.
AddAddress(a) ==
    /\ Quiet
    /\ keymap' = SetKey(keymap, a, "watch")
    /\ CommitKeymap(keymap')
    /\ UNCHANGED <<chain, txCache, coins, debits, credits, sync, pool, result,
                   syncs, restarts, hist>>

\* addAddress with a string that is not 40 characters long: it logs, then
\* still executes this._keymap[undefined] = undefined and commits.
AddAddressInvalid ==
    /\ Quiet
    /\ keymap' = SetKey(keymap, InvalidAddr, "watch")
    /\ CommitKeymap(keymap')
    /\ UNCHANGED <<chain, txCache, coins, debits, credits, sync, pool, result,
                   syncs, restarts, hist>>

\* addKey(key): the key's pubkey hash maps to the key; commit.
AddKey(a) ==
    /\ Quiet
    /\ keymap' = SetKey(keymap, a, "key")
    /\ CommitKeymap(keymap')
    /\ UNCHANGED <<chain, txCache, coins, debits, credits, sync, pool, result,
                   syncs, restarts, hist>>

\* generateAddress: addKey(new btc.ECKey()) for a fresh key, then a second
\* commitKeymap of the same keymap.  If addKey's commit throws, the second
\* is never reached; if it succeeds, the second has nothing more to store.
GenerateAddress ==
    /\ Quiet
    /\ \E a \in Addr \ DOMAIN keymap :
         keymap' = SetKey(keymap, a, "key")
    /\ CommitKeymap(keymap')
    /\ UNCHANGED <<chain, txCache, coins, debits, credits, sync, pool, result,
                   syncs, restarts, hist>>

\* purgeTxCache: drop the stored and the in-memory transaction cache.
PurgeTxCache ==
    /\ CallerPurges
    /\ Quiet
    /\ txCache' = {}
    /\ UNCHANGED <<chain, keymap, stored, coins, debits, credits, sync, pool,
                   result, syncs, restarts, hist, notified>>

-----------------------------------------------------------------------------
(* syncronize(sync, all_transactions).  _coins is cleared first, then each *)
(* registered address is queried in turn; the chain may grow between the   *)
(* remote calls.  The mode "all" makes two calls per address (debits, then *)
(* credits), the mode "coins" one (getCoins).  getTx(hash, sync) caches    *)
(* every transaction a coin names.                                         *)

\* Mutant: _coins is not cleared before the addresses are queried.
SyncStartKeepCoins(mode) ==
    /\ Quiet
    /\ syncs < MaxSyncs
    /\ sync' = [active |-> TRUE, mode |-> mode, pending |-> DOMAIN keymap,
                cur |-> {}, snap |-> {}]
    /\ syncs' = syncs + 1
    /\ hist' = [startUtxo |-> Utxo(chain, DOMAIN keymap), startSpent |-> SpentBy(chain),
                endSpent |-> {}, done |-> FALSE]
    /\ UNCHANGED <<chain, keymap, stored, txCache, coins, debits, credits, pool,
                   result, restarts, notified>>

SyncStart(mode) ==
    /\ Quiet
    /\ syncs < MaxSyncs
    /\ coins' = {}
    /\ sync' = [active |-> TRUE, mode |-> mode, pending |-> DOMAIN keymap,
                cur |-> {}, snap |-> {}]
    /\ syncs' = syncs + 1
    /\ hist' = [startUtxo |-> Utxo(chain, DOMAIN keymap), startSpent |-> SpentBy(chain),
                endSpent |-> {}, done |-> FALSE]
    /\ UNCHANGED <<chain, keymap, stored, txCache, debits, credits, pool, result,
                   restarts, notified>>

\* The end of the loop over _keymap.
SyncFinish(pending) ==
    IF pending = {}
    THEN /\ sync' = IdleSync
         /\ hist' = [hist EXCEPT !.endSpent = SpentBy(chain), !.done = TRUE]
    ELSE /\ sync' = [sync EXCEPT !.pending = pending, !.cur = {}, !.snap = {}]
         /\ UNCHANGED hist

\* getDebitCoins(addr): the answer is kept until getCreditCoins returns.
SyncDebits(a) ==
    /\ sync.active /\ sync.mode = "all" /\ sync.cur = {}
    /\ a \in sync.pending
    /\ sync' = [sync EXCEPT !.cur = {a}, !.snap = DebitCoins(chain, a)]
    /\ UNCHANGED <<chain, keymap, stored, txCache, coins, debits, credits, pool,
                   result, syncs, restarts, hist, notified>>

\* getCreditCoins(addr), then the two loops: push each debit to _debits and
\* cache its transaction, push each credit to _credits, cache the spending
\* transaction, delete the coin its input spends from this address's
\* debit coins, and merge what is left into _coins.
\* Mutant: the address's coins replace _coins instead of being merged.
SyncCreditsOverwrite ==
    /\ sync.active /\ sync.mode = "all" /\ sync.cur # {}
    /\ LET a     == CHOOSE x \in sync.cur : TRUE
           cr    == CreditCoins(chain, a)
           spent == {chain[c[1]].ins[c[2]].prevout : c \in cr}
       IN /\ debits' = debits \o SetToSeq(sync.snap)
          /\ credits' = credits \o SetToSeq(cr)
          /\ txCache' = txCache \cup {c[1] : c \in sync.snap \cup cr}
          /\ coins' = sync.snap \ spent
          /\ SyncFinish(sync.pending \ {a})
    /\ UNCHANGED <<chain, keymap, stored, pool, result, syncs, restarts, notified>>

SyncCredits ==
    /\ sync.active /\ sync.mode = "all" /\ sync.cur # {}
    /\ LET a     == CHOOSE x \in sync.cur : TRUE
           cr    == CreditCoins(chain, a)
           spent == {chain[c[1]].ins[c[2]].prevout : c \in cr}
       IN /\ debits' = debits \o SetToSeq(sync.snap)
          /\ credits' = credits \o SetToSeq(cr)
          /\ txCache' = txCache \cup {c[1] : c \in sync.snap \cup cr}
          /\ coins' = coins \cup (sync.snap \ spent)
          /\ SyncFinish(sync.pending \ {a})
    /\ UNCHANGED <<chain, keymap, stored, pool, result, syncs, restarts, notified>>

\* all_transactions = false: getCoins(addr), cache and merge into _coins.
SyncCoins(a) ==
    /\ sync.active /\ sync.mode = "coins"
    /\ a \in sync.pending
    /\ LET u == UnspentCoins(chain, a) IN
         /\ txCache' = txCache \cup {c[1] : c \in u}
         /\ coins' = coins \cup u
         /\ SyncFinish(sync.pending \ {a})
    /\ UNCHANGED <<chain, keymap, stored, debits, credits, pool, result, syncs,
                   restarts, notified>>

\* A remote call throws (network error, or getTx answers undefined and
\* tx.in / tx.toJSON throws): syncronize ends with what it has built.
SyncFail ==
    /\ sync.active
    /\ sync' = IdleSync
    /\ UNCHANGED <<chain, keymap, stored, txCache, coins, debits, credits, pool,
                   result, syncs, restarts, hist, notified>>
-----------------------------------------------------------------------------
(* generateTx(to, amount, change).  The transaction is built and signed in *)
(* memory and returned (pool); nothing in the Asset changes but the        *)
(* outcome.  isSpendable and value read _tx_cache: a coin whose            *)
(* transaction is not cached makes getTx return undefined and the next     *)
(* property access throw.                                                  *)

GenerateTx(to, amount, change) ==
    /\ Quiet
    /\ Cardinality(pool) < MaxPool
    /\ LET spendable == {c \in coins : IsSpendable(c)}
           total     == TotalScaled(amount)
       IN \/ /\ \E c \in coins : c[1] \notin txCache
             /\ result' = "TypeError"
             /\ UNCHANGED pool
          \/ /\ \A c \in coins : c[1] \in txCache
             /\ Scale * SumValues(spendable) < total
             /\ result' = "InsufficientFunds"
             /\ UNCHANGED pool
          \/ /\ \A c \in coins : c[1] \in txCache
             /\ \E order \in AscendingOrders(spendable) :
                  LET k == SelectCount(order, total) IN
                  /\ k > 0
                  \* change == undefined: the address of a random input
                  /\ \E i \in 1..k :
                       LET changeAddr == IF change = NoChange
                                         THEN OwnerOf(chain, order[i]) ELSE change
                       IN pool' = pool \cup
                                  {SignFrom(UnsignedTx(order, k, to, amount, changeAddr), 1)}
             /\ result' = "ok"
    /\ UNCHANGED <<chain, keymap, stored, txCache, coins, debits, credits, sync,
                   syncs, restarts, hist, notified>>

-----------------------------------------------------------------------------
(* Page reload: the constructor runs again on what localStorage holds.  A  *)
(* stored keymap is loaded (no stored keymap: a new key is generated and   *)
(* committed; a wallet exists only if that commit succeeds).  Every stored transaction is dropped on load because its    *)
(* blockheight is undefined (Tx.toJSON never writes it), so the cache      *)
(* starts empty; _coins, _debits and _credits start empty.                 *)

Restart ==
    /\ restarts < MaxRestarts
    /\ IF stored = NoStore
       THEN /\ \E a \in Addr : keymap' = (a :> "key")
            /\ stored' = keymap'
       ELSE /\ keymap' = stored
            /\ UNCHANGED stored
    /\ notified' = {}
    /\ txCache' = {}
    /\ coins' = {}
    /\ debits' = << >>
    /\ credits' = << >>
    /\ sync' = IdleSync
    /\ pool' = {}
    /\ result' = "none"
    /\ restarts' = restarts + 1
    /\ hist' = NoHist
    /\ UNCHANGED <<chain, syncs>>

-----------------------------------------------------------------------------
(* The environment: the chain grows by payments from outside, spends made  *)
(* outside this wallet (the same key used elsewhere, the owner of a        *)
(* watched address), and generated transactions the caller broadcasts.    *)

ChainRoom == Len(chain) < MaxChain

\* Someone outside pays v to address a.
Receive(a, v) ==
    /\ ChainRoom
    /\ chain' = Append(chain, MkTx(<< >>, << MkTxOut(v, CreateOutputScript(a)) >>))
    /\ UNCHANGED <<keymap, stored, txCache, coins, debits, credits, sync, pool,
                   result, syncs, restarts, hist, notified>>

\* An unspent output of a wallet address is spent outside this wallet, by
\* whoever else holds its key, to an outside address or to one of this
\* wallet's: a coin may move between addresses the wallet registers.
ExternalSpend(c, to) ==
    /\ ChainRoom
    /\ c \in Utxo(chain, Addr)
    /\ chain' = Append(chain, MkTx(<< MkTxIn(c, EmptyScript, SequenceFinal) >>,
                                  << MkTxOut(OutOf(chain, c).value,
                                             CreateOutputScript(to)) >>))
    /\ UNCHANGED <<keymap, stored, txCache, coins, debits, credits, sync, pool,
                   result, syncs, restarts, hist, notified>>

\* The chain accepts a transaction whose inputs are unspent outputs and
\* whose outputs do not exceed its inputs.
RECURSIVE SumOuts(_)
SumOuts(outs) == IF outs = << >> THEN 0 ELSE Head(outs).value + SumOuts(Tail(outs))
AcceptsTx(tx) ==
    /\ \A i \in DOMAIN tx.ins : tx.ins[i].prevout \in Outputs(chain) \ SpentBy(chain)
    /\ SumOuts(tx.outs) <= SumValues({tx.ins[i].prevout : i \in DOMAIN tx.ins})

\* The caller broadcasts a generated transaction: mined if the chain
\* accepts it, rejected (dropped) otherwise.
Broadcast(tx) ==
    /\ ChainRoom
    /\ pool' = pool \ {tx}
    /\ chain' = IF AcceptsTx(tx) THEN Append(chain, tx) ELSE chain
    /\ UNCHANGED <<keymap, stored, txCache, coins, debits, credits, sync, result,
                   syncs, restarts, hist, notified>>

-----------------------------------------------------------------------------
Next ==
    \/ \E a \in Addr : AddAddress(a)
    \* addKey of a key whose hash is new is what GenerateAddress does.
    \/ \E a \in DOMAIN keymap \cap Addr : AddKey(a)
    \/ AddAddressInvalid
    \/ GenerateAddress
    \/ PurgeTxCache
    \/ \E mode \in {"all", "coins"} : SyncStart(mode)
    \/ \E a \in KeyHashes : SyncDebits(a) \/ SyncCoins(a)
    \/ SyncCredits
    \/ SyncFail
    \/ \E amount \in Amounts, change \in {NoChange} \cup Addr :
         GenerateTx(Other, amount, change)
    \/ Restart
    \/ \E a \in Addr, v \in Values : Receive(a, v)
    \/ \E c \in Outputs(chain), to \in Addr \cup {Other} : ExternalSpend(c, to)
    \/ \E tx \in pool : Broadcast(tx)

Spec == Init /\ [][Next]_vars

-----------------------------------------------------------------------------
(* Properties.                                                             *)

(* TypeOK: the variables have their types; in particular every output    *)
(* generateTx builds has a value in Nat, which depends on its input loop  *)
(* taking enough coins before the change sum - total is computed.         *)
TypeOK ==
    /\ \A t \in 1..Len(chain) :
         /\ \A i \in DOMAIN chain[t].ins : chain[t].ins[i].prevout \in Coin
         /\ \A n \in DOMAIN chain[t].outs :
               /\ chain[t].outs[n].value \in Nat
               /\ GetOutType(chain[t].outs[n].script) = "Address"
    /\ \E D \in SUBSET KeyHashes : keymap \in [D -> {"key", "watch"}]
    /\ txCache \subseteq 1..Len(chain)
    /\ coins \subseteq Outputs(chain)
    /\ sync.pending \subseteq DOMAIN keymap
    /\ \A tx \in pool : \A n \in DOMAIN tx.outs : tx.outs[n].value \in Nat
    /\ result \in {"none", "ok", "InsufficientFunds", "TypeError"}
    /\ notified \subseteq KeyHashes
(* SyncUpper: every coin in _coins is an output on the chain, pays an      *)
(* address in _keymap, and was not already spent when the last syncronize  *)
(* started.  It is about syncronize clearing _coins first and subtracting  *)
(* the credits of each address from its debits while the chain moves.      *)
SyncUpper ==
    \A c \in coins :
        /\ c \in Outputs(chain)
        /\ OwnerOf(chain, c) \in DOMAIN keymap
        /\ c \notin hist.startSpent

(* SyncLower: when a syncronize has completed, _coins holds every coin of  *)
(* a registered address that was unspent when it started and was still    *)
(* unspent when it ended.  It is about the per-address results being      *)
(* merged into _coins, not replacing it, in both modes.                    *)
SyncLower ==
    hist.done => (hist.startUtxo \ hist.endSpent) \subseteq coins
(* SignaturesVerify: every input of a generated transaction carries the    *)
(* public key its previous output pays to and a signature by that key over *)
(* the hash a verifier computes from the FINAL transaction (connected      *)
(* script = previous output script).  It is about the signing loop of      *)
(* generateTx: inputs are signed one after another on a transaction that   *)
(* the loop keeps mutating, so each signature must not depend on the       *)
(* scripts of the other inputs, nor be taken before the outputs are added. *)
SignaturesVerify ==
    \A tx \in pool : \A i \in DOMAIN tx.ins :
        LET prev == OutOf(chain, tx.ins[i].prevout).script
            sig  == tx.ins[i].script[1].data
            pub  == tx.ins[i].script[2].data
        IN /\ Sha256Ripe160(pub) = SimpleOutPubKeyHash(prev)
           /\ sig.signer = Sha256Ripe160(pub)
           /\ sig.digest = HashTxForSignature(tx, prev, i, sig.hashType)

(* ValueConserved: in a generated transaction the inputs pay exactly the   *)
(* outputs plus the fee max(amount / 1000, 50000) of generateTx; in        *)
(* particular the change output carries sum - total.  It is about the fee  *)
(* arithmetic in floating point and the conversion of the change number    *)
(* into an 8-byte TxOut value.                                             *)
ValueConserved ==
    \A tx \in pool :
        Scale * (SumValues({tx.ins[i].prevout : i \in DOMAIN tx.ins}) - SumOuts(tx.outs))
            = FeeScaled(tx.outs[1].value)
(* KeyLossNotified: a private key the wallet held before a page reload and *)
(* has lost after it was reported to a caller as unstored: some call that   *)
(* put it in _keymap threw because commitKeymap failed, and no commit      *)
(* since stored it.  It is about the try/catch of commitKeymap (asset.js:  *)
(* 92-98), the wholesale rewrite of the stored keymap by every later       *)
(* commit, and the constructor loading only what was stored.               *)
KeyLossNotified ==
    [][restarts' = restarts + 1 =>
         \A a \in DOMAIN keymap :
             keymap[a] = "key" /\ ~(a \in DOMAIN keymap' /\ keymap'[a] = "key")
                 => a \in notified]_vars

(* KeysRetained: a private key, once in _keymap, stays there: no call      *)
(* turns a spendable address into a watch-only one or forgets its key      *)
(* (the coins it holds would become unspendable).  It is about addAddress  *)
(* writing undefined over whatever the hash held, and about a reload after *)
(* a commit that failed.                                                   *)
KeysRetained ==
    [][\A a \in DOMAIN keymap :
         keymap[a] = "key" => a \in DOMAIN keymap' /\ keymap'[a] = "key"]_vars


(* LedgerReadable: outside a syncronize, every transaction getLedger reads *)
(* with the one-argument getTx is cached: the transaction of each debit   *)
(* and credit, and the transaction whose output a credit spends.  It is   *)
(* about getLedger looking up the spent output of a credit, which the     *)
(* syncronize that pushed the credit need not have fetched.               *)
LedgerReadable == Quiet => ~GetLedger.threw

(***************************************************************************)
(* The refinement mapping to CoinSelection: the spendable coins of _coins  *)
(* with their values and owners, whether a coin of _coins is uncached, and *)
(* each built transaction as the coins it spends and what it pays to whom. *)
(***************************************************************************)
Summary(tx) ==
    [ins  |-> [i \in DOMAIN tx.ins |-> tx.ins[i].prevout],
     outs |-> [n \in DOMAIN tx.outs |->
                 [value |-> tx.outs[n].value, to |-> SimpleOutPubKeyHash(tx.outs[n].script)]]]

Selection == INSTANCE CoinSelection WITH
    Changes  <- {NoChange} \cup Addr,
    To       <- Other,
    Scale    <- Scale,
    wallet   <- [c \in {x \in coins : IsSpendable(x)} |->
                   [value |-> Value(c), owner |-> OwnerOf(chain, c)]],
    uncached <- \E c \in coins : c[1] \notin txCache,
    pool     <- {Summary(tx) : tx \in pool},
    result   <- result

(* SelectionRefined: generateTx implements the design's coin selection: it *)
(* fails only on an uncached coin or when all spendable coins fall short,  *)
(* and otherwise spends the smallest spendable coins in ascending order    *)
(* until the total is first reached, paying destination, auxiliary fee and *)
(* the exact change.  It is about the sort comparator, the break of the    *)
(* input loop and the order of the three addOutput calls.                  *)
SelectionRefined == Selection!Spec

(* SpendableBalanceCorrect: spendable_balance() returns the sum of the     *)
(* values of the coins in _coins that isSpendable accepts.                 *)
SpendableBalanceCorrect ==
    Quiet => SpendableBalance = [threw |-> FALSE,
                                 sum |-> SumValues({c \in coins : IsSpendable(c)})]
=============================================================================
