# TLA+ models of the libcoin JavaScript wallet

This directory holds TLA+ models of the browser wallet under
`src/applications/btcproxy/www/js/btc/` (`asset.js`, `tx.js`) and
`src/applications/btcd/www/js/btc/` (`script.js`, `base58.js`), together with
the TLC configurations that check them. The wallet is single-threaded,
synchronous JavaScript. Only two things change state outside its own calls:

- the ChainSource (the `sync` argument of `syncronize`), which answers
  remote queries from a block chain that keeps moving between those queries;
- `localStorage`, which survives a page reload and may refuse a write.

## Parts of the system and how they interact

| Part | Source | State | Operations |
|---|---|---|---|
| Wallet ledger `btc.Asset` | asset.js | `_keymap` (hash → private key or `undefined` for watch-only), `_txcache`, `_coins`, `_debits`, `_credits` | constructor (loads `localStorage`), `addAddress`, `addKey`, `generateAddress`, `purgeTxCache`, `syncronize` (both modes), `getTx`, `generateTx`, `balance`, `spendable_balance`, `getLedger` |
| Transactions `btc.Tx/TxIn/TxOut` | tx.js | values only | constructors, `clone`, `serialize`, `getHash`, `hashTxForSignature` |
| Scripts `btc.Script` | script.js | chunks and buffer | `parse`, `writeOp`, `writeBytes`, templates, `getOutType`, `simpleOutPubKeyHash` |
| `btc.Coin` | asset.js:1-36 | `<hash, index>` | `toString`, string parse |
| Base58, Address | base58.js (btcd), address.js (btcproxy) | values only | encode, decode, checksum |
| ChainSource | (caller) | the chain | `getDebitCoins`, `getCreditCoins`, `getCoins`, `getTx` |
| Store | `localStorage` | stored keymap and txcache | `setItem`, `getItem` |

`syncronize` clears `_coins`. It then asks the ChainSource, address by
address, for the debits, then the credits, then the transactions it does not
hold. `generateTx` selects coins from `_coins`, builds a transaction and signs
it input by input with `hashTxForSignature` of `tx.js`. That in turn uses the
script templates of `script.js`. Every state change of the keymap is committed
to `localStorage`. A commit that fails throws a ReferenceError to the caller,
because the catch block compares the error with the undeclared name
`QUOTA_EXCEEDED_ERR`. On reload the constructor reads the keymap back.

## Modules

- **Script.tla**: scripts as chunk sequences (`Op(n)`, `Data(d)`), the
  P2PKH templates, `GetOutType` and `SimpleOutPubKeyHash`, and the string form
  (`ScriptToJson`, `ScriptFromJson`: a token per chunk, a one-token string read
  as base64). Pure operators.
- **Tx.tla**: transaction records, `Clone` built from `CloneIn` (`TxIn.clone`
  through the TxIn constructor's sequence-0 rule), `Serialize` at field granularity, and `HashTxForSignature`
  as the composition of blanking, the hash-type rules and ANYONECANPAY.
  `SIGHASH_ANYONECANPAY` is 80, as the code writes it.
  The JSON form: `TxToJson` (Tx, TxIn and TxOut `toJSON`, the value as a
  string with 8 decimals, `FixedString`) and `TxFromJson` (the constructors,
  `StringToValue` skipping the "."; an input read back is final).
- **Asset.tla**: the wallet together with its environment.
  - Variables:
    - `chain`: the ChainSource as a sequence of transactions;
    - `keymap`: `"key"` or `"watch"` per hash;
    - `stored`: the keymap in `localStorage`;
    - `txCache`, `coins`, `debits`, `credits`;
    - `sync`: the progress of a running `syncronize`;
    - `pool`: the transactions `generateTx` returned;
    - `result`: the outcome of the last call;
    - `hist`: a history variable for the sync properties.
  - One action per wallet operation.
  - `syncronize` is split into the steps between its remote calls:
    - `SyncStart`: clear `_coins`;
    - `SyncDebits`: the `getDebitCoins` call, whose answer is held;
    - `SyncCredits`: the `getCreditCoins` call, then both loops (push the debits, the credits, fetch their transactions, merge into `_coins`), in mode "all";
    - `SyncCoins`: the `getCoins` call and its loop, in mode "coins";
    - `SyncFinish`;
    - `SyncFail`: the ChainSource throws.

    Splitting it this way lets the environment actions (`Receive`,
    `ExternalSpend`, `Broadcast`) run between the remote calls.
  - `Restart` is the constructor after a page reload.
  - `CommitKeymap` either stores the keymap or fails. A failure leaves the
    stored keymap as it was and adds the keys it did not store to the history
    variable `notified`, since the ReferenceError tells the caller.
  - `ExternalSpend` pays an outside address or one of the wallet's own, so a
    coin can move between registered addresses.
  - `GenerateTx` is one action, because it makes no remote call. It includes:
    - the `TypeError` path on an uncached transaction;
    - the `InsufficientFunds` path;
    - every sort order of equal-valued coins;
    - the floating-point fee and the `TxOut` number-to-BigInteger conversion;
    - the signing loop (`SignFrom`, RECURSIVE).
- **ScriptBuffer.tla**: `btc.Script` objects at byte level.
  - Variables:
    - `heap`: JavaScript arrays, so that sharing and in-place pushes are visible;
    - `buf`: the array each object's `buffer` refers to;
    - `chunks`: each object's chunk list;
    - `parsing`, `cursor`: the object whose constructor is inside `parse`, and that parse's variable `i`;
    - `trusted`: a history variable, true for an object built only by `new Script()`, the writers or a token string, whose array no one else shares.
  - `Iteration(b, i)` is one pass of the `while` loop of `parse`: the chunk it pushes and the cursor it leaves. JavaScript's semantics are kept:
    - `undefined` counts as 0 in a shift;
    - `slice` clamps at the end of the array;
    - the PUSHDATA4 length is a signed 32-bit number (`Signed32`), so a top bit set sends the cursor below 0;
    - below 0 every pass pushes `undefined` and adds 1; those passes are one step back to index 0;
    - PUSHDATA1 as the last byte makes `i` NaN, which ends the loop;
    - bytes ≥ 0xF0 start a two-byte opcode.
  - `ParseFrom` is the chunk list the loop builds, as a recursive function over `Iteration`. It is the reference `ParseAgrees` compares against.
  - Actions:
    - the constructors `New`, `FromBytes` (an array), `FromTokens` (a string of two tokens or more: each written by `writeOp` or `writeBytes`, no parse) and `Clone`;
    - `ParseIteration` (one pass) and `ParseExit` (the loop condition fails; `chunks` becomes what the passes pushed);
    - `WriteOp`, `WriteBytes`. `WriteBytes` pushes the header in place, then `concat` makes a new array.
  - While a parse runs (`~Idle`), no other action is enabled: a constructor runs to completion.
- **Base58.tla**: `Encode` and `Decode` of base58.js as RECURSIVE operators on byte sequences and alphabet indices. An index of -1 stands for a character outside the alphabet, which is what `indexOf` returns. `RefEncode` and `Valid` are the design's reference codec (section 4.1).
- **Address.tla**: `AddrToString` and `DecodeString` of address.js, with the hash length, the checksum length and the checksum as constants. The name `toString` clashes with TLC's operator, hence the `Addr` prefix.
- **MC_ScriptBuffer.tla**: symmetry over the script objects.
- **MC_Codecs.tla**: a harness for the value codecs. `Init` picks a mode, and only that mode's input grows:
  - `base58`: a byte string and a string, one symbol at a time;
  - `address`: a hash, one byte at a time, with version 0 or 1;
  - `sighash`: `tx2`, edited one input or output at a time, against the fixed `tx1`;
  - `json`: `tx2`, edited the same way, written with `TxToJson` and read back with `TxFromJson`.

  `MC_Checksum` is an arithmetic stand-in for double SHA-256. `Covered` is the design's and Bitcoin's account of what a signature with a given hash type commits to.
- **CoinSelection.tla**: an abstract specification of what `generateTx` promises, written from the design (section 4.6, selectCoinsAndBuildTransaction).
  - The wallet is seen only through `wallet` (the spendable coins with value and owner) and `uncached`.
  - A built transaction is seen as the coins it spends and the values and addresses it pays.
  - `Generate` may fail on an uncached coin. It reports InsufficientFunds only when all spendable coins fall short of amount + fee + auxiliary fee. Otherwise it adds a transaction with these properties:
    - it spends spendable coins in ascending value order, none larger than a coin left out;
    - it stops as soon as the total is reached;
    - it pays destination, auxiliary fee and the exact change, in that order.
  - Every other step may change the wallet freely but leaves the built transactions and the outcome alone.

  `Asset` instantiates it as `Selection` with a refinement mapping:
  - `wallet` ← the spendable coins of `coins` with `Value` and `OwnerOf`;
  - `uncached` ← some coin of `coins` whose transaction is not in `txCache`;
  - `pool` ← the `Summary` of each generated transaction.

  `SelectionRefined == Selection!Spec` is checked as a PROPERTY.
- **MC_Asset.tla**: model values and small definitions for the `.cfg`
  files. `Addr` is a symmetry set: the wallet only compares hashes for
  equality.

Coins are `<<txid, n>>`, where `txid` is the position of the transaction in
`chain`. Hashes, public keys, signatures and digests are injective records,
so a signature verifies exactly when its digest is that of the spending
transaction.

## Runs

| run | cfg | expect | bounds | what it shows |
|---|---|---|---|---|
| sync | MC_Asset_sync.cfg | pass | 2 addresses, chain ≤ 3, 2 syncs, no reload | `SyncUpper`: `_coins` holds only outputs of the chain to a registered address that were not spent before the call. `SyncLower`: a completed call finds every coin unspent throughout it. Both hold across payments and spends between the remote calls and a failure part way. |
| reload | MC_Asset_reload.cfg | pass | chain ≤ 1, 1 sync, 2 reloads, `setItem` may fail | `KeyLossNotified`: a key held before a reload and missing after it had been reported to a caller as not stored. The mutant that swallows the error, as the catch block means to, breaks it. |
| generate | MC_Asset_generate.cfg | pass | chain ≤ 3, 1 sync, 1 generated tx, values {2,4}, amount 1; VIEW without `debits`, `credits`, `hist`, `notified` | `TypeOK`, including that every output value generateTx builds is in Nat. `SignaturesVerify`: each input's signature is over `hashTxForSignature` of the final transaction. `SelectionRefined`: the run implements `CoinSelection`. |
| keys | MC_Asset_keys.cfg | violation | chain ≤ 2 | `KeysRetained` fails: `addAddress` overwrites a private key. |
| fee | MC_Asset_fee.cfg | violation | value 10, amount 15, fee in tenths | `ValueConserved` fails: a fractional fee corrupts the change output. |
| ledger | MC_Asset_ledger.cfg | violation | chain ≤ 3, no purge | `LedgerReadable` fails: a coin received and spent between the debit and credit queries. |
| balance | MC_Asset_balance.cfg | violation | chain ≤ 3 | `SpendableBalanceCorrect` fails: `this._coin` is undefined. |
| script_codec | MC_ScriptBuffer_codec.cfg | pass | 2 objects, ≤ 2 writes or tokens each, lengths {1,75,76,255}, opcodes {0,172}, wire buffers ≤ 2 bytes over {1,118} | `ParseAgrees`: a script built by the writers or from tokens parses back to its chunks, alongside clones and scripts read from the wire. |
| script_roundtrip | MC_ScriptBuffer_roundtrip.cfg | violation | 1 object, length 256 | `ParseAgrees` fails: the PUSHDATA2 length is written little-endian and read big-endian. |
| script_hang | MC_ScriptBuffer_hang.cfg | violation | wire buffers ≤ 2 bytes over {78,128}; `FairSpec` | `ParseReturns` fails: in `new Script([78,128])` the cursor goes to 6 - 2^31, climbs back to 0 and parses the same bytes again, forever. |
| codecs | MC_Codecs_codec.cfg | pass | bytes ≤ 3 over {0,1,57,58,255}; strings ≤ 4 over {invalid,'1','2','z'}; every 2-byte hash; hash types ALL and NONE, 2 coins, sequences {5,255}, values {10,11} | `Base58Inverse`. `AddressRoundTrip`, including that a changed checksum byte or another version byte is refused. `SighashCommits`: the digest changes exactly when a covered part changes. |
| sighash_anyonecanpay | MC_Codecs_anyonecanpay.cfg | violation | hash types 0x81, 0x82 | `SighashCommits` fails: the code tests ANYONECANPAY as 80 = 0x50, so 0x81 still commits to every input. |

Why these bounds are enough:

- Two addresses make the order of the per-address loop matter. In the sync
  run a coin can move from an address already queried to one not yet
  queried, through `ExternalSpend` to a wallet address.
- A chain of three transactions allows a payment, a spend of it, and a
  second payment during one sync.
- Two syncs show the effect of the previous run's `_debits` and `_credits`.
- The fee arithmetic is scaled: amounts are in units of 1/10^`FeeDecimals`
  of the code's satoshi. The code's constants 1000 and 50000 become
  `MinFee`/`BrokerFee` in these units. Amount 15 with one decimal gives the
  fractional fee 1.5 that the code produces for amounts such as 50,001,500.

- The Base58 byte values 57, 58 and 255 sit on both sides of a digit boundary. Three bytes give values up to 2^24, which need up to five digits, and leading zero bytes.
- The script lengths 75, 76 and 255 are the edges of the one-byte and PUSHDATA1 classes.
- Two-byte address hashes cover hashes with leading zeros and the all-zero hash. These are the cases where the version byte and Base58's leading-zero rule meet.
- The sighash model has two inputs and two outputs. That is enough for an input other than the signed one to be blanked or kept.

Every action and every disjunct of `Next` is fired by the passing runs.

## Fairness

The wallet's operations are calls by its user interface, and nothing in the
code makes a call happen: callers, the chain and reloads get no fairness, and
no run of `Asset` checks liveness. A `syncronize` is a loop over the finite
`_keymap` with synchronous calls, so that it returns is not in question.

The `while` loop of `Script.prototype.parse` is the one place where
termination depends on the data. It is synchronous code that nothing
interrupts, so `FairSpec` of `ScriptBuffer` is `Spec /\ WF_vars(ParseFairness)`,
a pass or the exit of the running parse. `ParseReturns` fails under it in
script_hang. TLC's liveness checking is not sound under symmetry, so that
run has none.

The generate run uses a VIEW: `debits`, `credits`, `hist` and `notified` feed
no guard, no other variable and no property of that run, so states that
differ only in them have the same futures.

## Findings

- `addAddress` erases private keys (asset.js:133).
- A fee that is not a whole number gives a change output 10^k times too
  large (asset.js:369 with tx.js:406-410).
- `getLedger` throws after the debit/credit race (asset.js:207). `GetLedger` models the method: an entry per debit and per credit, read through the one-argument `getTx` (`Cached`). The outputs of `GenerateTx` are built by `AddOutput` (`Tx.addOutput` with a Number value), and the change address by `OwnerOf` (`getAddress`).
- `spendable_balance` always throws when a coin is spendable (asset.js:334).
- `writeBytes`/`parse` disagree on PUSHDATA2 byte order (script.js:94 against 201-202).
- `parse` never returns on a PUSHDATA4 length with its top bit set (script.js:98): a liveness violation under a fair parse loop.
- `SIGHASH_ANYONECANPAY` is 80, not 0x80 (tx.js:125).

Cases where a checked property fails outside the bounds of a run. They are listed as hazards in PROJECT.json:

- `writeBytes([])` writes the byte 0, which parses as OP_0.
- `writeOp` of an opcode ≥ 0xF0 parses as a two-byte opcode.
- Base58 `encode([])` is `"1"`, which decodes to `[0]`.
- `decode` accepts characters outside the alphabet as the value -1.
- `clone` shares the buffer array.
- `TxIn` turns sequence 0 into 0xFFFFFFFF, so the signature hash misses a change to it (`SighashCommits` with 0 among the sequences).
- A transaction read back from its JSON form has every input final (`TxIn.toJSON` drops the sequence, tx.js:371), and a one-chunk script comes back as base64 bytes (script.js:18). `TxToJson` and `TxFromJson` model both conversions. The design (section 6) wants the stored JSON to mirror the fields, so a round-trip property would be violated by the code and needs a violation run. Every run slot is taken.
- A coin moved between two wallet addresses during a `syncronize` is counted twice. The sync run reaches this case, and `SyncUpper` and `SyncLower` allow it, because the coin counted twice was spent after its address was queried.

## What is not modelled, and why

- `signWithKey`'s `MissingKey` path. `generateTx` selects only coins whose
  owner has a key, in the same synchronous call, so the path cannot be
  reached.
- A ChainSource failure inside the loops that follow `getCreditCoins`. `SyncFail` aborts
  between `getDebitCoins` and `getCreditCoins`, or after a whole address. The partial loop leaves a subset of what the
  whole step would add, and that subset is covered by the same bounds.
- The stored `_txcache` in `Asset`. The constructor drops every stored transaction,
  because `blockheight` is never serialized, so a reload always starts with
  an empty cache. The JSON conversion it goes through is modelled in `Tx`
  (`TxToJson`, `TxFromJson`), and what it loses is listed above.
- The order of `for (addr in _keymap)`. The model over-approximates it by
  letting the next address be any one not yet queried.
- Byte encodings, ECDSA and SHA-256 are kept abstract as injective
  functions. `Crypto`, `ECKey`, `Opcode` and `Util` are not in `src/`.
- `Tx.analyze`, `calcImpact`, `getDescription`. They test `wallet instanceof btc.Wallet`, and nothing in the repository defines `btc.Wallet`, so they can only throw. `Tx.getTotalValue` and the two-argument `addInput` have no caller.
- The order `getLedger` sorts its entries into. `GetLedger` keeps the loop order. Which order equal entries end in depends on the browser's `Array.prototype.sort`, and the comparator compares hash arrays as comma-joined decimal strings (hazard at asset.js:216).

- The bytes `base64ToBytes` makes of a one-token script string. `ScriptFromJson` keeps the token as an opaque chunk, which is no script the token was written from. Hex tokens are taken as the byte arrays they decode to, and opcode names as their opcodes.
- `Tx.toJSON`'s `hash`, `vin_sz`, `vout_sz` and `size`. The constructor keeps `hash` but nothing reads it back, and it ignores the other three.
- The one-argument `Coin` string parse (asset.js:10). Nothing in `src/` calls it, so it is not a hazard of this program.
- `SIGHASH_SINGLE`: the code does not special-case it. The design wants a failure for it (hazard at tx.js:157).

## Plan for later sittings

1. Ledger ordering and duplicate ledger entries after repeated syncs. No run slot is free for a new violation run: the stale-coin broadcast (asset.js:374) and SIGHASH_SINGLE (tx.js:157) are hazards with notes.
2. Sync atomicity on failure (the pre-or-post snapshot rule).
3. An abstract UTXO view of the wallet that `Asset`'s syncs refine.
