# A TLA+ verification of the Bitcoin canister and its examples

The repository contains a canister for the Internet Computer that follows the Bitcoin
chain, keeps a UTXO set and answers `get_utxos` and `get_balance` (`canister/`), example
wallets on top of it in Rust and Motoko (`examples/`), a bank that mints a token against
balances held by wallets (`examples/motoko/bank/`), and key utilities (`tests/`). This
directory specifies the chain state, the two programs that feed it (the canister with its
shim, and the sync demo with its state file), the two wallets, and the bank with its account
factory; it checks them with TLC and proves their central safety properties with TLAPS.

Paths below are relative to the root of the repository.

## 1. Inventory

| Component | State | Operations | Hard part | What makes it correct |
|---|---|---|---|---|
| Block forest, `canister/src/blockforest.rs` | `delta`, a vector of trees of unstable blocks | `push`, `pop`, `get_current_chain`, `get_blocks` | blocks before their parents, forks, blocks again after they became stable; trees moved by index | no reachable block lost; edges are hash links; a block is stable only by the definition at lines 6-8; the current chain is the longest uncontested one |
| UTXO set, `canister/src/utxoset.rs` | `utxos`, `address_to_outpoints`, `strict` | `insert_tx`, `get_utxos`, `into_set` | two maps updated side by side; two historical duplicate transaction ids; panics half way through a block | content is what the chain leaves unspent; the index agrees with the map; no panic on valid blocks |
| Chain state, `canister/src/store.rs` | height, anchor, UTXO set, forest | `insert_block`, `get_utxos`, `get_balance`, `main_chain_height` | stable and unstable blocks combined; heights and confirmations | stability is final; the view of an address is a replay of the confirmed chain |
| Bitcoin canister, `canister/src/main.rs` | `STATE`, `OUTGOING_TRANSACTIONS` | the public and the shim's endpoints | update calls executed after their caller died | transactions leave once and in order |
| Adapter shim, `canister/src/adapter-shim.rs` | position in its loop, request, fetched transaction | the loop: query, adapter, response, outgoing | every await is unwrapped; adapter errors; stale queries | blocks reach the canister; no transaction stays queued |
| Sync demo, `canister/src/sync_demo.rs` | the chain state behind a read-write lock; a file | a sync thread; `utxos`, `balance`, `save`, start from a file | the state read for a request is stale when the answer is inserted; restart from an old file | a reload continues the saved chain |
| Block and state encoding, `canister/src/block.rs`, the `to_proto`/`from_proto` pairs | none | conversions | nested trees; an index that is not saved but rebuilt | a state that was loaded behaves like the one that was saved |
| Rust wallet, `examples/rust/src/main.rs` | `SPENT_TXOS`, key, canister id | `send`, `balance`, `get_utxos` | `send` awaits the view, then filters and records | no outpoint spent twice; none set aside for a transaction never sent |
| Transaction building, `examples/common/src/lib.rs` | none | `build_transaction`, `sign_transaction` | `u64` arithmetic of fees and change | inputs = outputs + fee + dust |
| Motoko account, `examples/motoko/src/Account.mo` | key, owner, spent outpoints | `send`, `btc_address`, `transfer_canister`, ... | six awaits in `send`, key generated lazily behind an await | an outpoint is spent twice only by overlapping calls; the key that signs unlocks the inputs |
| Account factory, `examples/motoko/src/BTConICP.mo` | signing key | `createAccount` | a chain of awaits over three canisters; signing and setting a signature are open to every caller | `createAccount` signs only what the factory has given up control of; no signature is forged |
| Bank, `examples/motoko/bank/main.mo`, `cash.mo` | tokens minted, in all and per account; a cash canister per token | `notifyBitcoinContainerDeposit`, `mint_cash` | counter read before an await and used after it; a loop of awaits that may throw half-way | minted never exceeds what an account held; counts agree with the cash there is |
| Key and address utilities, `tests/*.mo` | none | base58, WIF, management calls | none | pure functions |

Vendored libraries (`.vessel/`), generated declarations and frontend assets are not part
of the system's own logic.

### How they interact

The shim polls the canister (`get_successors_request`, a query), passes the hashes to the
Bitcoin adapter over gRPC, and submits the adapter's blocks in an update call
(`get_successors_response`), which inserts them one by one with `State::insert_block`. Each
insertion pushes a block into the forest and then pops at most one stable block, whose
transactions enter the UTXO set. Users call `send_transaction`, which only queues; the shim
fetches one queued transaction per round (`get_outgoing_transaction`) and hands it to the
adapter. The wallets call `get_utxos` and `send_transaction`; the bank calls the wallets.
The sync demo drives `State` directly from a thread.

A canister executes one message at a time, and a message that panics leaves no trace. The
interleavings are therefore between messages: of users, of the shim, and of a shim that
died after it had submitted a call with its own successor.

### Hazards

`PROJECT.json` lists, at its line, everything in this code that is hard to test, with the
properties that cover it. The heart of the list: the order in which blocks arrive
(`take_tree` at `blockforest.rs:148`, the reordering in `pop` at 31), blocks delivered again
after they became stable (70), transactions inserted at the height before the increment
(`store.rs:126`), the panics of the UTXO set in the middle of a block, the index by address,
a shim that dies between two awaits, a process that goes on from a saved state, concurrent calls of
the wallets' `send`, which in Motoko awaits between filter and record (`Account.mo:151`), a key
generated behind an await (73), the arithmetic of fees and change, and the bank's counter, read before
an await and used after it (`main.mo:86`), in a loop that may throw.

## 2. Modules

| Module | Models | Built on |
|---|---|---|
| `BlockForest` | `blockforest.rs`, as operators on vectors of trees | |
| `UtxoSet` | `utxoset.rs`, as operators on a UTXO set | |
| `BitcoinState` | `store.rs`: state, `insert_block`, the views; three disciplines of delivery | `BlockForest`, `UtxoSet`, `FinalChain` |
| `FinalChain` | nothing: the abstract promise, a chain of final blocks | |
| `ChainProperties` | nothing: reference definitions and properties of the chain state | `BitcoinState` |
| `BitcoinAdapter` | external: the adapter as its clients see it | `ChainProperties` |
| `BitcoinCanister` | `main.rs`, `adapter-shim.rs` | `BitcoinAdapter` |
| `StateFile` | `to_proto` and `from_proto` of `block.rs`, `blockforest.rs`, `utxoset.rs`, `store.rs` | `BitcoinState` |
| `SyncDemo` | `sync_demo.rs` | `BitcoinAdapter`, `StateFile` |
| `TransactionBuilding` | `build_transaction` of `examples/common/src/lib.rs`, on words | |
| `RustWallet` | `send` of `examples/rust/src/main.rs` | `TransactionBuilding`, `SpendOnce` |
| `SpendOnce` | nothing: the abstract promise of a wallet | |
| `CommonCanister` | `examples/common/src/main.rs` and `sign_transaction`: keys, addresses, signatures | `TransactionBuilding` |
| `MotokoAccount` | `Account.mo`: `send` and whatever generates or uses the key | `CommonCanister` |
| `AccountFactory` | `BTConICP.mo`, and of `Account.mo` what the factory and the bank see of an account | |
| `Bank` | `bank/main.mo`, `cash.mo` | `AccountFactory` |
| `MC...` | the instances for TLC, one for each system | |
| `DataLemmas` | nothing: lemmas about finite sets, orders, sums and folds | |
| `ChainDataProofs` | nothing: lemmas about the operators of `BlockForest` and `UtxoSet` | `BitcoinState`, `DataLemmas` |
| `...Proofs` | proofs, one module for each other component that has any | `DataLemmas` |

### From code to model

- **A block is its hash.** `Blocks` is the universe of blocks the network can serve, `Prev`
  the header field, `Txs` the transactions. Two blocks with one hash are one block.
- **A tree** (`struct BlockTree`) is a set of nodes, a node being a block at a position,
  the sequence of child indices from the root. This keeps everything the nested
  vectors keep (order of children, duplicates) while depth, lookup, grafting and the list
  of chains become set expressions without recursion. `Find` is the depth-first `find_mut`,
  `Graft` is `children.push`, `Subtrees` is the child vector that `BlockTree::pop` returns.
- **`Push`** keeps the order of the code: first `take_tree` (the *first* follower only), then
  the first tree that `extend` accepts, else a new tree at the end. `extend` returns `Ok`
  for a block the tree already has, and the taken tree is then grafted onto that copy.
- **`Pop`** keeps the two stable partitions: attached trees sorted by depth, then detached
  ones, also when nothing is stable. When a block becomes stable, the detached trees come first, the
  children of the popped tree follow, and the other attached trees are dropped.
- **`Insert`** is `insert_block`: push, pop, the assertion that the popped block follows the
  anchor, the transactions at the height *before* the increment, and the increment. One
  block at most becomes stable per call, even if more are.
- **The UTXO set** is a record of the map and the index. A panic sets `panicked`; the
  action that finds it (`InsertBlock`, `ExecuteResponse`) keeps the state as it was, since the
  replica rolls a trapped message back. `RemoveSpent` has the four outcomes of the code: a missing
  outpoint is a panic only if the set is strict, and so on.
- **The views**: `GetUtxos` takes the part of the set that belongs to the address, replays the
  unstable blocks with enough confirmations over it with a set that is not strict, selects the
  address again and filters by confirmations.
- **The shim** is a program counter (`shim`) over the steps between two awaits. `calls` holds
  the update calls that were submitted and not executed. `Crash` covers every `unwrap` on a
  failed await and kills: calls stay, nobody waits for them any more.
- **The wallet**: a call of `send` is a program counter and two locals. Up to the first await the amount is
  checked; the answer of the Bitcoin canister is any set of the wallet's outputs, in any order,
  since the chain lags behind the wallet and may be reorganised, and the canister collects the answer
  from a hash set; the message after it filters, builds, records and sends (`BuildAndRecord`) or
  traps without a trace (`BuildFails`). The result of the second await is not looked at.
- **Words**: `Wrapped` is `% WordSize` wherever the release build wraps. That `total_spent` itself cannot
  wrap follows from the number of satoshis (`store.rs:57-60`), which `SupplyAssumption` bounds.
- **The Motoko account**: a call is the function it executes (`op`) and what it waits for (`step`). The
  actions are the messages between two awaits, which other calls may come in between of: `FirstUse`,
  `GenerateReturns`, `StoreKey`, `AddressReturns` for `btc_address`; `GetUtxosReturns`, which filters;
  `BuildReturns`, which records, and hands the transaction to be signed with the key stored *then*;
  `SignReturns`, `SendReturns`. `AwaitFails` ends a call at any await and keeps what it did. A key is an
  abstract value that stands for both its WIF text and its bytes; an address determines its key.
- **Factory and bank**: `creation[c]` and `step[d]` are the positions of `createAccount` and of
  `notifyBitcoinContainerDeposit` among their awaits. A signature is the account it names and the key that made it, and
  `published` are those the factory's keys have made: `CreateReturns` sends one to its account, in a message that is not awaited,
  and `SignOutside` is `sign_message` called by anybody, or a signature by a caller of `generate_private_key`, to whom
  it returns the key. `SetSignature` is `set_parent_signed_accountId`, which looks at no caller: it sets any published
  signature, one by another key, or none, at any account and any time. The factory's own message is one of its steps, and may
  thus come late or never. `InstallAccount` is an account canister that the factory did not create. `Verified` is
  `verify_message`, with the key the factory has when it runs. `ReadMinted` and
  `BalanceReturns` are the two halves of `get_difference`; `CashCreated`, `CashSigned` and `CashMinted`
  one round of the loop over `mint_cash`. `Throws` ends a call at any await. A key is a number, 0 if there is
  none or, in a signature, if it is not the factory's; a cash canister is its owner and its signature.
- **The sync demo**: `task` is the position of the syncing task. `saving` holds while the main thread has
  the lock to save: `SaveBegins` empties the file, `SaveEnds` writes the message, and `Kill` may come in
  between. `StateFile` translates the state to messages and back. A message of a tree is, like the tree, the set of
  its nodes at their positions, since both conversions map every vector of children in order; blocks come back from header and
  transactions, the index by address from inserting the outputs in the order of a hash map, which may be any.
- **History variables**: `issued`, `stable` (the stable blocks), `delivered`, and in `BitcoinCanister`
  `accepted`, `forwarded`, `lost`; in `MotokoAccount` `generated`, `raced`, `seen`, `built`; in `Bank`
  `covered`, `peak`, `direct`, `overlapped`, and in `AccountFactory` `signedOutside`. `SyncDemo` keeps `stable` and `delivered` with the file. No guard of the code's steps reads them except where the
  environment is bounded (each transaction is sent once).

### Assumptions about the outside

- `NetworkAssumption` (in `ChainProperties`; TLC evaluates it on every instance): every block ends a chain from genesis
  on which every input was created earlier and is spent once, and only the transactions of `DUPLICATE_TX_IDS` occur twice. The
  adapter passes blocks on that a Bitcoin node accepts. The two historical duplicates pay to a
  bare public key, for which `Address::from_script` returns `None`; with an address the
  index would hold the outpoint twice.
- `HashAssumption`: no chain of hashes comes back to where it started, nor goes down for ever.
- `SupplyAssumption` (in `RustWallet`): all outputs of the wallet together are fewer satoshis than there are words
  (`store.rs:57-60`).
- The adapter answers with blocks that connect to the request or to an earlier block
  of the answer. `BitcoinState!Spec` assumes nothing of the kind: any block at any time.
- `raw_rand` never returns the same bytes twice, and different keys have different addresses
  (`CommonAssumption`): P2PKH without collisions.
- Only the holder of a key makes its signatures, and a signature is good for one account. Who may hold a key, ask for a signature or
  set one is left as open as the code leaves it. The accounts that are notified run the code of `Account.mo`.
- `SpecOnce` delivers every block at most once, in any order; `SpecInOrder` also after its
  parent. They are used for properties that need the discipline and for the runs that
  show which discipline a documented statement needs.

## 3. Runs

The universe of `MCBitcoinState` is drawn at the head of that module: twelve blocks with three forks, one
of which forks again. The transactions exercise a spend on two branches by the
same transaction, a different spend on a third, a spend of an output created
in the same block, a transaction with two inputs, an output to no address, and a duplicated
coinbase.

| Run | Specification, bounds | Question |
|---|---|---|
| `chain_any_order` | `Spec`; 8 blocks, delta 2 | Blocks in any order, any number of times: are the types, the stable chain, the trees, the UTXO set, the index and the views right, does insertion ever panic, when is a block above the anchor lost? |
| `chain_in_order` | `SpecInOrder`; 10 blocks, delta 2 | Blocks after their parents: is the current chain what the longest delivered chains have in common, is any block above the anchor lost, and does a block become stable exactly by the written definition? |
| `canister_loop` | `SystemSpec`; 4 blocks, 2 transactions, answers of at most 2 blocks, 1 death | Canister, shim and adapter together: are transactions in one place, in order, once? Do blocks reach the canister, and do transactions leave it? |
| `stabilises_out_of_order` | `SpecOnce`; 10 blocks, delta 2 | Does the definition of stability survive out-of-order delivery? It does not. |
| `redelivery_after_crash` | `SystemSpec`; 3 blocks, 1 death | Does the current chain survive a second delivery? It does not. |
| `min_confirmations` | `SpecInOrder`; 10 blocks, delta 1 | Do all returned outputs have `min_confirmations`? They do not. |
| `rust_wallet` | `RustWallet!Spec`; 3 outputs, 2 concurrent calls, 4 amounts, 5-bit words | Concurrent `send`s over late answers: is any output spent twice, is exactly what is spent set aside, are fees and change right when they can be, does every call end? |
| `fee_not_covered` | the same | Does every transaction leave the fees? It does not. |
| `contested_tip` | `SpecInOrder`; 10 blocks, delta 2 | Is the tip of the current chain uncontested? It is not. |
| `motoko_account` | `MotokoAccount!Spec`; 2 concurrent calls, as in `MCMotokoAccount` | Do only overlapping calls of `send` spend an output twice? Does the key that signs unlock the inputs? Does every call end? |
| `bank` | `Bank!Spec`; 1 account, 2 customers, 1 creation and 2 calls of the bank at a time, at most 2 cash canisters, 2 keys of the factory | Is what is minted backed by what was held, does a deposit make up for one that threw, are the counts right, is only an account that the factory signed for minted for, whatever signatures anybody sets? |
| `sync_demo` | `SyncSpec`; 7 blocks, delta 2, answers of at most 2 blocks, 2 processes | Is a state that was saved and loaded, at any moment, one that still indexes, inserts and stabilises as it should? Is no block of the adapter missed? |

**Why the bounds are enough for what the runs ask.** Delta 1, of `canister_loop`, is the canister's own value
(`main.rs:21`). Delta 2 is the least with which a tree deeper than its competitor is not yet stable,
a fork survives below the tip, and a block that comes again may become the root of a second tree; the demo's 6
differs in length only, and the invariants proved in section 5 hold for every delta. With 8 blocks a chain of six
competes with forks at two heights, so that blocks become stable, forks are
dropped, trees are taken, detached trees remain, and blocks are delivered again; the order
of delivery is unrestricted, and the reachable states are finite because a tree refuses
blocks it has. The eight blocks of `chain_any_order` are as many as it takes to lose a block: `DescendantsKept` is false
there, `LostOnlyToTwins` says when (section 4). In `canister_loop`, answers of two blocks are needed for a message that
inserts several blocks, one death for a call that outlives its shim, two
transactions for their order.

`rust_wallet` reuses its two call slots without limit; it is finite because every transaction spends an
output. Three outputs let two calls hold overlapping and different answers, with a third
that may cover either. Fee and dust threshold are equal, as in the code; the values 3, 5 and 9
with the amounts 3, 5, 7 and 31 reach a change of exactly the threshold, one below it, an exact cover, an amount
covered without its fee, and a sum of amount and fee that wraps.

`motoko_account` has two calls at a time, without limit to their number as long as there are keys and outputs: two
is what a race takes. In `bank`, balances of 1 and 5 with 2 satoshis to a token stand for a balance that covers
nothing, and one that covers two tokens with a rest; they rise and fall at will, so that a difference is 2, 1 after a loop that
threw half-way, 0, or negative. `MaxKeys` 2 lets a second factory key make the first signature obsolete, before or
after the bank has read it; signatures that are not the factory's stand for those of other accounts, which `Verified` refuses the
same way. `MaxReserveKeys` is 1, since nothing reads which key signed a token. `MaxCash` 2 leaves room for a loop of two rounds,
for one that another call makes up for, for a canister that is never signed, and for two overlapping deposits that take
turns. More accounts, keys, tokens and calls are the theorems' (section 5). `CreateAccount` stops when every principal has an
account. `Calls` and `Customers` are symmetric, and `bank` checks invariants only, for which symmetry is sound. That its
calls end is not checked: no call waits for another, and the loop is bounded by `DepositOnCourse`.

In `sync_demo` two processes (`MaxStarts`) make one that saves and one that loads. The seven blocks have a fork
at the anchor and one inside a tree, so that forests of several trees and trees with several children are saved, and both
the second tree and the second child decide what becomes stable later. The hash map is written in every
order there is. A file is also saved between two insertions, and overwritten.
The adapter has all blocks from the start; one that it has yet to download is one it does not serve yet.

`CHECK_DEADLOCK FALSE` appears in the runs of `SpecInOrder` and `SpecOnce`: once every block
has been delivered, nothing is left to do; and in those of `SyncDemo`, where the last process may have been
killed. In the other runs deadlock is checked.

**Fairness**. In `RustWallet`, weak fairness of each call's answer and continuation: the Internet Computer answers
every call, with a reject if need be. Users need not call. `MotokoAccount` assumes the same; `Bank` states no fairness. In `SystemSpec`: The shim is a loop without a blocking condition of its own, so each of its
steps is weakly fair; a dead shim is started again (`Restart`); the replica executes calls
that somebody waits for. An adapter that has blocks and is asked for ever serves some
eventually (strong fairness of `ServeBlocks`): it may fail or answer with no
blocks any finite number of times in between. Nothing is assumed of calls whose shim has died,
of users or of the network. Liveness is stated from `available` and from `accepted`
on, never that they grow. In `SyncSpec` likewise: the task is a loop, the adapter is strongly fair, and two facts are
stated of states rather than actions, to spare TLC an ENABLED of insertion and encoding. `[]<>~saving`: a save
ends, since it only writes a file. `[]<>(task # "insert")`: the task gets the write lock between two saves, since
the main thread waits for a line of input without the lock; that it could not stay there for want of an enabled
insertion is `NextInsertSucceeds`. No process is assumed to be started.

**What the properties say.**

- `StableChainLinked`, `TreesLinked`, `StableChainIsFinal`: the hash chain, the hash links in
  every tree, and the refinement of `FinalChain` (at most one block per call, never one taken back).
- `UtxosAreReplay` compares the UTXO set with a definition on sets that knows no order of
  insertion: created and never spent on the stable chain, last duplicate wins. It records
  that heights of stable outputs are one too low.
- `IndexMatchesUtxos`: exactly the outpoints with a known address are indexed, once.
- `NextInsertSucceeds`: in every reachable state every block can be inserted without a panic,
  which makes the traps of the UTXO set and the assertion of `insert_block` unreachable.
- `ViewIsReplay`: `get_utxos` and `get_balance`, for every address and every number of confirmations
  up to one more than the current chain has blocks, equal the set definition on the confirmed
  chain.
- `ReportedHeights`: no underflow in `main_chain_height - height + 1`; the error in the height
  is at most one.
- `DescendantsKept`: of blocks that come once, in whatever order, none that descends from the anchor is lost.
- `LostOnlyToTwins`: of blocks that come again, one that descends from the anchor is lost only if two trees above the
  anchor have the same root: `push` starts a second tree for a block that is not in the first tree it finds.
- `CurrentChainIsLongest`, `StabilisesByDefinition`: agreement with the delivered blocks,
  defined without trees.
- `TransactionsInOrderOnce`, `TransactionsLeaveCanister`, `BlocksReachCanister`: the queue and
  the loop. A transaction may be lost (death between the fetch and the send, or an adapter
  error): the properties say that this is the only way not to reach the adapter.

- `SpendsOnce` (refinement of `SpendOnce`), `SpentAreIssued`, `FeesPaidIfCovered`, `SendsEnd`: the wallet. The
  last-but-one compares the fee a transaction leaves, computed in plain integers over the chosen
  inputs, with what the outputs on offer would have allowed.

- `DoubleSpendsOverlap`: the Motoko `send` records what is spent after an await, so that two calls may spend the same
  output; the property says that nothing else leads there: the later transaction's call filtered its UTXOs
  before the earlier one was recorded.
- `InputsUnlocked`: address and signing key are read in different messages, and `generate_private_key` may come in
  between; if one call generated the first key, every input is unlocked nevertheless.
- `BackedByDeposits`, `DepositOnCourse`, `CountsAgree`, `MintedForSigned`: the bank. Overlapping deposits of one account
  do mint twice, and `mint_cash` may be called directly; the first two exclude exactly these cases by history.
  `CountsAgree` does not, and holds through all of them. `MintedForSigned` says what the check of the signature is worth. The factory
  signs for whoever asks, so that a signature does not show that the account is under nobody's control or came from the
  factory; it shows that a key of the factory has signed for this very account, and, if nobody but `createAccount` asked
  (`signedOutside`), that the account had become its own controller before. An account is checked once: after its first token,
  its signature and the key that made it are not looked at again.
- `StabilisesAcrossStarts`, and `CurrentChainIsLongest`, `IndexMatchesUtxos`, `NextInsertSucceeds` again in `sync_demo`: what
  loading has brought back is judged by the blocks that were delivered to the process that saved. `BlocksReachState`:
  the request of a process, wherever it started, lets the adapter serve every block that can still matter.

Every property is also run against a mutated definition (`PROJECT.json`, "mutants"; the
mutant operators stand beside the definition they change).

## 4. Findings

1. **Stability out of order** (`stabilises_out_of_order`). `take_tree` joins one follower only.
   If two children of a block arrive before it, one child's tree stays detached, the depth is
   computed without it, and a competing block can become stable although it is not by
   `blockforest.rs:6-8`.
2. **A stable block delivered again** (`redelivery_after_crash`). `push` does not know the
   anchor. Inserting the anchor again takes the tree above it away; the current chain is empty,
   and later blocks extend the detached tree. Two update calls with the same blocks
   suffice, one of a shim that died.
3. **`min_confirmations`** (`min_confirmations`). Outputs of stable blocks carry a height one
   too low (`store.rs:126-129` against `store.rs:85`), and pass a filter for one confirmation more than
   they have.
4. **Contested tip** (`contested_tip`). The longest chains are compared with each other only; the
   last block of their common prefix may have a competitor on a shorter fork, contrary to the
   comment at `blockforest.rs:97-99`.
5. **Fee not covered** (`fee_not_covered`). `build_transaction` refuses only if the inputs do not cover
   the amount. If they cover the amount but not the fee, the change wraps around
   (`common/src/lib.rs:69`): the transaction pays out more than it takes in, is invalid, and its inputs stay
   set aside.

No document promises it, but `LostOnlyToTwins` is as much as is true of blocks that come again: with delta 2, `c2, a2, a1,
a2, c3, a3, a4, a5` in this order makes two trees with root `a2` above `a1`, of which one has `c3` and the other grows; when `a2`
becomes stable, the former is dropped, and `c3`, a block above the anchor, with it.

## 5. Proofs

### The chain state

`BitcoinStateProofs` proves, for every finite or infinite `Blocks`, every `Prev`, `Txs`, `Delta`
and any sequence of insertions (`Spec`):

| Theorem | Statement |
|---|---|
| `ChainTyped` | the types of the chain: a positive height, an anchor that is a block, a vector of finite prefix-closed trees |
| `StableChain` | `StableChainLinked`: height and anchor describe a hash chain from genesis |
| `ForestLinked` | `TreesLinked`: every edge of every tree is a hash link |
| `Finality` | `StableChainIsFinal`: the refinement of `FinalChain` |
| `StateTypes` | `TypeOK`: with the above, the types of the UTXO set and of its index, and no panic |
| `UtxosReplay` | `UtxosAreReplay`: the UTXO set is what the transactions of the stable chain leave unspent |
| `IndexAgrees` | `IndexMatchesUtxos`: the index lists the outpoints of every address once |
| `InsertsSucceed` | `NextInsertSucceeds`: inserting any block panics nowhere |
| `LossesAreTwins` | `LostOnlyToTwins`: blocks above the anchor are lost only to two trees with one root |
| `KeepsDescendants` | `DescendantsKept`, of `SpecOnce`: of blocks that come once, in any order, none above the anchor is lost |
| `ViewsAreReplays` | `ViewIsReplay`: `get_utxos` and `get_balance` are the replay of the confirmed chain for one address |
| `HeightsReported` | `ReportedHeights`: the heights and confirmations reported lie on the main chain, and the values add up |
| `CurrentChainLongest` | `CurrentChainIsLongest`, of `SpecInOrder`: the current chain is what the longest chains of delivered blocks share |
| `StableByDefinition` | `StabilisesByDefinition`, of `SpecInOrder`: a block becomes stable only by the definition at the head of `blockforest.rs` |

The first four rest on `BlocksAssumption` (no block is the null hash), `DeltaAssumption` and
`StateAssumption` (genesis is a block, transactions have their types) alone; the others also on `HashAssumption`
and `NetworkAssumption`. TLC evaluates all five in the runs.

**The chain and the forest.** The inductive invariant is `IInv == ChainTypeOK /\ StableChainLinked /\
TreesLinked`. Only the conjunction is inductive as far as these lemmas go: that popping yields a tree at all, and
that the next insertion of a block finds a place below its parent, needs the trees to be finite
and prefix-closed (`ChainTypeOK`); that the trees handed out by
`pop` and `take_tree` are linked when grafted needs `TreesLinked`; and the new last block follows the
old one because `Pop` returns the root of a tree attached to the anchor, which is the last stable block by
`StableChainLinked`. `ChainDataProofs` has one lemma per operation of the forest that says it maps
linked trees to linked trees (`LeafLinked`, `GraftLinked`, `ExtendLinked`, `SubtreesLinked`,
`TakeTreeLinked`, `PushLinked`, `PopLinked`). The difficult ones: `Graft` chooses an unused child
index, so that positions stay unique; `Find` returns the position of some node with the block, for which the
depth-first order must have a least element on a finite set; and the partition and sort of `Pop`, a
choice by rank, is a permutation, so that the tree returned as deepest is one of the attached ones.
`InsertForest` lifts the lemmas to `insert_block` and shows that its assertion cannot fail.

**The UTXO set.** What the set holds and that nothing panics can only be proved together: an outpoint is removed without a panic
because it is there, and it is there because the set is the replay of a valid chain. The invariant is
`Consistent(state, stable)`: the stable blocks are the line of the anchor, and `IsReplay` says of the set that it is sound
(index and map agree, strict, no panic) and holds, for every outpoint, the last output created for it up to a set `W` of
places of the chain, unless one of these places spends it. A place is a transaction of a block of the chain (`TxPlaces`).
With `W` a parameter, one more transaction is one more place: `ChainDataProofs` has a lemma for each loop of `insert_tx` (`RemoveSpent`,
`InsertOutpoint`, the inner and the outer ones), and `InsertConsistent` carries the whole of `insert_block`. That the
last of two duplicates counts, and that it is safe to insert it over the first, comes from `IdIsValid`.

The loops are folds. The library's induction theorems take an operator as parameter, which no installed prover
instantiates; `DataLemmas` therefore states induction over sets (`SubsetInduct`) and says of a fold that a sequence of
intermediate values, its run, exists, for folds whose values stay in a set. A proof about a fold is then one about
every place of its run.

**What is never lost.** `PushBlocks` and `PopBlocks` say which blocks are in the forest after `push` and `pop`. `pop` drops the
attached trees that compete with the one whose root becomes stable; a block of one of them descends from the new
anchor only if that tree has the same root (`Twins`). Among blocks that come once there are no twins: `OnceInv` adds to
the invariant that each block is in the forest at most once (`Single`).

**The views.** The current chain is the longest common prefix of the longest chains of the attached trees, and by
`TreesLinked` the path to a node of an attached tree is a chain above the anchor (`PathIsChain`, `CurrentChainIsChain`);
with the stable blocks it is therefore the line of its last block (`ChainContinues`), which the network made valid. The
part of the UTXO set that belongs to an address is the replay of the stable line with `W` that address alone, in a set that
is not strict (`AddressPart`); the blocks that `get_utxos` applies are more places of the same replay (`ReplayAbove`). What
the response shows is then one output for each member of `Mine` (`ShowsEachOnce`), from which count, sum and
heights follow. The filter on confirmations inside `get_utxos` drops nothing of an answerable request, because
heights of stable blocks are recorded at most at their true height.

**Deliveries in order.** The last two theorems compare the trees with definitions that only know the delivered blocks. They
need that a block comes once and after the block before it; without that, TLC refutes both (`redelivery_after_crash`,
`stabilises_out_of_order`). Under it `take_tree` finds nothing, and `PushInOrder` and `PopInOrder` say which trees
there are afterwards. The invariant is `InOrderInv`: besides `Consistent`, the forest is `Gathered`, that is, it holds each
block once, only delivered ones, and every delivered descendant of the anchor is in an attached tree. A second attached tree with the same root is
excluded by `Single`, so that a tree holds all descendants of its root: its depth is the depth of the root among the
delivered blocks (`DepthOfRoot`). That `pop` compares with the next deepest tree only, which sorting by depth makes enough
(`SortedByDepth`), is `StandsOut`. The longest paths of the attached trees end in the highest descendants
(`LongestAreHighest`); their longest common prefix is therefore the blocks that lie on the lines of all of these
(`CurrentIsCommon`).

### The Rust wallet

`RustWalletProofs` proves, for any outputs, values, amounts, fees, threshold, word size and number of
concurrent calls:

| Theorem | Statement |
|---|---|
| `SetAsideIsSpent` | `SpentAreIssued`: `SPENT_TXOS` is exactly what the transactions built spend |
| `NoDoubleSpend` | `SpendsOnce`: the refinement of `SpendOnce` |
| `WalletTypes` | `TypeOK`: amounts and change are words, inputs outputs of the wallet |
| `CoveredFeesPaid` | `FeesPaidIfCovered`: outputs that cover amount and fees leave the fees, and less than the dust threshold more |

It assumes that the wallet has finitely many outputs and the constants their types (`BuildingAssumption`,
`WalletAssumption`), and for the types and the fees that all outputs together fit in a word (`SupplyAssumption`). That no two
transactions share an input is not inductive: it says nothing of the next one. `IInv`
adds that `spent` is the union of all inputs; the next transaction takes its inputs from an
answer minus `spent` (`InputsOffered`, which holds however the sums wrap around), so it shares none with any earlier
one. The fees are about sums on words: `TotalIsHeld` says that the sum which `build_transaction` folds over distinct
outputs is their sum as integers, since no prefix of it wraps; `CoveredIsSelected`, that the loop stops at a
prefix that covers amount and fees if any does.

### The outgoing transactions

`BitcoinCanisterProofs` proves, for any sets of transactions and blocks, any answers of the adapter, any number of deaths
and of calls that outlive their shim:

| Theorem | Statement |
|---|---|
| `TransactionsOrdered` | `TransactionsInOrderOnce`: an accepted transaction is in one place, and the adapter gets each once, in the order of acceptance |
| `SystemTypes` | `SystemTypeOK`: the types of canister, queue and shim |
| `CanisterStands` | `UtxosAreReplay`, `IndexMatchesUtxos` and `NextInsertSucceeds` of the chain state inside the canister |
| `CanisterViews` | `ViewIsReplay` and `ReportedHeights` of the endpoints `get_utxos` and `get_balance` |

The inductive invariant states order without positions (`Precedes`: accepted earlier), between what was forwarded, what the
shim holds and what is queued (`Ordered`), and that these and `lost` share out what was accepted (`Accounted`). This
is not inductive by itself: an executed call would overwrite what the shim holds. `Awaited` adds what
the shim's position says: it holds a transaction exactly when it is about to send it, at most one call is awaited, and only
by a shim that stands at the corresponding await. A call of a dead shim therefore never reaches `hand`. What insertion does to the
chain state does not matter to the order: `ExecuteResponse` may do anything to it.

The other three theorems rest on the assumptions of the chain state, `HashAssumption` and `NetworkAssumption` among them.
Their invariant, `SystemInv`, says that blocks on their way are blocks, and `Consistent` of the chain state;
`InsertAllConsistent` carries the latter through a response of several blocks, which is a fold of `Insert`. By it a response
never panics halfway, so that what `execute` leaves is always the state after all of its blocks.

### The sync demo

`SyncDemoProofs` proves, for any blocks and transactions, every delta, any adapter and length of its answers, and any number of
processes, each started with or without the file and killed at any moment:

| Theorem | Statement |
|---|---|
| `SyncStands` | `SyncInv`: the state and the one in the file stand for their chains and describe the delivered blocks |
| `SyncTypes` | `SyncTypeOK` |
| `SyncSucceeds` | `UtxosAreReplay`, `IndexMatchesUtxos`, `NextInsertSucceeds` of a state that may have been loaded |
| `SyncViews` | `ViewIsReplay`, `ReportedHeights` of the commands `utxos` and `balance` |
| `SyncChainLongest` | `CurrentChainIsLongest` of the blocks that came with the file or since |
| `StabilisesFromFile` | `StabilisesAcrossStarts`: what becomes stable in one step of the process is so by definition |

Besides the assumptions of the chain state it takes `FileAssumption`: a block is known by its header and transactions.

*Loading inverts saving* (`LoadedState`). Height, anchor and forest come back as they were. Of the UTXO set only the map is
written, in any order; `UtxosLoadRun` follows the insertions that build the index again, one for each outpoint since the order
lists each once (`OrderCovers`), and `LoadedUtxos` shows that the result is the same replay (`IsReplay`) the saved set was.
The loaded index may order an address's outpoints differently, so the loaded set is not equal to the saved one:
what is inverted is everything that `Consistent` says. That the map is finite, so that it has an order at all, follows
from its being a replay of a finite chain (`ReplayFinite`).

*Answers are deliveries in order* (`AnswerIsNew`). Nothing in the code checks this; it follows from the request. The invariant
is therefore about what a request names. That the forest is `Gathered` (see *Deliveries in order*) does not suffice: it leaves
open that the forest has a block and lacks a delivered one that follows it, which the adapter would then serve again. The obvious
remedy, that every block of the forest descends from the anchor, is refuted by TLC on this run: the first block of an answer may make a block stable,
which drops a fork that the second block of the same answer extends; this block is left in a detached tree, and the following request
names it. `Closed` is what does hold: a delivered block whose parent a request would name is named itself. `ClosedPush` and
`ClosedPop` carry it through an insertion, `AnswerRun` through all insertions of an answer (`InsertAllRun`), with
`StableSince` for what becomes stable on the way. By `TaskInv` the state is at the insertion what it was at the request: the lock is
released in between, but nobody else inserts.

### The Motoko account

`MotokoAccountProofs` proves, for any outputs, keys, amounts and number of concurrent calls:

| Theorem | Statement |
|---|---|
| `AccountTypes` | `TypeOK` |
| `DoubleSpendsOnlyOverlapping` | `DoubleSpendsOverlap` |
| `InputsUnlockedUnlessRaced` | `InputsUnlocked` |

The invariant relates what a call saw to what was recorded since: everything built is set aside (`SetAside`); a call
that awaits its transaction offers outputs of the address of its own key (`OffersOwn`), none of which was an input of
a transaction built before it filtered (`OffersUnseen`, the counterpart of `seen`). For the key, `OneKey`: unless
two first uses raced, at most one call is on its way to store a key, only while there is none, and every later call works for the
stored one, so that the key read in `BuildReturns` is the one whose address was asked for. Keys in `generated` are fresh.

### The bank

`BankProofs` proves, for any accounts, customers, balances and numbers of concurrent calls of factory and bank:

| Theorem | Statement |
|---|---|
| `BankTyped` | `TypeOK` |
| `TokensBacked` | `BackedByDeposits` |
| `DepositsOnCourse` | `DepositOnCourse` |
| `MintsForSigned` | `MintedForSigned` |
| `CountsTrue` | `CountsAgree` |

`BackedByDeposits` alone does not survive `CashMinted`: nothing in it says that the count may still grow. The
invariant adds `OnCourse`, that minted and left tokens of a running loop are together what was covered; it needs `Alone`, that
no two calls work on an account whose deposits did not overlap, and that what a call has read (`known`) is still the count.
`MintedForSigned` needs `Checked`: what a call has read and is about to have verified is `Genuine`, either published or not the
factory's, and past `verify_message` it works on an account with a published signature. That an account holds no other is
part of `SignsOthers`, with what `createAccount` has seen to before it signs: the account is its own controller. The theorem
excludes no caller: steps of `SignOutside` and `SetSignature` may come between any two others. The counts are cardinalities
of sets of cash canisters: `Fresh` says that the canister a call is about to sign is its own and unsigned, so that each round
adds exactly one element.

**Only model-checked**: liveness (`BlocksReachState`, `BlocksReachCanister`, `TransactionsLeaveCanister`, `SendsEnd` and its
counterpart `CallsEnd` of the account), which needs ENABLED. Every invariant and every action property of a run is the property of a theorem.

## 6. Not modelled, and why

- The Candid types of the interface, and the bytes of Candid and protobuf: field by field, no order or state. The
  messages of the state file are modelled as records of what they hold. `prost` refuses messages nested deeper than 100;
  the model nests without bound (listed as a hazard).
- Cryptography and key formats, in `tests/*.mo`, `Utils.mo` and the parsing at the head of `common/src/lib.rs`: pure
  functions, whose failures are errors of the call.
- The adapter: only its answers. The Candid validation of addresses and transactions is a
  refusal that changes nothing, so that only well-formed requests appear.
- Upgrades of the canister: the state is in thread-local memory and starts from genesis again;
  listed as a hazard. A reinstallation of the Rust wallet, which forgets `SPENT_TXOS`.
- `parent_principal` of an account, which nothing reads; `Main.mo`, which creates one account; the transfer of a cash
  canister by its owner, which nothing else in the bank looks at; queries that only read (`balance` of the factory, the
  getters of account and cash).

## 7. Plan

Every component that keeps state has a module; what is left are extensions.

1. Liveness of the bank with two concurrent calls, which needs a state space that can do without symmetry.
2. The account of `Bank` refined by `MotokoAccount`, so that balances follow from transactions instead of being any of a set.
