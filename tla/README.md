# toy-btc in TLA+

Models of the toy-btc node, its miners and wallets and both networks of nodes,
checked with TLC, and theorems about them proved with TLAPS. Everything is read off the
Rust sources; paths below are relative to the root of the repository.

## 1. Inventory of the system

| Component | Source | State | Operations |
|---|---|---|---|
| Chain state | `lib/src/blockchain.rs`, `lib/src/blockchain/block.rs`, `transaction.rs` | `blocks`, `utxo_set` (output → "referenced" flag), `target`, `mempool` | `add_block`, `rebuild_utxo_set`, `try_adjust_target`, `add_to_mempool`, `cleanup_mempool`, `verify_*`, fees and rewards |
| Merkle root | `lib/src/merkle_root.rs` | – | `calculate` |
| Persistence, node tasks | `node/src/blockchain.rs`, `lib/src/lib.rs` | the file | load with replay, periodic save, periodic cleanup |
| Template service | `node/src/handler.rs` (TCP), `node/src/grpc/miner_api.rs` | – (reads and writes the chain state) | FetchTemplate, ValidateTemplate, SubmitTemplate |
| Miners | `miner/src/main.rs` (TCP), `miner/src/grpc/miner.rs` | current template, flag `mining`, channel of mined blocks | the asynchronous loop, the mining thread |
| gRPC node network | `node/src/grpc/peers.rs`, `node_api.rs`, `wallet_api.rs`, `grpc_node.rs` | `nodes`, `subscribers`, channels and streams | start and discovery, subscribe, broadcast, listen, synchronize, renew |
| TCP node network | `node/src/peers.rs`, `main.rs`, `handler.rs` | `nodes` with a connection and an address to skip for each, the connections | start and discovery, download, Subscribe and SubscribeAck, broadcast with removal, the handlers of blocks and transactions |
| Wallet | `wallet/src/core.rs`, `core/utxo.rs`, `tasks.rs`, `main.rs` | a copy of the outputs of its keys, the queue of payments, one connection | fetch the outputs, choose inputs, change and fee, sign, submit; as an interface or a command line |
| Rest | crypto, CBOR, framing, CLI tools, UI, deployment | – | – |

**How they interact.** A node keeps its chain state behind one
`RwLock` (`BLOCKCHAIN`); every handler, listener and task takes that lock for
its critical section. Miners and wallets call handlers of one node and wait for
the answer. gRPC nodes push accepted items to their subscribers over streams, and
pull missing blocks every 15 seconds. TCP nodes write them to a connection per
known node and pull once, when they start. A wallet pulls its outputs every 20
seconds and pushes payments, over one connection. Inside a miner, a loop and a thread share
a mutex, an atomic flag and a channel.

**What is hard.**

- The utxo set is never recomputed: it is patched by replaying the whole chain
  over whatever it was, after each block, load and synchronization; its flags
  and the mempool are kept in step by separate code.
- A crash falls back to the last save, or to a half written file.
- The arithmetic: unchecked `u64` sums (panic in debug, wrap in release), a
  256-bit retarget product, powers of two by height.
- A template is computed under a read lock and submitted much later.
- The miner's thread reads flag and template separately; both sides clear the
  flag; a `select!` picks the tick or a mined block at random.
- Broadcasts run in different orders over different streams, from handlers that
  hold the lock and from listeners that do not; streams end, subscribers are
  removed by address by a task that may be about an older stream.
- Synchronization reads heights, releases the lock, and downloads while blocks
  also arrive over streams.
- Bounded channels, a lock held over an `await` and a sharded map: a broadcast,
  a listener and the task that removes a subscriber wait for each other.
- Two TCP nodes replace the connection each has just opened to the other, and
  learn over another one what not to send back.
- The wallet pays from a copy that is up to 20 seconds old, in the order of its
  keys (a `SkipMap`), while its other task overwrites the copy.

**What makes each part correct.** Chain state: no output is ever spent twice,
the set is that of the unspent outputs, no money but the subsidies, flags and
mempool agree with each other and with the chain. Templates and miner: what the
node hands out it accepts when mined, each template is submitted once, nobody
mines on a dead tip forever. Network: who is behind catches up, what is
broadcast gets everywhere and stops circulating, who ended comes up again, who
submits gets an answer, and two chains part only where miners have.
Wallet: it pays what it was told, once, with one fee; what it makes can be taken
unless its coins are gone; its copy follows the node.
`PROJECT.json` lists every component and each hazard at its line.

## 2. Modules

| Module | What it is |
|---|---|
| `MerkleRoot` | `MerkleRoot::calculate` over free (collision-free) hashes |
| `Blockchain` | the chain state of one node, its file and its tasks; one action per critical section of the lock |
| `Ledger` | abstract: what a node promises about money. `Blockchain` implements it (`ImplementsLedger`) |
| `Mining` | a node (extends `Blockchain`) with one miner, for both pairs of programs |
| `Wallet` | a node (extends `Blockchain`) with one wallet, for both protocols |
| `Replica` | the chain state as the networks see it, common to the next two |
| `Gossip` | the network of gRPC nodes |
| `TcpPeers` | the network of TCP nodes |
| `Streams` | the channels and locks an item passes between gRPC nodes |
| `Sums` | lemmas about sums over finite sets, and the induction principles they need |
| `BlockchainProofs`, `ReplicaProofs`, `MiningProofs`, `WalletProofs`, `GossipProofs`, `TcpPeersProofs`, `StreamsProofs` | theorems about the module of that name |
| `BlockchainClaims` | a statement of a comment that the code does not keep |
| `World`, `MCBlockchain`, `MCBlockchainLoops`, `MCBlockchainClaims`, `MCMining`, `MCWallet`, `MCGossip`, `MCTcpPeers`, `MCStreams` | data and instances for TLC |

### Blockchain

| Variable | In the code |
|---|---|
| `blocks`, `target` | the fields; a block is one record with its header's fields |
| `utxo_set` | function from unspent output to flag (an output is its own hash) |
| `mempool` | sequence of transaction and age in seconds instead of insertion time |
| `disk` | the saved file: absent, saved or torn, and what it holds |

`AddBlock` is the whole of `add_block` *and* the `rebuild_utxo_set` that every
caller makes under the same lock, with the panic of the retarget in between.
`AddToMempool` is the whole function: the checks in their order, the
replacement loop (`Replace`; its branch that removes an older transaction needs
a waiting transaction that *creates* the output and is never taken, see the
finding), the sums that panic or wrap, the flags set, the insertion and the
sort by fee, which may panic with the flags already set. `Rebuild` and `Readjust`
are the two critical sections of `synchronize_blockchain`; they may happen at
any time, which is more often than the code makes them. `CleanupMempool`
removes by age and clears flags. `Save`, `CrashWhileSaving` and `Restart` are
the file: `Restart` is a crash (or a shutdown) together with the following
start, as nothing sees a node in between. After `CrashWhileSaving` the file
does not load and the node does not run again (`Running`); its variables keep
their last values.

The loops are stated in closed form (`RebuildUtxoSet`, `Replace`);
`MCBlockchainLoops` compares them with folds that follow the code step by step,
on every small input, when TLC evaluates its assumptions.

Assumed of the data, by name: outputs carry a random id and so belong to one
transaction (`OutputsAssumption`); inputs and amounts are typed and a
submitted transaction spends something (`TxsAssumption`: one without inputs
could be mined again and again); a hash determines its
whole header, so that two blocks with one hash differ at most in their
transactions, and a coinbase its previous hash, because a coinbase is made for one
template (`BlocksAssumption`). A signature is the key that made it. Time in headers is
in milliseconds; the clock behind mempool ages does not go back.

### Mining

Adds to the node: the loop (`loop`: where it awaits), `current_template`, the
flag `mining`, the thread (idle, between reading the flag and the template,
hashing, between sending and clearing the flag), the channel `mined`, and the
requests and the answer in flight. `tcp` says which pair of programs runs and
never changes. The two differ as the code does: TCP closes the
connection on a refusal, its miner does not wait for the answer to a
submission, ends on an error and is restarted; the gRPC miner logs and goes on;
the TCP node checks its template for the wrong height. Lock and flag of the
template are separate steps where another step can fall in between, and merged
where not (storing the template and raising the flag after an answer: the
thread looks at the template only after the flag).

A template is a block without the fields that mining sets; the Merkle root of an own
block is that of its transactions, as the node computes it last and mining does
not touch it (`MiningAssumption`). Its coinbase id is
fresh: one that nothing in the system uses at the moment. So ids can be used
again later, and four siblings per tip are enough; with three, a fresh id is
missing in some states.

### Wallet

| Variable | In the code |
|---|---|
| `utxos` | `Core::utxos`, key → list of (flag, output) |
| `tx_queue` | the channel between the interface and `handle_transactions` |
| `pos` | where the tasks `update_utxos` and `handle_transactions` (or the command line) are |
| `wire`, `reply`, `link` | the connection behind the mutex: requests, the answer, whether it is open |
| `made`, `given` | history: payments the wallet has created, and those that reached the network |
| `tcp`, `cli` | which protocol, and which of the two programs; they never change |

`Payments` is `create_transaction`. The places `<<key, entry>>` of the unmarked
outputs are visited key by key in the order of the map (`Unmarked`); an output is
taken when those before it do not suffice for the amount and the fee (`Taken`);
the change goes to the first key; every input is signed with the key of its
output. Nobody but the wallet signs with its keys (`WalletAssumption`). The transaction is looked
up in the constant `Txs`, which also holds what a wallet with a wrong fee or a
wrong signature would make; that one is found (`Payments(order) # {}`) is a bound
of the model, and so is `Drafts # {}` in `Mining`. `Ask` and `TakeUtxos` fetch one key; the mutex is
held from the request to the answer, so `Free` guards requests of both tasks. Over TCP
a payment is written and not answered, and a lost connection stays lost; over
gRPC it is answered and a lost connection is opened again. Blocks come to the
node from anywhere, but hold a payment only if it has reached the network.

### Replica

Chains are sequences of blocks of which only predecessor and transactions
count; a transaction spends the coinbase of one block. `Extends` is when
`add_block` accepts, `Spendable` when a transaction has its inputs. `found` is the
history of what clients have submitted. What the
networks add to it is which node calls these operations when. Blocks may fork
(several miners); a node never leaves the branch it is on.

### Gossip

| Variable | In the code |
|---|---|
| `status` | "starting" until the first synchronization is done, "up" with the server |
| `nodes`, `subscribers` | `peers.nodes`, `peers.subscribers` |
| `listens` | the listener tasks of a node |
| `stream[n][p]` | what is on its way from `n` to `p`: channel, forward task, response channel and buffers as one queue, with room for `Capacity` items |
| `unsent[n][p]` | items left behind when the listener at `p` ended: one in the hands of the forward task, one in the channel |
| `removing[n][p]` | the same of forward tasks whose channel a new subscription has replaced |
| `sending[n][s]` | the broadcast of an item received from `s`: whom it has still to go to, and `at` whom it waits for room |
| `sync`, `joining`, `renewing` | the synchronization, `subscribe_to_nodes`, and whether `subscribe_to_subscribers` is alive |

A start connects to all seeds and to those of their nodes that answer,
synchronizes, and only then is `up`. A crash loses everything but a prefix of
the chain: the periodic save may have been made at any time. `sending[n][n]` is
the broadcast of a handler, which holds the write lock until it is done, so `Free(n)`
guards everything that takes the lock.

*A broadcast may wait, and for ever.* `Send` needs room in the channel of the
subscriber (`HasRoom`). Where there is none, `WaitsForRoom` notes at whom the
broadcast stands, and from then on it holds that subscriber's shard of the map
for reading (`ShardFree`), as the iterator in `Peers::broadcast` does over the
`await`. A forward task that cannot pass on an item needs the shard for writing
to remove its subscriber (`RemoveSubscriber`), and so does a new subscription from the
same address (`Subscribes`). When a stream ends, up to two items remain with
the forward task, as many as had not got past it (`StopsListening`, `Crash`); the broadcast of a
third one may then wait for a task that waits for the broadcast. `Jammed(n)` is this state,
and as in the code nothing gets `n` out of it but the end of its process. When
the broadcast is that of a handler, its blockchain is locked too, and it
answers no `ask_difference`.

Simplified: the way an item takes to a live listener is one queue (`Streams`
takes it apart); each subscriber has a shard of its own; a broadcast goes to
those who had subscribed when it began; blocks are mined from the node's
mempool, each once; mempools do not expire;
listener and subscription address are the same (`--subscription-host` is not given).

### TcpPeers

| Variable | In the code |
|---|---|
| `status` | "starting" until `populate_connections`, the download and the load are done, "up" with the listener |
| `nodes[n][p]` | the entry of `Peers::nodes`: the line written to, and the line of `p` whose address is to be skipped |
| `wire[n][p][i]` | TCP connection `i` from `n` to `p`: messages, is the client end open, does the handler still read |
| `sync`, `joining` | the download at the start, and the nodes `subscribe_to_nodes` has still to visit |
| `spread` | history: what was accepted while the network was whole |

An action `Handle...` is one turn of the loop in `process_connection` for one
message. The handlers keep the lock while they broadcast, and socket buffers
are taken to be large enough, so the broadcast is part of the step. A write to a
connection that nobody reads fails, and removes the entry. `HandleItem` has the
three ways out of the code: the item is known or too old and ignored, it is
accepted and broadcast to all but the line to skip, or it is refused, which ends
the handler and so the connection.

### Streams

How an item gets from one gRPC node to another, without the chains: every
submitted item is new and acceptable. For each subscriber: `channel` (one
item), the forward task (`forward`: the item it has in hand; `failed`: it is
about to remove the subscriber), `stream` (the channel of the response and the
buffers of the connection, `Window` items together) and `listener` at the
other end (idle, waiting for the lock with an item, broadcasting). `submitting[n]` is the handler
that has the blockchain locked while it broadcasts; `at[n][source]` says at
which subscriber a broadcast waits, with the shard of `peers.subscribers`
locked for reading. `Removes` needs the shard for writing. The overlay is fixed
(`Subscribed`); a connection may be lost, and is not renewed.

## 3. What TLC checks

Passing runs:

| Run | Module, cfg | Properties |
|---|---|---|
| `chain` | `MCBlockchain`, `MCBlockchain.cfg` | `TypeOK`, `UtxoIsUnspent`, `NoDoubleSpend`, `SupplyIsSubsidy`, `MarkIsReferenced`, `MempoolUnconfirmed`, `HeaderDeterminesBody`, `ImplementsLedger`, `MempoolDrains`, `MarksReleased` |
| `mining` | `MCMining`, `MCMining.cfg` | `MiningTypeOK`, `TakesItsTemplates`, `NothingSubmittedTwice` |
| `mining_live` | `MCMining`, `MCMiningLive.cfg` | `StaleDropped`, `HalvingReached` |
| `wallet` | `MCWallet`, `MCWallet.cfg` | `WalletTypeOK`, `TakenUnlessGone`, `PaysExactly`, `CopyFollows`, `QueueDrains` |
| `gossip` | `MCGossip`, `MCGossip.cfg` | `GossipTypeOK`, `CatchesUp`, `ComesUp` |
| `gossip_meshed` | `MCGossip`, `MCGossipMeshed.cfg` | `Quiesces`, `TxSpreads` |
| `tcp` | `MCTcpPeers`, `MCTcpPeers.cfg` | `TcpTypeOK`, `OnlyMinersFork`, `Spreads`, `Calms`, `StartsAgain` |
| `streams` | `MCStreams`, `MCStreams.cfg` | `StreamsTypeOK`, `SubmissionsEnd`, `Arrives` |

**Bounds.**

- `chain`: a tree of blocks up to four high, nine good ones and ten that must be
  refused (one for each check), five transactions of which several conflict,
  chain or overspend; halving and retarget every two blocks, so that chains pass
  one halving and two retargets; `U64 = 16` and `U256 = 1024`, so that sums reach the edge of `u64`
  (and panic, as a debug build does) while targets stay below that of 256 bits,
  as the theorems assume. Every check of `Acceptable` decides on some block,
  every rule of the mempool on some transaction; longer chains repeat the same
  steps.
- `mining`: two levels of blocks, a rival block and a payment that conflict, one
  block at most in the channel (`MaxMined`), saves of chains of one block
  (`MaxSaved`), restarts of the node without a bound. `mining_live`: three
  levels, over the first halving, with rivals.
- `wallet`: two keys with one coin each, so that a payment of 2 with its fee of
  1 leaves change, a second one may use the change of the first, and both keys
  are needed or not depending on the order; two payments from the interface
  (over TCP and over gRPC), one from the command line (over TCP; `MaxPayments`),
  three blocks, saves of chains of one block, one restart of the node. The
  command line over gRPC is left out of the run: it adds no action. The node does
  not expire transactions here. `U64 = 128` is more than all subsidies together
  and more than any transaction creates, so nothing wraps, in the node's release
  build that this run has.
- `gossip`: two nodes from the very start, a chain of two blocks and a
  transaction, one fault (a crash of either or a lost connection, `MaxFaults`) at
  any moment, all timers running. Three items never fill a live stream
  (`Capacity = 3`); they do fill what is left of one that has ended, so the jam
  is among the states of this run. More room on a live stream would let a
  broadcast wait later, not less. `gossip_meshed`: three nodes that are already
  subscribed to each other, so that floods have cycles, no faults, and one node
  that synchronizes (`Syncing`).
- `tcp`: the first three nodes of `compose_tcp.yaml`, a chain of three blocks, the
  last of which confirms one of two transactions for the same coin, a rival of
  the second block, two lines per
  pair and direction (`Lines`; the second is open while the first is being
  replaced). `MCInit` has these cases: the third node has still to join, or all are connected, and either
  clients submit the chain and its transaction, or they submit a block at most and a node crashes;
  all are connected and a transaction comes too late and is refused; two nodes get
  rival blocks at the same time; or they already have, and a node crashes and
  restarts, or the third one joins. What clients are not to submit in a case is in `found` from
  the start.
- `streams`: three nodes in a row, so that the middle one forwards. Clients at
  one end: nine items, one more than all channels, tasks, streams and listeners
  on the way hold, and no failure; or two items and a lost connection. `Window`
  is one; more items in the buffers let a submission wait later, not less.

**Fairness.** `MempoolDrains`, `MarksReleased`: time passes and the interval
timer of the cleanup task fires. Mining: the runtime polls its tasks (weak
fairness of the handlers and of each step of the loop), `select!` is fair to
its branches and the thread looks at the flag far more often than it changes
(strong fairness of submitting and of `Look`); no node process ends. That a search
finds a nonce is not assumed, but is the premise of `HalvingReached`
(`FindsNonce`): `StaleDropped` holds of a miner that never finds one.
Wallet: weak fairness of the node's handlers, of the timer and of the command
line; strong fairness of what takes the mutex, since tokio hands it out in
the order of the requests. Gossip: weak fairness of every task's step, of the timers, and of the restart
policy (`compose.yaml`, `restart: on-failure`); that every broadcast ends is not assumed,
as one that waits for room has no step to take. TcpPeers: weak fairness of the
restart, of each step of a start and of every handler. Streams: weak fairness of
broadcasts and forward tasks, strong fairness of who takes the lock of the
blockchain (tokio's is first in, first out). Submissions by clients and faults are
never fair, except that in `Streams` one that is waiting for the lock gets it.

**Deadlock** is checked in `gossip_meshed`. The others say
`CHECK_DEADLOCK FALSE`: in `gossip` a jammed network may stand still, a torn file stops the node, a mined out world or a
TCP miner without a template has nothing left to do, a wallet's program ends,
and a TCP network or an overlay where everything has arrived is at rest. That
nobody waits forever is the property `SubmissionsEnd` in `streams`.

**Statements of the sources that do not hold** (each refuted by a run; details
under "findings" in `PROJECT.json`):

| Run | Statement | What happens |
|---|---|---|
| `NoConflictInMempool` | a newer transaction replaces the older one with the same input | the search looks for the creator of the output; both wait |
| `HalvingReachedTcp` | the chain passes a halving | the TCP node never hands out the template before it |
| `LostIsRenewed` | lost connections are renewed | a known node is skipped; an honest race of a block with its transaction is enough to lose the stream |
| `SubmissionsEnd` | a failed subscriber is removed, a submission is sent on | the broadcast waits for room in the failed subscriber's channel and holds the shard its removal needs; the handler keeps the blockchain locked |

Conditions of passing properties that come from these: mining over TCP is left
out of `HalvingReached`; `TxSpreads` holds because every node has more than
one path and the transaction that costs a stream is confirmed already; `streams`
loses a connection only with two items submitted, which the channel and the hands of the
forward task take in; `CatchesUp` and `ComesUp` except a network with a node that is
`Jammed`, which the deadlock of `SubmissionsEnd` makes of it: that node may hold its
blockchain locked for ever, and then who asks it waits for ever too. `Spreads` and `StartsAgain`
except a network that has forked.

Seen while modelling, without a run of its own.

Chain state and templates:
- a rebuild clears all flags while the mempool keeps its transactions
  (`blockchain.rs:145` against `:23`), so a flag does not say "referenced";
- inputs of a waiting transaction may be gone when its fee is computed again
  (`transaction.rs:41` against `blockchain.rs:315`), and the subtraction
  underflows;
- over both protocols every template is invalid as soon as it is validated: its coinbase is
  not in the mempool (`handler.rs:211`, `miner_api.rs:138`, against `network.rs:31`);
- an interval's adjustment is applied again by each restart or synchronization at the
  same height; a block is held to the target of the previous header, not to its
  own; the first block's root is never looked at (`blockchain.rs:85`); the
  retarget product leaves 256 bits after about a year without blocks;
- templates take the transactions with the lowest fees when there are more than
  the cap (`handler.rs:288`);
- a fast TCP miner fetches a second template while its block waits in the channel
  and is then disconnected.

gRPC network:
- forked nodes never come together again, and a forked node that restarts never
  comes up;
- two nodes with clients on both sides stand still without any failure once ten
  items are under way (`Window` of one): each handler has its
  blockchain locked and waits for the other's listener, which waits for that
  lock. So the run `streams` has clients at one end only.

TCP network:
- nodes synchronize only when they start, and hear of new blocks only from
  Subscribe on: what falls between, or gets lost, leaves a node behind until it
  is restarted, because it refuses all later blocks;
- a transaction overtaken by its block is refused, and refusing closes the
  connection for good (`handler.rs:188`); a transaction a client submits is
  broadcast even when the mempool has refused it (`handler.rs:251-261`);
- a seed that restarts has nobody to connect to and is isolated until
  others restart; two nodes that both know the other as dead keep each other from
  starting.

Wallet:
- `amount + fee` may overflow (`core.rs:274`); outputs that were just chosen are
  not marked in the copy (`core.rs:280`), so a second payment before the next
  fetch spends them again; quitting the interface drops queued payments.

## 4. What is proved

### Chain state

`BlockchainProofs`, for all transactions, blocks and constants under the named
assumptions of `Blockchain` and one more, `RetargetFits`: no measured target
leaves 256 bits. (Without it `add_block` panics between push and rebuild, and
the set is wrong until the next rebuild.)

| Theorem | States |
|---|---|
| `Invariant` | `Spec => []IInv` |
| `TypeCorrect` | `TypeOK` |
| `UtxoSetCorrect` | `UtxoIsUnspent` |
| `NoOutputSpentTwice` | `NoDoubleSpend` |
| `NoLeakedMark` | `MarkIsReferenced` |
| `NoConfirmedWaits` | `MempoolUnconfirmed` |
| `SupplyCorrect` | `SupplyIsSubsidy`, if `OverflowChecks \/ AmountsFit` |
| `HeaderBindsBody` | `HeaderDeterminesBody` |
| `Refinement` | `ImplementsLedger` |

`IInv` is `TypeOK`, `ChainOK(blocks)`, `UtxoIsUnspent`, `DiskOK`,
`MarkIsReferenced` and `MempoolUnconfirmed`. None of the properties is
inductive alone. That a block spends nothing twice follows from the check
against the set only if the set is right; that the patched set is right follows
only if no output is created twice (`CreatesOnce`), which in turn needs
that headers are linked and timestamps grow, for a coinbase belongs to one
previous hash and so to one place in the chain. All of this must hold of the
saved file too, and of its set, which is an older prefix, because a restart
makes it current: `DiskOK`. That no confirmed transaction waits needs
that transactions after the coinbase spend something, so that one in the chain
cannot find its inputs again.

The proof has a lemma per action (`AddBlockIInv`, `AddToMempoolIInv`, ...)
on top of lemmas about positions in chains (`PositionsOf`, `AppendPositions`),
about one verified block (`VerifiedBlock`), about a chain that grows by it
(`ChainExtends`, `UnspentAfterBlock`) and about replaying over an older set
(`RebuildOverPrefix`). For the refinement, a step of `AddBlock` is
`Extend`, a `Restart` is `Forget`, everything else stutters.

*Money.* The hypothesis of `SupplyCorrect` is what the code needs: a debug
build panics before a sum of `u64` wraps; in a release build the sums wrap, and the
supply is right only if they cannot get that far. `AmountsFit` says so: no
transaction creates 2^64 or more, and neither do the subsidies together. Under
it nothing wraps, because what a block spends is part of the supply. `SupplyInv`
is `IInv` and `SupplyOK` of the chain in memory and of the saved one: for a
restart makes that current. A block that is taken creates what it spends and its
subsidy (`BlockBalances`: the fees that `calculate_miner_fees` adds up are
what `verify_coinbase_transaction` compares with), and as what it spends was
unspent and what it creates is new, the unspent outputs are worth that much more
(`BlockKeepsBalance`).

*Bodies.* `HeaderDeterminesBody` is about a node's whole life: a chain that falls back to a
save may later take other blocks, but of two with one header it never has first the one
and then the other. `IInv` says that no chain repeats an input, and with that no
block a transaction (`ChainBodyDiffers`); `RootsOK`, kept beside it for
the chain in memory and the one in the file, that after the first block, whose root is not looked
at (`blockchain.rs:85`), each block has the root of its transactions. Over lists without
repetition `MerkleRoot::calculate`, which pads a layer by repeating its last
entry, tells the list: by induction over the layers (`SameRoot`). So at most one of two
such blocks is ever held (`HeldBody`, `OneBody`), whichever came first.

*Sums and recursion.* The library's induction theorems take an operator, which the
provers cannot instantiate. `Sums` does without: a statement about all numbers, or
all finite sets, becomes the set of the numbers it holds of, and the well-founded
order of the naturals gives it all of them (`Induction`). The functions that
`MapThenSumSet`, `PowerOfTwo` and `Calculate` define by recursion are shown to exist in
the same way.

### Networks

All for any set of nodes, any blocks, transactions and bounds under the named
assumptions of the module.

| Theorem | Module | States |
|---|---|---|
| `Agreement` | `TcpPeersProofs` | `OnlyMinersFork` of the TCP network |
| `NoLeakedConnection` | `TcpPeersProofs` | `TcpTypeOK` |
| `GossipAgreement` | `GossipProofs` | `OnlyMinersFork` of the gRPC network |
| `GossipTypes` | `GossipProofs` | `GossipTypeOK` |
| `StreamsTypes` | `StreamsProofs` | `StreamsTypeOK` |

*Agreement.* Miners may fork, and the code has no reorganisation, so nodes may disagree
for ever. `OnlyMinersFork` says that they disagree for this reason only: at the first
block that is not the same, each has one that a client has submitted, on the same
predecessor. So the network itself never forks, duplicates, skips or makes up a block, over
streams, downloads and restarts; in particular, while the
submitted blocks form one line any two chains are prefixes of one another. The
invariant is `Replicated`: the chains are made of submitted blocks, and in each
every block follows its predecessor (`ReplicaProofs`; that it implies the property is
`ForksAreMined`). It is kept by `add_block` (`AddsReplicated`) and by falling
back to a save (`LeavesSavedReplicated`), whoever calls them and in whatever
order. What remains for each network is that its steps do nothing else to a
chain, and that whatever carries a block, anywhere, carries one that was submitted: broadcasts
and streams and downloads in the gRPC network (`Sent`, `OnTheWay`, `Fetched`), the messages
on every connection, also those that are being replaced, in the TCP network (`Submitted`).

*Types.* The type invariants are about more than types and none is inductive.
`TcpInv` adds which line belongs to which entry and who may be asked, so
that replacing an entry drops the right connection. `GossipInv` adds `NodesOK`
(what a node asks and joins it is connected to), `LinksOK` (a stream that holds items has
a listener), `SendingOK`, `RoomOK` (what is on its way has room, and a stream with
a listener has not failed) and `QuietOK`: a node that is not up has no subscribers,
listeners or broadcasts. `StreamsInv` is split into `Typed`,
`Handed` (what handlers and listeners have in hand is known where it came from),
`Carried` (so is what channels, tasks and streams hold, within their capacity)
and `Placed` (a broadcast that waits is at a subscriber, which keeps it from
being removed). Each has one lemma per action.

### Miners and wallets

For any transactions, blocks, bounds and protocols under the named assumptions
of the module. All but `MiningTypes`, `MinesOnce` and `MinedNodeIsNode` rest on
the invariants of the chain, and so on `RetargetFits`.

| Theorem | Module | States |
|---|---|---|
| `MiningTypes` | `MiningProofs` | `MiningTypeOK` |
| `MinesOnce` | `MiningProofs` | `NothingSubmittedTwice` |
| `MinedNodeIsNode` | `MiningProofs` | `MiningSpec => Spec`: the node that serves a miner is a node of `Blockchain` |
| `TemplatesAreTaken` | `MiningProofs` | `TakesItsTemplates`, under `FirstOnce`, `Later` and as long as `NotEased` |
| `WalletTypes` | `WalletProofs` | `WalletTypeOK` |
| `WalletNodeIsNode` | `WalletProofs` | `WalletSpec => Spec`: the node that serves a wallet is a node of `Blockchain` |
| `PaymentsInvariant` | `WalletProofs` | the inductive invariant `WalletInv /\ PayInv` |
| `PaymentsAreGood` | `WalletProofs` | `TakenUnlessGone`, if `AmountsFit` |
| `WalletPaysExactly` | `WalletProofs` | `PaysExactly` |

*Mining once.* A template that has led to a block must never be started
again, though the thread reads flag and template separately and the loop
changes both. Call a template used up when a block of it waits in the channel, is
on its way or is in the chain. `UnusedOK`: as long as the current template is
used up, the thread has still to clear the flag, or the flag is down, and it goes up
only with a fresh template. `SavedOK` adds that the blocks of the saved file are
blocks of the chain, so that a restart of the node uses up nothing new;
`Distinct` and `NotAdded` are the property itself, of the channel and the wire
together. `MinerOK` and `CallsOK` say what the variables hold.

*Templates.* A template is checked against one state of the node and its block
against a later one. What carries over is that the tip tells the whole chain: a block's hash
its header, the header the previous hash, and the Merkle root the body, so that
two chains with one tip are the same (`SameTip`). So what the node saw when it
drafted holds on every chain with that tip (`Fits`): that inputs are there, which
fees they leave, the subsidy. Fees do not depend on the set as long as the inputs are in it
(`FeeIsNat`, `FeesOver`). `SourcesOK` (`RootsOK` again, and the mempool) says this of whatever transactions the
node can draft from, `ProductsOK` of whatever is on its way between
node, loop and thread. The hypotheses are where the code
does not keep the promise: the Merkle root of a first block is not looked at
(`blockchain.rs:85`), so its hash has to tell its body for another reason
(`FirstOnce`); a block must be later than the one before it, which a clock that
goes back breaks (`Later`); and a template carries the node's target but is held to
that of the last header (`blockchain.rs:102`), so the first template after a retarget
that made things easier is refused (`NotEased`; in the run `mining` no
retarget falls into the instance, and all three hold of it).

*The wallet's calls.* `AnswersOK` is about the connection: over gRPC there is at most one
call at a time, over TCP at most one that will be answered, and in both cases
whoever made it waits for it. When the mutex is free nothing is on its way that
will be answered (`FreeIsCalm`), and so the next request gets its own answer.
`KeptOK` and `PlacesOK` say what the wallet has and where its tasks are. That the node
lists its outputs in a sequence needs that there are finitely many of them,
which follows from its chain (`UnspentFinite`).

*The wallet's payments.* `PayInv` says of the copy that what is kept under a key
are outputs of that key, each once, however old they are (`CopyOK`), and of an
answer on its way that it is about the key that was asked for (`AskedOK`): one
of the two tasks may overwrite the copy while the other pays from it, but only
with such a list. So what a payment spends are different outputs, each signed with its
key, worth the amount, the fee and the change (`PaidOK`, `WellMade`), and the
node takes it if they are still unspent; in a release build of the node under
`AmountsFit`, since then the supply bounds what it can spend. `HistoryOK`, of the chain
in memory and the saved one, says that what is confirmed was signed by the owners of
what it spends, and the wallet's payments had reached the network. Then block by
block the wallet's coins are its incomes less what its confirmed payments
pay and one fee for each.

The node theorems make all of *Chain state* hold of a node with a miner or a
wallet attached, restarts included.

### Only model-checked

Everything temporal under fairness: liveness and ENABLED are out of the provers'
reach. These are `MempoolDrains`, `MarksReleased`, `StaleDropped`,
`HalvingReached`, `CopyFollows`, `QueueDrains`, `CatchesUp`, `ComesUp`,
`Quiesces`, `TxSpreads`, `Spreads`, `Calms`, `StartsAgain`, `SubmissionsEnd` and
`Arrives`. Also that the closed forms of the loops are what the loops compute
(`MCBlockchainLoops`, on every small input). Every invariant that a
run checks is a theorem.

## 5. Not modelled, and the plan

Left out for good: cryptography, CBOR and framing (taken by their contract),
UI, logging, argument parsing, one-shot tools, graceful shutdown (it ends tasks
without touching state, except for the wallet's queue). Partly modelled
components leave out: in the networks, the expiry of mempools and shards
that hold two subscribers; full socket buffers between TCP nodes; in the wallet, amounts
of zero and fees in percent.

Next, if the project goes on: the loops of `MCBlockchainLoops` as theorems, with
the induction of `Sums`; that a template is taken also across an easing retarget
when the target of the template is no easier than that of the last header; and a
capacity for the sockets between TCP nodes.
