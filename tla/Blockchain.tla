----------------------------- MODULE Blockchain -----------------------------
(***************************************************************************)
(* The state every node keeps behind its BLOCKCHAIN lock                   *)
(* (lib/src/blockchain.rs, lib/src/blockchain/*.rs) and the tasks of a     *)
(* node that change it (node/src/blockchain.rs).  One action is one        *)
(* critical section of that lock.  Networks, miners and wallets appear as  *)
(* the environment: they offer any transaction of Txs and any block of     *)
(* Blocks at any time, in any order, any number of times.                  *)
(*                                                                         *)
(* SHA-256 is taken to be collision free: an output and a transaction are  *)
(* their own hashes; a block carries the hash of its header as a number,   *)
(* because proof of work compares it.  Header fields lie directly in the   *)
(* block record.  A signature is the key that made it.                     *)
(***************************************************************************)
EXTENDS Integers, Sequences, SequencesExt, FiniteSetsExt, Functions, MerkleRoot

CONSTANTS
  Txs,      \* the transactions that may be submitted to the node
  Blocks,   \* the blocks that may be submitted to the node
  INITIAL_REWARD, HALVING_INTERVAL, IDEAL_BLOCK_TIME, MIN_TARGET,
  DIFFICULTY_UPDATE_INTERVAL, MAX_MEMPOOL_TRANSACTION_AGE,
  U64, U256,        \* 2^64 and 2^256, smaller when model checking
  OverflowChecks    \* TRUE: debug build, overflow panics; FALSE: release, it wraps

VARIABLES
  blocks,      \* the chain, a sequence of blocks
  utxo_set,    \* unspent output -> its 'referenced by a tx in mempool' flag
  target,      \* the difficulty target for the next block
  mempool,     \* sequence of [tx, age]; age in seconds since insertion
  disk         \* the saved file: [status, blocks, utxo_set, target]

vars == <<blocks, utxo_set, target, mempool, disk>>

-----------------------------------------------------------------------------
(* Transactions *)

SpentBy(tx)   == {tx.inputs[k].prev_tx_output_hash : k \in DOMAIN tx.inputs}
CreatedBy(tx) == Range(tx.outputs)
InputsDiffer(tx) ==
  \A i, j \in DOMAIN tx.inputs :
    tx.inputs[i].prev_tx_output_hash = tx.inputs[j].prev_tx_output_hash => i = j

AllTxs     == Txs \cup UNION {Range(b.transactions) : b \in Blocks}
AllOutputs == UNION {CreatedBy(tx) : tx \in AllTxs}
Timestamp  == Nat   \* milliseconds
Millis     == 1000

ASSUME NumbersAssumption ==
  /\ {HALVING_INTERVAL, IDEAL_BLOCK_TIME, DIFFICULTY_UPDATE_INTERVAL,
      U64, U256} \subseteq Nat \ {0}
  /\ {INITIAL_REWARD, MIN_TARGET, MAX_MEMPOOL_TRANSACTION_AGE} \subseteq Nat
  /\ OverflowChecks \in BOOLEAN

(* Outputs carry a fresh random id (transaction.rs:83), so an output       *)
(* belongs to one transaction, and once.                                   *)
ASSUME OutputsAssumption ==
  /\ \A t, u \in AllTxs : t # u => CreatedBy(t) \cap CreatedBy(u) = {}
  /\ \A t \in AllTxs : \A i, j \in DOMAIN t.outputs :
       t.outputs[i] = t.outputs[j] => i = j

ASSUME TxsAssumption ==
  /\ \A t \in AllTxs :
       /\ t.inputs  \in Seq([prev_tx_output_hash : AllOutputs,
                             signature : {o.pubkey : o \in AllOutputs}])
       /\ t.outputs \in Seq(AllOutputs)
  /\ \A o \in AllOutputs : o.amount \in Nat
  /\ \A t \in Txs : t.inputs # <<>>

(* A hash determines its header; none is zero.  A coinbase output is made  *)
(* by FetchTemplate for one template, and mining never changes the         *)
(* previous hash of a template (block.rs:226-248).  A transaction after    *)
(* the coinbase spends something: one without inputs could be repeated.    *)
ASSUME BlocksAssumption ==
  /\ Blocks \subseteq [hash : Nat \ {0}, prev_block_hash : Nat, timestamp : Timestamp,
                       target : Nat, merkle_root : {b.merkle_root : b \in Blocks},
                       transactions : Seq(AllTxs)]
  /\ \A b \in Blocks : \A k \in 2..Len(b.transactions) : b.transactions[k].inputs # <<>>
  /\ \A b, c \in Blocks : b.hash = c.hash => b = [c EXCEPT !.transactions = b.transactions]
  /\ \A b, c \in Blocks :
       /\ b.transactions # <<>> /\ c.transactions # <<>>
       /\ Head(b.transactions).outputs # <<>>
       /\ Head(b.transactions) = Head(c.transactions)
       => b.prev_block_hash = c.prev_block_hash

(* u64 arithmetic: an overflow panics in a debug build, wraps in release.  *)
Panics(n) == OverflowChecks /\ n \notin 0..(U64 - 1)
Wrap(n)   == n % U64

(* The inputs that are no longer in the set count nothing (Tx::fee).       *)
InputSum(utxo, tx) ==
  MapThenSumSet(LAMBDA k : LET o == tx.inputs[k].prev_tx_output_hash
                           IN  IF o \in DOMAIN utxo THEN o.amount ELSE 0,
                DOMAIN tx.inputs)
OutputSum(tx) == MapThenSumSet(LAMBDA k : tx.outputs[k].amount, DOMAIN tx.outputs)

SumsPanic(utxo, tx) == Panics(InputSum(utxo, tx)) \/ Panics(OutputSum(tx))
Overspends(utxo, tx) == Wrap(InputSum(utxo, tx)) < Wrap(OutputSum(tx))

(* Tx::fee subtracts without a check.                                      *)
Fee(utxo, tx)       == Wrap(InputSum(utxo, tx) - OutputSum(tx))
FeePanics(utxo, tx) ==
  SumsPanic(utxo, tx) \/ Panics(InputSum(utxo, tx) - OutputSum(tx))

-----------------------------------------------------------------------------
(* Chains *)

Positions(chain) ==
  UNION {{i} \X DOMAIN chain[i].transactions : i \in DOMAIN chain}
TxAt(chain, p)   == chain[p[1]].transactions[p[2]]
Before(p, q)     == p[1] < q[1] \/ (p[1] = q[1] /\ p[2] < q[2])
Confirmed(chain) == UNION {Range(chain[i].transactions) : i \in DOMAIN chain}

(* The outputs whose last appearance in the chain is their creation; a     *)
(* transaction's inputs are removed before its outputs are inserted.       *)
Unspent(chain) ==
  UNION {{o \in CreatedBy(TxAt(chain, p)) :
            \A q \in Positions(chain) : Before(p, q) => o \notin SpentBy(TxAt(chain, q))}
         : p \in Positions(chain)}

(* Mutants of RebuildUtxoSet: inputs are not removed; flags are kept.      *)
RebuildInsertOnly(chain, utxo) ==
  [o \in UNION {CreatedBy(tx) : tx \in Confirmed(chain)} |-> FALSE]
RebuildKeepsFlags(chain, utxo) ==
  [o \in Unspent(chain) |-> o \in DOMAIN utxo /\ utxo[o]]

(* Replaying every block over the set there was: what the chain touches is *)
(* in the set exactly when unspent, and its flag is reset.                 *)
RebuildUtxoSet(chain, utxo) ==
  LET untouched == {o \in DOMAIN utxo : \A tx \in Confirmed(chain) :
                                          o \notin SpentBy(tx) \cup CreatedBy(tx)}
  IN  [o \in Unspent(chain) \cup untouched |-> o \in untouched /\ utxo[o]]

RetargetDue(chain) ==
  chain # <<>> /\ Len(chain) % DIFFICULTY_UPDATE_INTERVAL = 0
MeasuredTarget(chain, t) ==
  LET start   == chain[Len(chain) - DIFFICULTY_UPDATE_INTERVAL + 1].timestamp
      seconds == (Last(chain).timestamp - start) \div Millis
  IN  (t * seconds) \div (IDEAL_BLOCK_TIME * DIFFICULTY_UPDATE_INTERVAL)
(* The product must fit 256 bits: expect("should be valid string").        *)
RetargetPanics(chain, t) == RetargetDue(chain) /\ MeasuredTarget(chain, t) >= U256

(* Mutant of AdjustTarget: no cap at MIN_TARGET.                           *)
AdjustTargetUncapped(chain, t) ==
  IF ~RetargetDue(chain) THEN t
  ELSE LET new == MeasuredTarget(chain, t)
       IN  IF new < t \div 4 THEN t \div 4 ELSE IF new > t * 4 THEN t * 4 ELSE new

AdjustTarget(chain, t) ==
  IF ~RetargetDue(chain) THEN t
  ELSE LET new     == MeasuredTarget(chain, t)
           clamped == IF new < t \div 4 THEN t \div 4
                      ELSE IF new > t * 4 THEN t * 4 ELSE new
       IN  IF clamped < MIN_TARGET THEN clamped ELSE MIN_TARGET

-----------------------------------------------------------------------------
(* Block validation *)

(* 2u64.pow(n), as the product it is: the provers know no law of a power.  *)
PowerOfTwo(n) ==
  LET pow[k \in 0..n] == IF k = 0 THEN 1 ELSE 2 * pow[k - 1]
  IN  pow[n]
RewardDivisor(height) == PowerOfTwo(height \div HALVING_INTERVAL)

(* Mutant of CoinbaseOK: the coinbase may pay more than is due.            *)
CoinbaseAtLeast(coinbase, height, fees) ==
  /\ coinbase.inputs = <<>>
  /\ coinbase.outputs # <<>>
  /\ OutputSum(coinbase) >= INITIAL_REWARD \div RewardDivisor(height) + fees

(* verify_coinbase_transaction: the coinbase pays exactly subsidy + fees.  *)
CoinbaseOK(coinbase, height, fees) ==
  /\ coinbase.inputs = <<>>
  /\ coinbase.outputs # <<>>
  /\ RewardDivisor(height) < U64
  /\ LET due == INITIAL_REWARD \div RewardDivisor(height) + fees
     IN  /\ ~Panics(OutputSum(coinbase)) /\ ~Panics(due)
         /\ Wrap(OutputSum(coinbase)) = Wrap(due)

(* The inputs of a block's transactions, the coinbase left out.            *)
InputSlots(b) ==
  UNION {{k} \X DOMAIN b.transactions[k].inputs : k \in 2..Len(b.transactions)}
InputAt(b, s) == b.transactions[s[1]].inputs[s[2]]

(* calculate_miner_fees / the sum verify_transactions keeps.               *)
MinerFees(b, utxo) ==
  MapThenSumSet(LAMBDA k : Wrap(InputSum(utxo, b.transactions[k]))
                             - Wrap(OutputSum(b.transactions[k])),
                2..Len(b.transactions))

(* Mutant of VerifyTransactions: spent_outputs starts anew with each       *)
(* transaction.                                                            *)
VerifyTxByTx(b, height, utxo) ==
  /\ b.transactions # <<>>
  /\ \A s \in InputSlots(b) :
       /\ InputAt(b, s).prev_tx_output_hash \in DOMAIN utxo
       /\ InputAt(b, s).signature = InputAt(b, s).prev_tx_output_hash.pubkey
  /\ \A k \in 2..Len(b.transactions) : ~Overspends(utxo, b.transactions[k])
  /\ CoinbaseOK(Head(b.transactions), height, Wrap(MinerFees(b, utxo)))

VerifyTransactions(b, height, utxo) ==
  /\ b.transactions # <<>>
  /\ \A s \in InputSlots(b) :
       /\ InputAt(b, s).prev_tx_output_hash \in DOMAIN utxo
       /\ InputAt(b, s).signature = InputAt(b, s).prev_tx_output_hash.pubkey
  /\ \A s, r \in InputSlots(b) :
       InputAt(b, s).prev_tx_output_hash = InputAt(b, r).prev_tx_output_hash => s = r
  /\ \A k \in 2..Len(b.transactions) :
       /\ ~SumsPanic(utxo, b.transactions[k])
       /\ ~Overspends(utxo, b.transactions[k])
  /\ ~Panics(MinerFees(b, utxo))
  /\ CoinbaseOK(Head(b.transactions), height, Wrap(MinerFees(b, utxo)))

(* The checks of add_block.  The first block needs no proof of work, no    *)
(* Merkle root and no later timestamp; a later one is held against the     *)
(* target in the header of its predecessor.                                *)
LinksTo(b, chain) ==
  IF chain = <<>> THEN b.prev_block_hash = 0
  ELSE /\ b.prev_block_hash = Last(chain).hash
       /\ b.hash <= Last(chain).target
       /\ b.merkle_root = Calculate(b.transactions)
       /\ b.timestamp > Last(chain).timestamp

Acceptable(b) ==
  LinksTo(b, blocks) /\ VerifyTransactions(b, Len(blocks), utxo_set)

-----------------------------------------------------------------------------
(* The mempool *)

MempoolTxs == {e.tx : e \in Range(mempool)}

Mark(utxo, outputs)   == [o \in DOMAIN utxo |-> utxo[o] \/ o \in outputs]
UnmarkNothing(utxo, outputs) == utxo   \* a mutant of Unmark
Unmark(utxo, outputs) == [o \in DOMAIN utxo |-> utxo[o] /\ o \notin outputs]

(* Ways to list a set of positions, and the entries at these positions.    *)
Listings(K)      == Bijection(1..Cardinality(K), K)
InOrder(f)       == \A i, j \in DOMAIN f : i < j => f[i] < f[j]
Entries(pool, f) == [i \in DOMAIN f |-> pool[f[i]]]

(* Mutant of Retain: everything is retained.                               *)
RetainAll(K) == mempool' = mempool

(* Vec::retain: the entries of the mempool at K, in their order.           *)
Retain(K) == \E f \in Listings(K) : InOrder(f) /\ mempool' = Entries(mempool, f)

(* sort_by_key is stable and ascending.  When a key panics the entries are *)
(* all there, in an unspecified order; one entry alone is not compared.    *)
SortedByFee(pool, utxo, f) ==
  LET key(i) == Fee(utxo, pool[f[i]].tx)
  IN  \A i, j \in DOMAIN f : i < j => key(i) < key(j) \/ (key(i) = key(j) /\ f[i] < f[j])
SortPanics(pool, utxo) ==
  Len(pool) > 1 /\ \E i \in DOMAIN pool : FeePanics(utxo, pool[i].tx)

(* One round of the replacement loop of add_to_mempool.  The transaction   *)
(* it removes is one that creates the output, not one that spends it.      *)
Makers(pool, o) == {i \in DOMAIN pool : o \in CreatedBy(pool[i].tx)}
ReplaceRound(tx, st, input) ==
  LET o     == input.prev_tx_output_hash
      i     == Min(Makers(st.pool, o))
      older == st.pool[i].tx
  IN  IF st.stop \/ ~st.utxo[o] THEN st
      ELSE IF Makers(st.pool, o) = {} THEN [st EXCEPT !.utxo = Unmark(@, {o})]
      ELSE IF \/ FeePanics(st.utxo, older) \/ FeePanics(st.utxo, tx)
              \/ Fee(st.utxo, older) > Fee(st.utxo, tx)
           THEN [st EXCEPT !.stop = TRUE]
      ELSE [st EXCEPT !.utxo = Unmark(@, SpentBy(older)), !.pool = RemoveAt(@, i)]

(* The whole loop.  Without a maker in the mempool every round comes to    *)
(* clearing one flag.                                                      *)
Replace(tx, utxo, pool) ==
  LET st == [utxo |-> utxo, pool |-> pool, stop |-> FALSE]
  IN  IF \A o \in SpentBy(tx) : Makers(pool, o) = {}
      THEN [st EXCEPT !.utxo = Unmark(@, SpentBy(tx))]
      ELSE FoldLeft(LAMBDA s, input : ReplaceRound(tx, s, input), st, tx.inputs)

-----------------------------------------------------------------------------
(* Actions *)

Absent == [status |-> "absent", blocks |-> <<>>, utxo_set |-> <<>>, target |-> MIN_TARGET]
Torn   == [Absent EXCEPT !.status = "torn"]

(* A node that finds a torn file cannot load it and does not start.        *)
Running == disk.status # "torn"

(* Blockchain::new()                                                       *)
Init ==
  /\ blocks = <<>> /\ utxo_set = <<>>
  /\ target = MIN_TARGET
  /\ mempool = <<>>
  /\ disk = Absent

(* add_block, and rebuild_utxo_set under the same lock.  A retarget that   *)
(* panics leaves the block in the chain and the utxo set as it was.        *)
AddBlock(b) ==
  /\ Running
  /\ Acceptable(b)
  /\ blocks' = Append(blocks, b)
  /\ Retain({i \in DOMAIN mempool : mempool[i].tx \notin Range(b.transactions)})
  /\ IF RetargetPanics(blocks', target)
     THEN UNCHANGED <<target, utxo_set>>
     ELSE /\ target' = AdjustTarget(blocks', target)
          /\ utxo_set' = RebuildUtxoSet(blocks', utxo_set)
  /\ UNCHANGED disk

AddToMempool(tx) ==
  /\ Running
  /\ tx \notin MempoolTxs
  /\ SpentBy(tx) \subseteq DOMAIN utxo_set
  /\ InputsDiffer(tx)
  /\ LET r    == Replace(tx, utxo_set, mempool)
         pool == Append(r.pool, [tx |-> tx, age |-> 0])
     IN  IF r.stop \/ SumsPanic(utxo_set, tx) \/ Overspends(utxo_set, tx)
         THEN utxo_set' = r.utxo /\ mempool' = r.pool
         ELSE /\ utxo_set' = Mark(r.utxo, SpentBy(tx))
              /\ \E f \in Listings(DOMAIN pool) :
                   /\ SortPanics(pool, utxo_set) \/ SortedByFee(pool, utxo_set, f)
                   /\ mempool' = Entries(pool, f)
  /\ UNCHANGED <<blocks, target, disk>>

(* A synchronisation that got blocks from a peer ends with two critical    *)
(* sections of its own: the set is rebuilt and the target is adjusted once *)
(* more.  When that happens is up to the peers.                            *)
Rebuild ==
  /\ Running
  /\ utxo_set' = RebuildUtxoSet(blocks, utxo_set)
  /\ UNCHANGED <<blocks, target, mempool, disk>>

Readjust ==
  /\ Running
  /\ ~RetargetPanics(blocks, target)
  /\ target' = AdjustTarget(blocks, target)
  /\ UNCHANGED <<blocks, utxo_set, mempool, disk>>

(* A second passes.  An entry's age is followed until it counts as old.    *)
Tick ==
  /\ Running
  /\ mempool' = [i \in DOMAIN mempool |->
                   [tx  |-> mempool[i].tx,
                    age |-> IF mempool[i].age > MAX_MEMPOOL_TRANSACTION_AGE
                            THEN mempool[i].age ELSE mempool[i].age + 1]]
  /\ UNCHANGED <<blocks, utxo_set, target, disk>>

(* The 30 second task.                                                     *)
CleanupMempool ==
  LET old == {i \in DOMAIN mempool : mempool[i].age > MAX_MEMPOOL_TRANSACTION_AGE}
  IN  /\ Running
      /\ Retain(DOMAIN mempool \ old)
      /\ utxo_set' = Unmark(utxo_set, UNION {SpentBy(mempool[i].tx) : i \in old})
      /\ UNCHANGED <<blocks, target, disk>>

(* The 15 second task, and graceful shutdown.  The mempool is not saved.   *)
Save ==
  /\ Running
  /\ disk' = [status |-> "saved", blocks |-> blocks, utxo_set |-> utxo_set,
              target |-> target]
  /\ UNCHANGED <<blocks, utxo_set, target, mempool>>

(* File::create truncates the old file before the new one is written.  The *)
(* node that goes down there never runs again: memory keeps its last value.*)
CrashWhileSaving ==
  /\ Running
  /\ disk' = Torn
  /\ UNCHANGED <<blocks, utxo_set, target, mempool>>

(* The process ends and starts again: load_from_file, or new() when there  *)
(* is no file (rebuild and retarget then change nothing).                  *)
Restart ==
  /\ Running
  /\ ~RetargetPanics(disk.blocks, disk.target)
  /\ blocks' = disk.blocks
  /\ utxo_set' = RebuildUtxoSet(disk.blocks, disk.utxo_set)
  /\ target' = AdjustTarget(disk.blocks, disk.target)
  /\ mempool' = <<>>
  /\ UNCHANGED disk

Next ==
  \/ \E b \in Blocks : AddBlock(b)
  \/ \E tx \in Txs : AddToMempool(tx)
  \/ Rebuild
  \/ Readjust
  \/ Tick
  \/ CleanupMempool
  \/ Save
  \/ CrashWhileSaving
  \/ Restart

Spec == Init /\ [][Next]_vars

(* Time passes and the interval timer of the cleanup task keeps firing.    *)
FairSpec == Spec /\ WF_vars(Tick) /\ WF_vars(CleanupMempool)

-----------------------------------------------------------------------------
(* Properties *)

(* Every variable has its type; the target never gets easier than          *)
(* MIN_TARGET (blockchain.rs:201).                                         *)
TypeOK ==
  /\ blocks \in Seq(Blocks)
  /\ DOMAIN utxo_set \subseteq AllOutputs
  /\ utxo_set \in [DOMAIN utxo_set -> BOOLEAN]
  /\ target \in 0..MIN_TARGET
  /\ mempool \in Seq([tx : Txs, age : 0..(MAX_MEMPOOL_TRANSACTION_AGE + 1)])
  /\ disk.status \in {"absent", "saved", "torn"}
  /\ disk.blocks \in Seq(Blocks)
  /\ DOMAIN disk.utxo_set \subseteq AllOutputs
  /\ disk.utxo_set \in [DOMAIN disk.utxo_set -> BOOLEAN]
  /\ disk.target \in 0..MIN_TARGET

(* The set that is patched block by block, saved, loaded and replayed over *)
(* (rebuild_utxo_set never clears it) is always the set of outputs of the  *)
(* chain that no transaction of the chain has spent.                       *)
UtxoIsUnspent == DOMAIN utxo_set = Unspent(blocks)

(* No two inputs of the chain, in one block or in different ones, spend    *)
(* the same output, and every output spent was created in an earlier block *)
(* (verify_transactions checks each block against the set alone).          *)
SpendsOnce(chain) ==
  \A p, q \in Positions(chain) :
    p # q => SpentBy(TxAt(chain, p)) \cap SpentBy(TxAt(chain, q)) = {}
SpendsEarlier(chain) ==
  \A p \in Positions(chain) : \A o \in SpentBy(TxAt(chain, p)) :
    \E q \in Positions(chain) : q[1] < p[1] /\ o \in CreatedBy(TxAt(chain, q))

NoDoubleSpend ==
  /\ SpendsOnce(blocks)
  /\ \A tx \in Confirmed(blocks) : InputsDiffer(tx)
  /\ SpendsEarlier(blocks)

(* Money is made by subsidies alone: the coins add up to the subsidies of  *)
(* the blocks there are, fees neither lost nor paid twice.                 *)
SupplyIsSubsidy ==
  MapThenSumSet(LAMBDA o : o.amount, DOMAIN utxo_set)
    = MapThenSumSet(LAMBDA i : INITIAL_REWARD \div PowerOfTwo((i - 1) \div HALVING_INTERVAL),
                    DOMAIN blocks)

(* No output stays reserved for nobody: a flag that is set belongs to a    *)
(* transaction waiting in the mempool, through blocks, expiry, failed      *)
(* insertions and restarts (wallets never spend a flagged output).         *)
MarkIsReferenced ==
  \A o \in DOMAIN utxo_set : utxo_set[o] => \E tx \in MempoolTxs : o \in SpentBy(tx)

(* A transaction that is in the chain is not waiting for a block any more, *)
(* also when it comes back after its block or a restart.                   *)
MempoolUnconfirmed == MempoolTxs \cap Confirmed(blocks) = {}

(* After the first block a header settles the transactions: when the chain *)
(* has held a block with one body (a last transaction repeated gives the   *)
(* same Merkle root), it never holds the one with another, through forks   *)
(* between saves and restarts (verify_transactions, load_from_file).       *)
Twins ==
  {tw \in Blocks \X Blocks :
     tw[1] # tw[2] /\ tw[1].hash = tw[2].hash /\ tw[1].prev_block_hash # 0}
HeaderDeterminesBody ==
  \A tw \in Twins : [](tw[1] \in Range(blocks) => [](tw[2] \notin Range(blocks)))

(* Every transaction leaves the mempool, by a block, by age or with the    *)
(* process: one that no block will ever take does not stay.                *)
Waiting(tx)   == Running /\ tx \in MempoolTxs
MempoolDrains == \A tx \in Txs : Waiting(tx) ~> ~Waiting(tx)

(* Every reserved output becomes spendable again or is gone.  (Only what a *)
(* transaction of Txs spends is ever reserved.)                            *)
Marked(o)     == Running /\ o \in DOMAIN utxo_set /\ utxo_set[o]
MarksReleased ==
  \A o \in UNION {SpentBy(tx) : tx \in Txs} : Marked(o) ~> ~Marked(o)

(* The node implements the ledger: the chain is the log and the keys of    *)
(* the utxo set are the coins.                                             *)
LedgerLog(chain) ==
  [i \in DOMAIN chain |->
     [k \in DOMAIN chain[i].transactions |->
        [spends  |-> SpentBy(chain[i].transactions[k]),
         creates |-> CreatedBy(chain[i].transactions[k])]]]
L == INSTANCE Ledger WITH log <- LedgerLog(blocks), coins <- DOMAIN utxo_set
ImplementsLedger == L!Spec
=============================================================================
