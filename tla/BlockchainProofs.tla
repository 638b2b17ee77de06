-------------------------- MODULE BlockchainProofs --------------------------
(***************************************************************************)
(* Theorems about Blockchain.                                              *)
(***************************************************************************)
EXTENDS Blockchain, Sums

(* No measured target leaves 256 bits: at MIN_TARGET that means that the   *)
(* DIFFICULTY_UPDATE_INTERVAL blocks of a retarget took less than about a  *)
(* year.  Without it add_block stops half way (see AddBlock).              *)
ASSUME RetargetFits ==
  \A b, c \in Blocks : \A t \in 0..MIN_TARGET :
    (t * ((c.timestamp - b.timestamp) \div Millis))
      \div (IDEAL_BLOCK_TIME * DIFFICULTY_UPDATE_INTERVAL) < U256

-----------------------------------------------------------------------------
(* Chains *)

(* Every header follows the one before it.                                 *)
Linked(chain) ==
  \A i \in DOMAIN chain :
    chain[i].prev_block_hash = IF i = 1 THEN 0 ELSE chain[i - 1].hash
Timed(chain) ==
  \A i, j \in DOMAIN chain : i < j => chain[i].timestamp < chain[j].timestamp
Headed(chain) ==
  \A i \in DOMAIN chain :
    /\ chain[i].transactions # <<>>
    /\ chain[i].transactions[1].inputs = <<>>
    /\ chain[i].transactions[1].outputs # <<>>
CreatesOnce(chain) ==
  \A p, q \in Positions(chain) :
    p # q => CreatedBy(TxAt(chain, p)) \cap CreatedBy(TxAt(chain, q)) = {}

(* What is true of every chain a node holds.                               *)
ChainOK(chain) ==
  /\ chain \in Seq(Blocks)
  /\ Linked(chain) /\ Timed(chain) /\ Headed(chain)
  /\ CreatesOnce(chain)
  /\ SpendsOnce(chain) /\ SpendsEarlier(chain)
  /\ \A tx \in Confirmed(chain) : InputsDiffer(tx)

LEMMA BlockFacts ==
  /\ \A b \in Blocks :
       /\ b.hash \in Nat \ {0} /\ b.prev_block_hash \in Nat
       /\ b.timestamp \in Nat /\ b.target \in Nat
       /\ b.transactions \in Seq(AllTxs)
       /\ \A k \in 2..Len(b.transactions) : b.transactions[k].inputs # <<>>
  /\ \A b, c \in Blocks : b.hash = c.hash => b.timestamp = c.timestamp
  /\ \A b, c \in Blocks :
       /\ b.transactions # <<>> /\ c.transactions # <<>>
       /\ Head(b.transactions).outputs # <<>>
       /\ Head(b.transactions) = Head(c.transactions)
       => b.prev_block_hash = c.prev_block_hash
<1> DEFINE B == [hash : Nat \ {0}, prev_block_hash : Nat, timestamp : Nat, target : Nat,
                 merkle_root : {b.merkle_root : b \in Blocks}, transactions : Seq(AllTxs)]
<1>1. Blocks \subseteq B
  BY BlocksAssumption DEF Timestamp
<1>2. \A b \in B : /\ b.hash \in Nat \ {0} /\ b.prev_block_hash \in Nat
                   /\ b.timestamp \in Nat /\ b.target \in Nat
                   /\ b.transactions \in Seq(AllTxs)
  OBVIOUS
<1>3. \A b \in B : \A txs : [b EXCEPT !.transactions = txs].timestamp = b.timestamp
  OBVIOUS
<1> HIDE DEF B
<1>4. \A b, c \in Blocks : b.hash = c.hash => b.timestamp = c.timestamp
  BY <1>1, <1>3, BlocksAssumption
<1> QED
  BY <1>1, <1>2, <1>4, BlocksAssumption

LEMMA PositionsOf ==
  ASSUME NEW chain, NEW p
  PROVE  p \in Positions(chain) <=>
           /\ p = <<p[1], p[2]>>
           /\ p[1] \in DOMAIN chain
           /\ p[2] \in DOMAIN chain[p[1]].transactions
BY DEF Positions

LEMMA TxAtType ==
  ASSUME NEW chain \in Seq(Blocks), NEW p \in Positions(chain)
  PROVE  /\ TxAt(chain, p) \in AllTxs
         /\ TxAt(chain, p) \in Confirmed(chain)
<1>1. /\ p[1] \in DOMAIN chain
      /\ p[2] \in DOMAIN chain[p[1]].transactions
  BY PositionsOf
<1>2. chain[p[1]] \in Blocks
  BY <1>1
<1>3. chain[p[1]].transactions \in Seq(AllTxs)
  BY <1>2, BlockFacts
<1> QED
  BY <1>1, <1>3 DEF TxAt, Confirmed, Range

LEMMA ConfirmedAt ==
  ASSUME NEW chain, NEW tx \in Confirmed(chain)
  PROVE  \E p \in Positions(chain) : tx = TxAt(chain, p)
<1>1. PICK i \in DOMAIN chain : tx \in Range(chain[i].transactions)
  BY DEF Confirmed
<1>2. PICK k \in DOMAIN chain[i].transactions : tx = chain[i].transactions[k]
  BY <1>1 DEF Range
<1>3. <<i, k>> \in Positions(chain)
  BY <1>1, <1>2 DEF Positions
<1> QED
  BY <1>2, <1>3 DEF TxAt

(* An output that a transaction of the chain spends is not unspent.        *)
LEMMA SpentIsNotUnspent ==
  ASSUME NEW chain, ChainOK(chain), NEW p \in Positions(chain)
  PROVE  SpentBy(TxAt(chain, p)) \cap Unspent(chain) = {}
<1> SUFFICES ASSUME NEW o \in SpentBy(TxAt(chain, p)), o \in Unspent(chain)
             PROVE  FALSE
  OBVIOUS
<1>1. PICK q \in Positions(chain) : q[1] < p[1] /\ o \in CreatedBy(TxAt(chain, q))
  BY DEF ChainOK, SpendsEarlier
<1>2. PICK r \in Positions(chain) :
        /\ o \in CreatedBy(TxAt(chain, r))
        /\ \A s \in Positions(chain) : Before(r, s) => o \notin SpentBy(TxAt(chain, s))
  BY DEF Unspent
<1>3. r = q
  BY <1>1, <1>2 DEF ChainOK, CreatesOnce
<1> QED
  BY <1>1, <1>2, <1>3 DEF Before

LEMMA UnspentIsCreated ==
  ASSUME NEW chain, NEW o \in Unspent(chain)
  PROVE  \E p \in Positions(chain) : o \in CreatedBy(TxAt(chain, p))
BY DEF Unspent

LEMMA SpendsSomething ==
  ASSUME NEW tx, tx \in AllTxs, tx.inputs # <<>>
  PROVE  SpentBy(tx) # {}
<1>1. tx.inputs \in Seq([prev_tx_output_hash : AllOutputs,
                         signature : {o.pubkey : o \in AllOutputs}])
  BY TxsAssumption
<1>2. 1 \in DOMAIN tx.inputs
  BY <1>1
<1> QED
  BY <1>2 DEF SpentBy

(* What verify_transactions establishes about the body of a block.         *)
LEMMA VerifiedBlock ==
  ASSUME NEW b \in Blocks, NEW h, NEW utxo, VerifyTransactions(b, h, utxo)
  PROVE  /\ b.transactions \in Seq(AllTxs) /\ b.transactions # <<>>
         /\ b.transactions[1].inputs = <<>> /\ b.transactions[1].outputs # <<>>
         /\ \A k \in DOMAIN b.transactions :
              /\ SpentBy(b.transactions[k]) \subseteq DOMAIN utxo
              /\ InputsDiffer(b.transactions[k])
         /\ \A j, k \in DOMAIN b.transactions : j # k =>
              /\ SpentBy(b.transactions[j]) \cap SpentBy(b.transactions[k]) = {}
              /\ CreatedBy(b.transactions[j]) \cap CreatedBy(b.transactions[k]) = {}
<1> DEFINE txs == b.transactions
<1>1. txs \in Seq(AllTxs) /\ txs # <<>>
  BY BlockFacts DEF VerifyTransactions
<1>2. txs[1].inputs = <<>> /\ txs[1].outputs # <<>>
  <2>1. Head(txs) = txs[1]
    BY <1>1
  <2> QED
    BY <2>1 DEF VerifyTransactions, CoinbaseOK
<1>3. SpentBy(txs[1]) = {}
  BY <1>2 DEF SpentBy
<1>4. \A k \in DOMAIN txs : \A i \in DOMAIN txs[k].inputs :
        k # 1 /\ <<k, i>> \in InputSlots(b)
  <2> SUFFICES ASSUME NEW k \in DOMAIN txs, NEW i \in DOMAIN txs[k].inputs
               PROVE  k # 1 /\ <<k, i>> \in InputSlots(b)
    OBVIOUS
  <2>1. k # 1
    BY <1>2
  <2>2. k \in 2..Len(txs)
    BY <1>1, <2>1
  <2> QED
    BY <2>1, <2>2 DEF InputSlots
<1>5. \A s, r \in InputSlots(b) :
        InputAt(b, s).prev_tx_output_hash = InputAt(b, r).prev_tx_output_hash => s = r
  BY DEF VerifyTransactions
<1>6. \A s \in InputSlots(b) : InputAt(b, s).prev_tx_output_hash \in DOMAIN utxo
  BY DEF VerifyTransactions
<1>7. ASSUME NEW k \in DOMAIN txs
      PROVE  SpentBy(txs[k]) \subseteq DOMAIN utxo /\ InputsDiffer(txs[k])
  <2>1. SpentBy(txs[k]) \subseteq DOMAIN utxo
    BY <1>4, <1>6 DEF SpentBy, InputAt
  <2>2. ASSUME NEW i \in DOMAIN txs[k].inputs, NEW j \in DOMAIN txs[k].inputs,
               txs[k].inputs[i].prev_tx_output_hash = txs[k].inputs[j].prev_tx_output_hash
        PROVE  i = j
    <3>1. <<k, i>> = <<k, j>>
      BY <1>4, <1>5, <2>2 DEF InputAt
    <3> QED
      BY <3>1
  <2> QED
    BY <2>1, <2>2 DEF InputsDiffer
<1>8. ASSUME NEW j \in DOMAIN txs, NEW k \in DOMAIN txs, j # k
      PROVE  SpentBy(txs[j]) \cap SpentBy(txs[k]) = {}
  <2> SUFFICES ASSUME NEW x \in DOMAIN txs[j].inputs, NEW y \in DOMAIN txs[k].inputs,
                      txs[j].inputs[x].prev_tx_output_hash
                        = txs[k].inputs[y].prev_tx_output_hash
               PROVE  FALSE
    BY DEF SpentBy
  <2>1. <<j, x>> = <<k, y>>
    BY <1>4, <1>5 DEF InputAt
  <2> QED
    BY <2>1, <1>8
<1>9. ASSUME NEW j \in DOMAIN txs, NEW k \in DOMAIN txs, j # k
      PROVE  CreatedBy(txs[j]) \cap CreatedBy(txs[k]) = {}
  <2> SUFFICES ASSUME CreatedBy(txs[j]) \cap CreatedBy(txs[k]) # {}
               PROVE  FALSE
    OBVIOUS
  <2>1. txs[j] \in AllTxs /\ txs[k] \in AllTxs
    BY <1>1
  <2>2. txs[j] = txs[k]
    BY <2>1, OutputsAssumption
  <2>3. PICK i \in 2..Len(txs) : i = j \/ i = k
    BY <1>1, <1>9
  <2>4. txs[i].inputs # <<>> /\ txs[i] \in AllTxs
    BY <2>1, <2>3, BlockFacts
  <2>5. SpentBy(txs[i]) # {}
    BY <2>4, SpendsSomething
  <2> QED
    BY <1>8, <1>9, <2>2, <2>3, <2>5
<1> QED
  BY <1>1, <1>2, <1>7, <1>8, <1>9

(* Positions of a chain with one more block.                               *)
LEMMA AppendPositions ==
  ASSUME NEW chain \in Seq(Blocks), NEW b \in Blocks
  PROVE  LET longer == Append(chain, b)
             n      == Len(chain) + 1
         IN  /\ \A p \in Positions(longer) :
                  \/ /\ p \in Positions(chain) /\ p[1] \in 1..Len(chain)
                     /\ TxAt(longer, p) = TxAt(chain, p)
                  \/ /\ p = <<n, p[2]>> /\ p[2] \in DOMAIN b.transactions
                     /\ TxAt(longer, p) = b.transactions[p[2]]
             /\ \A p \in Positions(chain) :
                  p \in Positions(longer) /\ TxAt(longer, p) = TxAt(chain, p)
             /\ \A k \in DOMAIN b.transactions :
                  <<n, k>> \in Positions(longer) /\ TxAt(longer, <<n, k>>) = b.transactions[k]
<1> DEFINE longer == Append(chain, b)
           n      == Len(chain) + 1
<1>1. /\ DOMAIN longer = 1..n /\ DOMAIN chain = 1..Len(chain) /\ Len(chain) \in Nat
      /\ \A i \in DOMAIN chain : longer[i] = chain[i]
      /\ longer[n] = b
  OBVIOUS
<1>2. ASSUME NEW p \in Positions(longer)
      PROVE  \/ /\ p \in Positions(chain) /\ p[1] \in 1..Len(chain)
                /\ TxAt(longer, p) = TxAt(chain, p)
             \/ /\ p = <<n, p[2]>> /\ p[2] \in DOMAIN b.transactions
                /\ TxAt(longer, p) = b.transactions[p[2]]
  <2>1. /\ p = <<p[1], p[2]>> /\ p[1] \in DOMAIN longer
        /\ p[2] \in DOMAIN longer[p[1]].transactions
    BY PositionsOf
  <2>2. CASE p[1] = n
    BY <1>1, <2>1, <2>2 DEF TxAt
  <2>3. CASE p[1] \in 1..Len(chain)
    BY <1>1, <2>1, <2>3, PositionsOf DEF TxAt
  <2> QED
    BY <1>1, <2>1, <2>2, <2>3
<1>3. ASSUME NEW p \in Positions(chain)
      PROVE  p \in Positions(longer) /\ TxAt(longer, p) = TxAt(chain, p)
  <2>1. /\ p = <<p[1], p[2]>> /\ p[1] \in DOMAIN chain
        /\ p[2] \in DOMAIN chain[p[1]].transactions
    BY PositionsOf
  <2>2. p[1] \in DOMAIN longer /\ longer[p[1]] = chain[p[1]]
    BY <1>1, <2>1
  <2>3. p \in Positions(longer)
    BY <2>1, <2>2, PositionsOf
  <2> QED
    BY <2>2, <2>3 DEF TxAt
<1>4. ASSUME NEW k \in DOMAIN b.transactions
      PROVE  <<n, k>> \in Positions(longer) /\ TxAt(longer, <<n, k>>) = b.transactions[k]
  <2>1. n \in DOMAIN longer /\ longer[n] = b
    BY <1>1
  <2>2. <<n, k>> \in Positions(longer)
    BY <2>1 DEF Positions
  <2> QED
    BY <2>1, <2>2 DEF TxAt
<1> QED
  BY <1>2, <1>3, <1>4

(* A block that add_block accepts leaves a good chain a good chain.        *)
LEMMA ChainExtends ==
  ASSUME NEW chain, ChainOK(chain), NEW b \in Blocks, NEW utxo, NEW h,
         LinksTo(b, chain), VerifyTransactions(b, h, utxo),
         DOMAIN utxo = Unspent(chain)
  PROVE  ChainOK(Append(chain, b))
<1> DEFINE longer == Append(chain, b)
           n      == Len(chain) + 1
           txs    == b.transactions
<1>1. chain \in Seq(Blocks)
  BY DEF ChainOK
<1>2. /\ DOMAIN longer = 1..n /\ DOMAIN chain = 1..Len(chain) /\ Len(chain) \in Nat
      /\ \A i \in DOMAIN chain : longer[i] = chain[i] /\ chain[i] \in Blocks
      /\ longer[n] = b
      /\ longer \in Seq(Blocks)
  BY <1>1
<1>3. /\ \A p \in Positions(longer) :
           \/ /\ p \in Positions(chain) /\ p[1] \in 1..Len(chain)
              /\ TxAt(longer, p) = TxAt(chain, p)
           \/ /\ p = <<n, p[2]>> /\ p[2] \in DOMAIN txs
              /\ TxAt(longer, p) = txs[p[2]]
      /\ \A p \in Positions(chain) :
           p \in Positions(longer) /\ TxAt(longer, p) = TxAt(chain, p)
  BY <1>1, AppendPositions
<1>4. /\ txs \in Seq(AllTxs) /\ txs # <<>>
      /\ txs[1].inputs = <<>> /\ txs[1].outputs # <<>>
      /\ \A k \in DOMAIN txs : SpentBy(txs[k]) \subseteq Unspent(chain) /\ InputsDiffer(txs[k])
      /\ \A j, k \in DOMAIN txs : j # k =>
           /\ SpentBy(txs[j]) \cap SpentBy(txs[k]) = {}
           /\ CreatedBy(txs[j]) \cap CreatedBy(txs[k]) = {}
  BY VerifiedBlock
<1>5. IF chain = <<>> THEN b.prev_block_hash = 0
      ELSE /\ Len(chain) \in DOMAIN chain
           /\ b.prev_block_hash = chain[Len(chain)].hash
           /\ b.timestamp > chain[Len(chain)].timestamp
  BY <1>1 DEF LinksTo, Last
<1>6. Linked(longer)
  <2> SUFFICES ASSUME NEW i \in DOMAIN longer
               PROVE  longer[i].prev_block_hash = IF i = 1 THEN 0 ELSE longer[i - 1].hash
    BY DEF Linked
  <2>1. CASE i \in DOMAIN chain
    BY <1>2, <2>1 DEF ChainOK, Linked
  <2>2. CASE i = n
    <3>1. CASE chain = <<>>
      BY <1>2, <1>5, <2>2, <3>1
    <3>2. CASE chain # <<>>
      BY <1>2, <1>5, <2>2, <3>2
    <3> QED
      BY <3>1, <3>2
  <2> QED
    BY <1>2, <2>1, <2>2
<1>7. Timed(longer)
  <2> SUFFICES ASSUME NEW i \in DOMAIN longer, NEW j \in DOMAIN longer, i < j
               PROVE  longer[i].timestamp < longer[j].timestamp
    BY DEF Timed
  <2>0. i \in DOMAIN chain /\ chain # <<>>
    BY <1>2
  <2>1. CASE j \in DOMAIN chain
    BY <1>2, <2>0, <2>1 DEF ChainOK, Timed
  <2>2. CASE j = n
    <3>1. b.timestamp > chain[Len(chain)].timestamp /\ Len(chain) \in DOMAIN chain
      BY <1>5, <2>0
    <3>2. \/ i = Len(chain)
          \/ chain[i].timestamp < chain[Len(chain)].timestamp
      BY <1>2, <2>0, <3>1 DEF ChainOK, Timed
    <3>3. /\ chain[i].timestamp \in Nat /\ b.timestamp \in Nat
          /\ chain[Len(chain)].timestamp \in Nat
      BY <1>2, <2>0, <3>1, BlockFacts
    <3> QED
      BY <1>2, <2>0, <2>2, <3>1, <3>2, <3>3
  <2> QED
    BY <1>2, <2>1, <2>2
<1>8. Headed(longer)
  BY <1>2, <1>4 DEF ChainOK, Headed
<1>9. SpendsOnce(longer)
  <2> SUFFICES ASSUME NEW p \in Positions(longer), NEW q \in Positions(longer), p # q
               PROVE  SpentBy(TxAt(longer, p)) \cap SpentBy(TxAt(longer, q)) = {}
    BY DEF SpendsOnce
  <2>1. \A r \in Positions(chain) : SpentBy(TxAt(chain, r)) \cap Unspent(chain) = {}
    BY SpentIsNotUnspent
  <2>2. CASE p \in Positions(chain) /\ q \in Positions(chain)
    BY <1>3, <2>2 DEF ChainOK, SpendsOnce
  <2>3. CASE p \notin Positions(chain) /\ q \notin Positions(chain)
    <3>1. p[2] # q[2]
      BY <1>3, <2>3
    <3> QED
      BY <1>3, <1>4, <2>3, <3>1
  <2>4. CASE p \in Positions(chain) /\ q \notin Positions(chain)
    BY <1>3, <1>4, <2>1, <2>4
  <2>5. CASE p \notin Positions(chain) /\ q \in Positions(chain)
    BY <1>3, <1>4, <2>1, <2>5
  <2> QED
    BY <2>2, <2>3, <2>4, <2>5
<1>10. SpendsEarlier(longer)
  <2> SUFFICES ASSUME NEW p \in Positions(longer), NEW o \in SpentBy(TxAt(longer, p))
               PROVE  \E q \in Positions(longer) :
                        q[1] < p[1] /\ o \in CreatedBy(TxAt(longer, q))
    BY DEF SpendsEarlier
  <2>1. CASE p \in Positions(chain)
    BY <1>3, <2>1 DEF ChainOK, SpendsEarlier
  <2>2. CASE p \notin Positions(chain)
    <3>1. p[1] = n /\ o \in Unspent(chain)
      BY <1>3, <1>4, <2>2
    <3>2. PICK q \in Positions(chain) : o \in CreatedBy(TxAt(chain, q))
      BY <3>1, UnspentIsCreated
    <3>3. q[1] \in DOMAIN chain
      BY PositionsOf
    <3> QED
      BY <1>2, <1>3, <3>1, <3>2, <3>3
  <2> QED
    BY <2>1, <2>2
<1>11. CreatesOnce(longer)
  <2>1. ASSUME NEW p \in Positions(chain), NEW k \in DOMAIN txs
        PROVE  CreatedBy(TxAt(chain, p)) \cap CreatedBy(txs[k]) = {}
    <3> SUFFICES ASSUME CreatedBy(TxAt(chain, p)) \cap CreatedBy(txs[k]) # {}
                 PROVE  FALSE
      OBVIOUS
    <3>1. TxAt(chain, p) \in AllTxs /\ txs[k] \in AllTxs
      BY <1>1, <1>4, TxAtType
    <3>2. TxAt(chain, p) = txs[k]
      BY <3>1, OutputsAssumption
    <3>3. CASE k # 1
      <4>1. txs[k].inputs # <<>>
        BY <1>4, <3>3, BlockFacts
      <4>2. SpentBy(txs[k]) # {}
        BY <3>1, <4>1, SpendsSomething
      <4> QED
        BY <1>4, <3>2, <4>2, SpentIsNotUnspent
    <3>4. CASE k = 1
      <4> DEFINE i == p[1]
      <4>1. i \in DOMAIN chain /\ p[2] \in DOMAIN chain[i].transactions
        BY PositionsOf
      <4>2. chain[i] \in Blocks /\ chain[i].transactions \in Seq(AllTxs)
        BY <1>2, <4>1, BlockFacts
      <4>3. chain[i].transactions[p[2]].inputs = <<>>
        BY <1>4, <3>2, <3>4 DEF TxAt
      <4>4. p[2] = 1
        <5>1. \A m \in 2..Len(chain[i].transactions) : chain[i].transactions[m].inputs # <<>>
          BY <4>2, BlockFacts
        <5>2. p[2] \in 1..Len(chain[i].transactions) /\ Len(chain[i].transactions) \in Nat
          BY <4>1, <4>2
        <5>3. p[2] \notin 2..Len(chain[i].transactions)
          BY <4>3, <5>1
        <5> QED
          BY <5>2, <5>3
      <4>5. Head(chain[i].transactions) = Head(txs) /\ chain[i].transactions # <<>>
        BY <1>4, <3>2, <3>4, <4>1, <4>2, <4>4 DEF TxAt
      <4>6. chain[i].prev_block_hash = b.prev_block_hash
        <5>1. Head(chain[i].transactions).outputs # <<>>
          BY <1>4, <4>5
        <5> QED
          BY <1>4, <4>2, <4>5, <5>1, BlockFacts
      <4>7. /\ chain # <<>> /\ Len(chain) \in DOMAIN chain
            /\ b.prev_block_hash = chain[Len(chain)].hash
            /\ chain[Len(chain)] \in Blocks
        BY <1>2, <1>5, <4>1
      <4>8. CASE i = 1
        BY <4>1, <4>6, <4>7, <4>8, BlockFacts DEF ChainOK, Linked
      <4>9. CASE i # 1
        <5>1. i - 1 \in DOMAIN chain /\ i - 1 < Len(chain) /\ chain[i - 1] \in Blocks
          BY <1>2, <4>1, <4>9
        <5>2. chain[i - 1].hash = chain[Len(chain)].hash
          BY <4>1, <4>6, <4>7, <4>9 DEF ChainOK, Linked
        <5>3. chain[i - 1].timestamp = chain[Len(chain)].timestamp
          BY <4>7, <5>1, <5>2, BlockFacts
        <5>4. chain[i - 1].timestamp < chain[Len(chain)].timestamp
          BY <4>7, <5>1 DEF ChainOK, Timed
        <5>5. chain[i - 1].timestamp \in Nat
          BY <5>1, BlockFacts
        <5> QED
          BY <5>3, <5>4, <5>5
      <4> QED
        BY <4>8, <4>9
    <3> QED
      BY <3>3, <3>4
  <2> SUFFICES ASSUME NEW p \in Positions(longer), NEW q \in Positions(longer), p # q
               PROVE  CreatedBy(TxAt(longer, p)) \cap CreatedBy(TxAt(longer, q)) = {}
    BY DEF CreatesOnce
  <2>2. CASE p \in Positions(chain) /\ q \in Positions(chain)
    BY <1>3, <2>2 DEF ChainOK, CreatesOnce
  <2>3. CASE p \notin Positions(chain) /\ q \notin Positions(chain)
    <3>1. p[2] # q[2]
      BY <1>3, <2>3
    <3> QED
      BY <1>3, <1>4, <2>3, <3>1
  <2>4. CASE p \in Positions(chain) /\ q \notin Positions(chain)
    BY <1>3, <2>1, <2>4
  <2>5. CASE p \notin Positions(chain) /\ q \in Positions(chain)
    BY <1>3, <2>1, <2>5
  <2> QED
    BY <2>2, <2>3, <2>4, <2>5
<1>12. \A tx \in Confirmed(longer) : InputsDiffer(tx)
  <2> SUFFICES ASSUME NEW tx \in Confirmed(longer) PROVE InputsDiffer(tx)
    OBVIOUS
  <2>1. PICK p \in Positions(longer) : tx = TxAt(longer, p)
    BY ConfirmedAt
  <2>2. CASE p \in Positions(chain)
    BY <1>1, <1>3, <2>1, <2>2, TxAtType DEF ChainOK
  <2>3. CASE p \notin Positions(chain)
    BY <1>3, <1>4, <2>1, <2>3
  <2> QED
    BY <2>2, <2>3
<1> QED
  BY <1>2, <1>6, <1>7, <1>8, <1>9, <1>10, <1>11, <1>12 DEF ChainOK

-----------------------------------------------------------------------------
(* The utxo set *)

(* Replaying a chain over the set of the same chain or of a shorter one    *)
(* gives the unspent outputs, with no flag set.                            *)
LEMMA RebuildOverPrefix ==
  ASSUME NEW chain, NEW utxo,
         \A o \in DOMAIN utxo : \E p \in Positions(chain) : o \in CreatedBy(TxAt(chain, p)),
         chain \in Seq(Blocks)
  PROVE  RebuildUtxoSet(chain, utxo) = [o \in Unspent(chain) |-> FALSE]
<1> DEFINE untouched == {o \in DOMAIN utxo : \A tx \in Confirmed(chain) :
                                               o \notin SpentBy(tx) \cup CreatedBy(tx)}
<1>1. untouched = {}
  BY TxAtType
<1> QED
  BY <1>1 DEF RebuildUtxoSet

(* A new block takes away what it spends and adds what it creates.         *)
LEMMA UnspentAfterBlock ==
  ASSUME NEW chain, ChainOK(chain), NEW b \in Blocks, ChainOK(Append(chain, b)),
         \A k \in DOMAIN b.transactions :
           SpentBy(b.transactions[k]) \subseteq Unspent(chain)
  PROVE  Unspent(Append(chain, b)) =
           (Unspent(chain)
              \ UNION {SpentBy(b.transactions[k]) : k \in DOMAIN b.transactions})
           \cup UNION {CreatedBy(b.transactions[k]) : k \in DOMAIN b.transactions}
<1> DEFINE longer == Append(chain, b)
           n      == Len(chain) + 1
           txs    == b.transactions
<1>1. chain \in Seq(Blocks) /\ Len(chain) \in Nat
  BY DEF ChainOK
<1>2. /\ \A p \in Positions(longer) :
           \/ /\ p \in Positions(chain) /\ p[1] \in 1..Len(chain)
              /\ TxAt(longer, p) = TxAt(chain, p)
           \/ /\ p = <<n, p[2]>> /\ p[2] \in DOMAIN txs
              /\ TxAt(longer, p) = txs[p[2]]
      /\ \A p \in Positions(chain) :
           p \in Positions(longer) /\ TxAt(longer, p) = TxAt(chain, p)
      /\ \A k \in DOMAIN txs :
           <<n, k>> \in Positions(longer) /\ TxAt(longer, <<n, k>>) = txs[k]
  BY <1>1, AppendPositions
<1>3. ASSUME NEW o \in Unspent(longer)
      PROVE  \/ o \in UNION {CreatedBy(txs[k]) : k \in DOMAIN txs}
             \/ /\ o \in Unspent(chain)
                /\ \A k \in DOMAIN txs : o \notin SpentBy(txs[k])
  <2>1. PICK p \in Positions(longer) :
          /\ o \in CreatedBy(TxAt(longer, p))
          /\ \A q \in Positions(longer) : Before(p, q) => o \notin SpentBy(TxAt(longer, q))
    BY DEF Unspent
  <2>2. CASE p \notin Positions(chain)
    BY <1>2, <2>1, <2>2
  <2>3. CASE p \in Positions(chain)
    <3>1. o \in Unspent(chain)
      BY <1>2, <2>1, <2>3 DEF Unspent
    <3>2. ASSUME NEW k \in DOMAIN txs PROVE o \notin SpentBy(txs[k])
      <4>1. p[1] \in 1..Len(chain)
        BY <1>1, <2>3, PositionsOf
      <4>2. Before(p, <<n, k>>)
        BY <1>1, <4>1 DEF Before
      <4> QED
        BY <1>2, <2>1, <4>2
    <3> QED
      BY <3>1, <3>2
  <2> QED
    BY <2>2, <2>3
<1>4. ASSUME NEW k \in DOMAIN txs, NEW o \in CreatedBy(txs[k])
      PROVE  o \in Unspent(longer)
  <2>1. ASSUME NEW q \in Positions(longer), Before(<<n, k>>, q), o \in SpentBy(TxAt(longer, q))
        PROVE  FALSE
    <3>1. PICK r \in Positions(longer) : r[1] < q[1] /\ o \in CreatedBy(TxAt(longer, r))
      BY <2>1 DEF ChainOK, SpendsEarlier
    <3>2. r = <<n, k>>
      BY <1>2, <3>1 DEF ChainOK, CreatesOnce
    <3>3. q[1] \in 1..n
      <4>1. DOMAIN longer = 1..n
        BY <1>1
      <4> QED
        BY <4>1, PositionsOf
    <3> QED
      BY <1>1, <3>1, <3>2, <3>3
  <2> QED
    BY <1>2, <2>1 DEF Unspent
<1>5. ASSUME NEW o \in Unspent(chain), \A k \in DOMAIN txs : o \notin SpentBy(txs[k])
      PROVE  o \in Unspent(longer)
  <2>1. PICK p \in Positions(chain) :
          /\ o \in CreatedBy(TxAt(chain, p))
          /\ \A q \in Positions(chain) : Before(p, q) => o \notin SpentBy(TxAt(chain, q))
    BY DEF Unspent
  <2>2. \A q \in Positions(longer) : Before(p, q) => o \notin SpentBy(TxAt(longer, q))
    BY <1>2, <1>5, <2>1
  <2> QED
    BY <1>2, <2>1, <2>2 DEF Unspent
<1> QED
  BY <1>3, <1>4, <1>5

(* There are finitely many of them.                                        *)
LEMMA RangeFinite ==
  ASSUME NEW S, NEW s \in Seq(S)
  PROVE  IsFiniteSet(Range(s))
<1>1. s \in Surjection(1..Len(s), Range(s))
  BY DEF Range, Surjection
<1>2. IsFiniteSet(1..Len(s))
  BY FS_Interval
<1> QED
  BY <1>1, <1>2, FS_Surjection

LEMMA ConfirmedFinite ==
  ASSUME NEW chain \in Seq(Blocks)
  PROVE  IsFiniteSet(Confirmed(chain)) /\ Confirmed(chain) \subseteq AllTxs
<1> DEFINE bodies == [i \in DOMAIN chain |-> Range(chain[i].transactions)]
<1>1. \A i \in DOMAIN chain : chain[i].transactions \in Seq(AllTxs)
  BY BlockFacts
<1>2. bodies \in Surjection(1..Len(chain), Range(bodies))
  <2>1. DOMAIN bodies = 1..Len(chain)
    OBVIOUS
  <2> HIDE DEF bodies
  <2>2. bodies \in [1..Len(chain) -> Range(bodies)]
    <3>1. bodies = [i \in DOMAIN bodies |-> bodies[i]]
      BY DEF bodies
    <3> QED
      BY <2>1, <3>1 DEF Range
  <2> QED
    BY <2>1, <2>2 DEF Range, Surjection
<1>3. IsFiniteSet(Range(bodies))
  BY <1>2, FS_Interval, FS_Surjection
<1>4. \A T \in Range(bodies) : IsFiniteSet(T) /\ T \subseteq AllTxs
  BY <1>1, RangeFinite DEF Range
<1>5. Confirmed(chain) = UNION Range(bodies)
  BY DEF Confirmed, Range
<1> QED
  BY <1>3, <1>4, <1>5, FS_UNION

LEMMA UnspentFinite ==
  ASSUME NEW chain \in Seq(Blocks)
  PROVE  IsFiniteSet(Unspent(chain))
<1> DEFINE created == [tx \in Confirmed(chain) |-> CreatedBy(tx)]
<1>1. IsFiniteSet(UNION Range(created))
  <2>1. created \in Surjection(Confirmed(chain), Range(created))
    BY DEF Range, Surjection
  <2>2. IsFiniteSet(Range(created))
    BY <2>1, ConfirmedFinite, FS_Surjection
  <2>3. \A tx \in AllTxs : IsFiniteSet(CreatedBy(tx))
    BY TxsAssumption, RangeFinite DEF CreatedBy
  <2>4. \A T \in Range(created) : IsFiniteSet(T)
    BY <2>3, ConfirmedFinite DEF Range
  <2> QED
    BY <2>2, <2>4, FS_UNION
<1>2. Unspent(chain) \subseteq UNION Range(created)
  BY UnspentIsCreated, TxAtType DEF Range
<1> QED
  BY <1>1, <1>2, FS_Subset

LEMMA RetargetStays ==
  ASSUME NEW chain \in Seq(Blocks), NEW t \in 0..MIN_TARGET
  PROVE  ~RetargetPanics(chain, t) /\ AdjustTarget(chain, t) \in 0..MIN_TARGET
<1> DEFINE interval == DIFFICULTY_UPDATE_INTERVAL
           m        == MeasuredTarget(chain, t)
<1>0. /\ interval \in Nat \ {0} /\ MIN_TARGET \in Nat /\ IDEAL_BLOCK_TIME \in Nat \ {0}
      /\ U256 \in Nat \ {0}
  BY NumbersAssumption
<1>1. CASE RetargetDue(chain)
  <2>1. Len(chain) \in Nat /\ Len(chain) > 0 /\ Len(chain) % interval = 0
    BY <1>1 DEF RetargetDue
  <2>2. Len(chain) >= interval
    BY <1>0, <2>1, Z3
  <2> DEFINE b == chain[Len(chain) - interval + 1]
             c == chain[Len(chain)]
  <2>3. b \in Blocks /\ c \in Blocks
    BY <1>0, <2>1, <2>2
  <2>4. m = (t * ((c.timestamp - b.timestamp) \div Millis))
              \div (IDEAL_BLOCK_TIME * interval)
    BY DEF MeasuredTarget, Last
  <2>5. m < U256
    BY <2>3, <2>4, RetargetFits
  <2>6. (c.timestamp - b.timestamp) \div Millis \in Int
    BY <2>3, BlockFacts DEF Millis
  <2>7. IDEAL_BLOCK_TIME * interval \in Nat \ {0}
    BY <1>0
  <2>8. m \in Int
    <3> DEFINE s == (c.timestamp - b.timestamp) \div Millis
               d == IDEAL_BLOCK_TIME * interval
    <3>1. t * s \in Int
      BY <2>6
    <3> HIDE DEF s, d
    <3>2. (t * s) \div d \in Int
      BY <2>7, <3>1 DEF d
    <3> QED
      BY <2>4, <3>2 DEF s, d
  <2> HIDE DEF m
  <2>9. t \div 4 \in Nat /\ t * 4 \in Nat
    BY <1>0
  <2>10. AdjustTarget(chain, t) \in 0..MIN_TARGET
    BY <1>0, <1>1, <2>8, <2>9 DEF AdjustTarget, m
  <2> QED
    BY <1>0, <2>5, <2>8, <2>10 DEF RetargetPanics, m
<1>2. CASE ~RetargetDue(chain)
  BY <1>2 DEF RetargetPanics, AdjustTarget
<1> QED
  BY <1>1, <1>2

-----------------------------------------------------------------------------
(* The mempool *)

(* A listing of the positions K lists the entries at K and nothing else.   *)
LEMMA ListingEntries ==
  ASSUME NEW E, NEW pool \in Seq(E), NEW K \in SUBSET DOMAIN pool, NEW f \in Listings(K)
  PROVE  /\ Entries(pool, f) \in Seq(E)
         /\ Range(Entries(pool, f)) = {pool[i] : i \in K}
<1>1. IsFiniteSet(DOMAIN pool)
  <2>1. DOMAIN pool = 1..Len(pool) /\ Len(pool) \in Nat
    OBVIOUS
  <2> QED
    BY <2>1, FS_Interval
<1>2. Cardinality(K) \in Nat
  BY <1>1, FS_Subset, FS_CardinalityType
<1>3. f \in [1..Cardinality(K) -> K] /\ \A i \in K : \E j \in 1..Cardinality(K) : f[j] = i
  BY DEF Listings, Bijection, Surjection
<1>4. Entries(pool, f) \in [1..Cardinality(K) -> E]
  BY <1>3 DEF Entries
<1>5. Entries(pool, f) \in Seq(E)
  BY <1>2, <1>4
<1>6. Range(Entries(pool, f)) = {pool[i] : i \in K}
  BY <1>3 DEF Entries, Range
<1> QED
  BY <1>5, <1>6

LEMMA RangeAppend ==
  ASSUME NEW E, NEW s \in Seq(E), NEW e \in E
  PROVE  Range(Append(s, e)) = Range(s) \cup {e}
<1> DEFINE t == Append(s, e)
           n == Len(s) + 1
<1>1. /\ DOMAIN t = DOMAIN s \cup {n} /\ t[n] = e
      /\ \A i \in DOMAIN s : t[i] = s[i]
  OBVIOUS
<1> HIDE DEF t, n
<1>2. Range(t) = Range(s) \cup {e}
  <2>1. ASSUME NEW x \in Range(t) PROVE x \in Range(s) \cup {e}
    BY <1>1 DEF Range
  <2>2. ASSUME NEW x \in Range(s) PROVE x \in Range(t)
    BY <1>1 DEF Range
  <2>3. e \in Range(t)
    BY <1>1 DEF Range
  <2> QED
    BY <2>1, <2>2, <2>3
<1> QED
  BY <1>2 DEF t

-----------------------------------------------------------------------------
(* The inductive invariant *)

(* The saved chain is a good chain, with its own unspent outputs, and the  *)
(* chain in memory goes on from it.                                        *)
DiskOK ==
  /\ ChainOK(disk.blocks)
  /\ DOMAIN disk.utxo_set = Unspent(disk.blocks)
  /\ Len(disk.blocks) <= Len(blocks)
  /\ \A i \in 1..Len(disk.blocks) : blocks[i] = disk.blocks[i]

IInv ==
  /\ TypeOK
  /\ ChainOK(blocks)
  /\ UtxoIsUnspent
  /\ DiskOK
  /\ MarkIsReferenced
  /\ MempoolUnconfirmed

Entry == [tx : Txs, age : 0..(MAX_MEMPOOL_TRANSACTION_AGE + 1)]

LEMMA EmptyChain ==
  /\ ChainOK(<<>>)
  /\ Unspent(<<>>) = {}
  /\ Positions(<<>>) = {}
<1>1. Positions(<<>>) = {} /\ Confirmed(<<>>) = {}
  BY DEF Positions, Confirmed
<1>2. Unspent(<<>>) = {}
  BY <1>1 DEF Unspent
<1>3. ChainOK(<<>>)
  BY <1>1 DEF ChainOK, Linked, Timed, Headed, CreatesOnce, SpendsOnce, SpendsEarlier
<1> QED
  BY <1>1, <1>2, <1>3

LEMMA UnspentTyped ==
  ASSUME NEW chain \in Seq(Blocks)
  PROVE  Unspent(chain) \subseteq AllOutputs
BY TxAtType DEF Unspent, AllOutputs

LEMMA InitIInv == Init => IInv
<1> SUFFICES ASSUME Init PROVE IInv
  OBVIOUS
<1> USE DEF Init, Absent
<1>1. MIN_TARGET \in 0..MIN_TARGET
  BY NumbersAssumption
<1>2. TypeOK
  BY <1>1 DEF TypeOK
<1>3. ChainOK(blocks) /\ UtxoIsUnspent /\ DiskOK
  BY EmptyChain DEF UtxoIsUnspent, DiskOK
<1>4. MarkIsReferenced
  BY DEF MarkIsReferenced
<1>5. MempoolUnconfirmed
  BY DEF MempoolUnconfirmed, MempoolTxs, Range
<1> QED
  BY <1>2, <1>3, <1>4, <1>5 DEF IInv

(* What a mempool made of some entries of the old one holds.               *)
LEMMA RetainedTxs ==
  ASSUME IInv, NEW K \in SUBSET DOMAIN mempool, Retain(K)
  PROVE  /\ mempool' \in Seq(Entry)
         /\ MempoolTxs' = {mempool[i].tx : i \in K}
<1>1. mempool \in Seq(Entry)
  BY DEF IInv, TypeOK, Entry
<1>2. PICK f \in Listings(K) : mempool' = Entries(mempool, f)
  BY DEF Retain
<1>3. mempool' \in Seq(Entry) /\ Range(mempool') = {mempool[i] : i \in K}
  BY <1>1, <1>2, ListingEntries
<1> QED
  BY <1>3 DEF MempoolTxs

LEMMA AddBlockIInv ==
  ASSUME IInv, NEW b \in Blocks, AddBlock(b)
  PROVE  IInv'
<1>1. /\ blocks \in Seq(Blocks) /\ target \in 0..MIN_TARGET
      /\ ChainOK(blocks) /\ DOMAIN utxo_set = Unspent(blocks)
  BY DEF IInv, TypeOK, UtxoIsUnspent
<1>2. /\ blocks' = Append(blocks, b) /\ blocks' \in Seq(Blocks) /\ disk' = disk
      /\ LinksTo(b, blocks) /\ VerifyTransactions(b, Len(blocks), utxo_set)
  BY <1>1 DEF AddBlock, Acceptable
<1>3. ChainOK(blocks')
  BY <1>1, <1>2, ChainExtends
<1>4. ~RetargetPanics(blocks', target) /\ AdjustTarget(blocks', target) \in 0..MIN_TARGET
  BY <1>1, <1>2, RetargetStays
<1>5. target' \in 0..MIN_TARGET /\ utxo_set' = RebuildUtxoSet(blocks', utxo_set)
  BY <1>4 DEF AddBlock
<1>6. utxo_set' = [o \in Unspent(blocks') |-> FALSE]
  <2>1. \A p \in Positions(blocks) :
          p \in Positions(blocks') /\ TxAt(blocks', p) = TxAt(blocks, p)
    BY <1>1, <1>2, AppendPositions
  <2>2. \A o \in DOMAIN utxo_set :
          \E p \in Positions(blocks') : o \in CreatedBy(TxAt(blocks', p))
    BY <1>1, <2>1, UnspentIsCreated
  <2> QED
    BY <1>2, <1>5, <2>2, RebuildOverPrefix
<1> DEFINE K == {i \in DOMAIN mempool : mempool[i].tx \notin Range(b.transactions)}
<1>7. mempool' \in Seq(Entry) /\ MempoolTxs' = {mempool[i].tx : i \in K}
  BY RetainedTxs DEF AddBlock
<1>8. TypeOK'
  BY <1>2, <1>5, <1>6, <1>7, UnspentTyped DEF IInv, TypeOK, Entry
<1>9. UtxoIsUnspent' /\ MarkIsReferenced'
  BY <1>6 DEF UtxoIsUnspent, MarkIsReferenced
<1>10. DiskOK'
  BY <1>1, <1>2 DEF IInv, DiskOK, TypeOK
<1>11. MempoolUnconfirmed'
  <2> SUFFICES ASSUME NEW i \in K, mempool[i].tx \in Confirmed(blocks')
               PROVE  FALSE
    BY <1>7 DEF MempoolUnconfirmed
  <2>1. PICK j \in DOMAIN blocks' : mempool[i].tx \in Range(blocks'[j].transactions)
    BY DEF Confirmed
  <2>2. CASE j \in DOMAIN blocks
    <3>1. blocks'[j] = blocks[j]
      BY <1>1, <1>2, <2>2
    <3>2. mempool[i].tx \in Confirmed(blocks)
      BY <2>1, <2>2, <3>1 DEF Confirmed
    <3>3. mempool[i].tx \in MempoolTxs
      BY DEF MempoolTxs, Range
    <3> QED
      BY <3>2, <3>3 DEF IInv, MempoolUnconfirmed
  <2>3. CASE j \notin DOMAIN blocks
    <3>1. blocks'[j] = b
      BY <1>1, <1>2, <2>3
    <3> QED
      BY <2>1, <3>1
  <2> QED
    BY <2>2, <2>3
<1> QED
  BY <1>3, <1>8, <1>9, <1>10, <1>11 DEF IInv

(* A transaction that passes the first checks of add_to_mempool is not in  *)
(* the chain, and no waiting transaction creates what it spends: the       *)
(* search of the replacement loop never finds anything.                    *)
LEMMA NoMakers ==
  ASSUME IInv, NEW tx \in Txs, SpentBy(tx) \subseteq DOMAIN utxo_set
  PROVE  /\ tx \notin Confirmed(blocks)
         /\ \A o \in SpentBy(tx) : Makers(mempool, o) = {}
<1>1. blocks \in Seq(Blocks) /\ ChainOK(blocks) /\ SpentBy(tx) \subseteq Unspent(blocks)
  BY DEF IInv, TypeOK, UtxoIsUnspent
<1>2. tx \notin Confirmed(blocks)
  <2> SUFFICES ASSUME tx \in Confirmed(blocks) PROVE FALSE
    OBVIOUS
  <2>1. PICK p \in Positions(blocks) : tx = TxAt(blocks, p)
    BY ConfirmedAt
  <2>2. SpentBy(tx) # {}
    BY TxsAssumption, SpendsSomething DEF AllTxs
  <2> QED
    BY <1>1, <2>1, <2>2, SpentIsNotUnspent
<1>3. ASSUME NEW o \in SpentBy(tx), NEW i \in Makers(mempool, o)
      PROVE  FALSE
  <2>1. PICK p \in Positions(blocks) : o \in CreatedBy(TxAt(blocks, p))
    BY <1>1, UnspentIsCreated
  <2>2. i \in DOMAIN mempool /\ o \in CreatedBy(mempool[i].tx)
    BY DEF Makers
  <2>3. mempool[i].tx \in Txs /\ mempool[i].tx \in MempoolTxs
    <3>1. mempool[i] \in Range(mempool)
      BY <2>2 DEF Range
    <3>2. mempool \in Seq(Entry)
      BY DEF IInv, TypeOK, Entry
    <3>3. mempool[i] \in Entry
      BY <2>2, <3>2
    <3> QED
      BY <3>1, <3>3 DEF MempoolTxs, Entry
  <2>4. mempool[i].tx = TxAt(blocks, p) /\ TxAt(blocks, p) \in Confirmed(blocks)
    BY <1>1, <2>1, <2>2, <2>3, TxAtType, OutputsAssumption DEF AllTxs
  <2> QED
    BY <2>3, <2>4 DEF IInv, MempoolUnconfirmed
<1> QED
  BY <1>2, <1>3

(* What add_to_mempool comes to: the transaction goes in and its inputs    *)
(* are flagged, or nothing goes in and flags are cleared.                  *)
LEMMA AddToMempoolDoes ==
  ASSUME IInv, NEW tx \in Txs, AddToMempool(tx)
  PROVE  /\ SpentBy(tx) \subseteq DOMAIN utxo_set /\ tx \notin Confirmed(blocks)
         /\ UNCHANGED <<blocks, target, disk>>
         /\ DOMAIN utxo_set' = DOMAIN utxo_set
         /\ utxo_set' \in [DOMAIN utxo_set' -> BOOLEAN]
         /\ mempool' \in Seq(Entry)
         /\ \/ /\ MempoolTxs' = MempoolTxs
               /\ \A o \in DOMAIN utxo_set : utxo_set'[o] => utxo_set[o]
            \/ /\ MempoolTxs' = MempoolTxs \cup {tx}
               /\ \A o \in DOMAIN utxo_set : utxo_set'[o] => utxo_set[o] \/ o \in SpentBy(tx)
               /\ ~SumsPanic(utxo_set, tx) /\ ~Overspends(utxo_set, tx)
<1> DEFINE S     == SpentBy(tx)
           r     == Replace(tx, utxo_set, mempool)
           entry == [tx |-> tx, age |-> 0]
           pool  == Append(mempool, entry)
<1>1. /\ S \subseteq DOMAIN utxo_set
      /\ UNCHANGED <<blocks, target, disk>>
  BY DEF AddToMempool
<1>2. tx \notin Confirmed(blocks) /\ \A o \in S : Makers(mempool, o) = {}
  BY <1>1, NoMakers
<1>3. r = [utxo |-> Unmark(utxo_set, S), pool |-> mempool, stop |-> FALSE]
  BY <1>2 DEF Replace
<1>4. /\ mempool \in Seq(Entry) /\ utxo_set \in [DOMAIN utxo_set -> BOOLEAN]
      /\ entry \in Entry /\ pool \in Seq(Entry)
  BY NumbersAssumption DEF IInv, TypeOK, Entry
<1>5. /\ DOMAIN utxo_set' = DOMAIN utxo_set
      /\ utxo_set' \in [DOMAIN utxo_set' -> BOOLEAN]
      /\ mempool' \in Seq(Entry)
      /\ \/ /\ MempoolTxs' = MempoolTxs
            /\ \A o \in DOMAIN utxo_set : utxo_set'[o] => utxo_set[o]
         \/ /\ MempoolTxs' = MempoolTxs \cup {tx}
            /\ \A o \in DOMAIN utxo_set : utxo_set'[o] => utxo_set[o] \/ o \in S
            /\ ~SumsPanic(utxo_set, tx) /\ ~Overspends(utxo_set, tx)
  <2>1. CASE SumsPanic(utxo_set, tx) \/ Overspends(utxo_set, tx)
    <3>1. utxo_set' = Unmark(utxo_set, S) /\ mempool' = mempool
      BY <1>3, <2>1 DEF AddToMempool
    <3> QED
      BY <1>4, <3>1 DEF Unmark, MempoolTxs
  <2>2. CASE ~(SumsPanic(utxo_set, tx) \/ Overspends(utxo_set, tx))
    <3>1. /\ utxo_set' = Mark(Unmark(utxo_set, S), S)
          /\ \E f \in Listings(DOMAIN pool) : mempool' = Entries(pool, f)
      BY <1>3, <2>2 DEF AddToMempool
    <3>2. PICK f \in Listings(DOMAIN pool) : mempool' = Entries(pool, f)
      BY <3>1
    <3>3. mempool' \in Seq(Entry) /\ Range(mempool') = {pool[i] : i \in DOMAIN pool}
      BY <1>4, <3>2, ListingEntries
    <3>4. Range(mempool') = Range(mempool) \cup {entry}
      <4>1. Range(mempool') = Range(pool)
        BY <3>3 DEF Range
      <4> QED
        BY <1>4, <4>1, RangeAppend
    <3>5. MempoolTxs' = MempoolTxs \cup {tx}
      <4>1. entry.tx = tx
        OBVIOUS
      <4> HIDE DEF entry
      <4>2. MempoolTxs' = {e.tx : e \in Range(mempool')}
        BY DEF MempoolTxs
      <4>3. MempoolTxs' = {e.tx : e \in Range(mempool) \cup {entry}}
        BY <3>4, <4>2
      <4> QED
        BY <4>1, <4>3 DEF MempoolTxs
    <3> QED
      BY <1>4, <2>2, <3>1, <3>3, <3>5 DEF Mark, Unmark
  <2> QED
    BY <2>1, <2>2
<1> QED
  BY <1>1, <1>2, <1>5

LEMMA AddToMempoolIInv ==
  ASSUME IInv, NEW tx \in Txs, AddToMempool(tx)
  PROVE  IInv'
<1>1. /\ UNCHANGED <<blocks, target, disk>> /\ tx \notin Confirmed(blocks)
      /\ DOMAIN utxo_set' = DOMAIN utxo_set
      /\ utxo_set' \in [DOMAIN utxo_set' -> BOOLEAN]
      /\ mempool' \in Seq(Entry)
      /\ \/ /\ MempoolTxs' = MempoolTxs
            /\ \A o \in DOMAIN utxo_set : utxo_set'[o] => utxo_set[o]
         \/ /\ MempoolTxs' = MempoolTxs \cup {tx}
            /\ \A o \in DOMAIN utxo_set : utxo_set'[o] => utxo_set[o] \/ o \in SpentBy(tx)
  BY AddToMempoolDoes
<1>2. TypeOK'
  BY <1>1 DEF IInv, TypeOK, Entry
<1>3. MarkIsReferenced'
  BY <1>1 DEF IInv, MarkIsReferenced
<1>4. MempoolUnconfirmed'
  BY <1>1 DEF IInv, MempoolUnconfirmed
<1> QED
  BY <1>1, <1>2, <1>3, <1>4 DEF IInv, UtxoIsUnspent, DiskOK

LEMMA ResyncIInv ==
  ASSUME IInv, Rebuild \/ Readjust
  PROVE  IInv'
<1>1. UNCHANGED <<blocks, mempool, disk>>
  BY DEF Rebuild, Readjust
<1>2. CASE Rebuild
  <2>1. blocks \in Seq(Blocks) /\ DOMAIN utxo_set = Unspent(blocks)
    BY DEF IInv, TypeOK, UtxoIsUnspent
  <2>2. utxo_set' = [o \in Unspent(blocks) |-> FALSE] /\ target' = target
    BY <1>2, <2>1, UnspentIsCreated, RebuildOverPrefix DEF Rebuild
  <2>3. TypeOK'
    BY <1>1, <2>1, <2>2, UnspentTyped DEF IInv, TypeOK
  <2> QED
    BY <1>1, <2>2, <2>3 DEF IInv, UtxoIsUnspent, DiskOK, MarkIsReferenced,
                            MempoolUnconfirmed, MempoolTxs
<1>3. CASE Readjust
  <2>1. utxo_set' = utxo_set /\ target' = AdjustTarget(blocks, target)
    BY <1>3 DEF Readjust
  <2>2. target' \in 0..MIN_TARGET
    BY <2>1, RetargetStays DEF IInv, TypeOK
  <2>3. TypeOK'
    BY <1>1, <2>1, <2>2 DEF IInv, TypeOK
  <2> QED
    BY <1>1, <2>1, <2>3 DEF IInv, UtxoIsUnspent, DiskOK, MarkIsReferenced,
                            MempoolUnconfirmed, MempoolTxs
<1> QED
  BY <1>2, <1>3

LEMMA TickIInv ==
  ASSUME IInv, Tick
  PROVE  IInv' /\ MempoolTxs' = MempoolTxs
<1>1. UNCHANGED <<blocks, utxo_set, target, disk>>
  BY DEF Tick
<1>2. mempool \in Seq(Entry) /\ MAX_MEMPOOL_TRANSACTION_AGE \in Nat
  BY NumbersAssumption DEF IInv, TypeOK, Entry
<1>3. /\ DOMAIN mempool' = DOMAIN mempool
      /\ \A i \in DOMAIN mempool : mempool'[i] \in Entry /\ mempool'[i].tx = mempool[i].tx
  <2>1. DOMAIN mempool' = DOMAIN mempool
    BY DEF Tick
  <2>2. ASSUME NEW i \in DOMAIN mempool
        PROVE  mempool'[i] \in Entry /\ mempool'[i].tx = mempool[i].tx
    <3>1. mempool[i] \in Entry
      BY <1>2
    <3>2. mempool[i].tx \in Txs /\ mempool[i].age \in 0..(MAX_MEMPOOL_TRANSACTION_AGE + 1)
      BY <3>1 DEF Entry
    <3>3. mempool'[i] = [tx  |-> mempool[i].tx,
                         age |-> IF mempool[i].age > MAX_MEMPOOL_TRANSACTION_AGE
                                 THEN mempool[i].age ELSE mempool[i].age + 1]
      BY DEF Tick
    <3> QED
      BY <1>2, <3>2, <3>3 DEF Entry
  <2> QED
    BY <2>1, <2>2
<1>4. mempool' \in Seq(Entry)
  <2>1. mempool' \in [1..Len(mempool) -> Entry] /\ Len(mempool) \in Nat
    BY <1>2, <1>3 DEF Tick
  <2> QED
    BY <2>1
<1>5. MempoolTxs' = MempoolTxs
  BY <1>3 DEF MempoolTxs, Range
<1>6. TypeOK'
  BY <1>1, <1>4 DEF IInv, TypeOK, Entry
<1> QED
  BY <1>1, <1>5, <1>6
     DEF IInv, UtxoIsUnspent, DiskOK, MarkIsReferenced, MempoolUnconfirmed

LEMMA CleanupMempoolIInv ==
  ASSUME IInv, CleanupMempool
  PROVE  IInv'
<1> DEFINE old == {i \in DOMAIN mempool : mempool[i].age > MAX_MEMPOOL_TRANSACTION_AGE}
           K   == DOMAIN mempool \ old
           S   == UNION {SpentBy(mempool[i].tx) : i \in old}
<1>1. UNCHANGED <<blocks, target, disk>> /\ utxo_set' = Unmark(utxo_set, S)
  BY DEF CleanupMempool
<1>2. mempool' \in Seq(Entry) /\ MempoolTxs' = {mempool[i].tx : i \in K}
  <2>1. Retain(K) /\ K \in SUBSET DOMAIN mempool
    BY DEF CleanupMempool
  <2> QED
    BY <2>1, RetainedTxs
<1>3. utxo_set \in [DOMAIN utxo_set -> BOOLEAN]
  BY DEF IInv, TypeOK
<1>4. /\ DOMAIN utxo_set' = DOMAIN utxo_set
      /\ utxo_set' \in [DOMAIN utxo_set' -> BOOLEAN]
      /\ \A o \in DOMAIN utxo_set : utxo_set'[o] => utxo_set[o] /\ o \notin S
  BY <1>1, <1>3 DEF Unmark
<1>5. TypeOK'
  BY <1>1, <1>2, <1>4 DEF IInv, TypeOK, Entry
<1>6. MarkIsReferenced'
  <2> SUFFICES ASSUME NEW o \in DOMAIN utxo_set, utxo_set'[o]
               PROVE  \E tx \in MempoolTxs' : o \in SpentBy(tx)
    BY <1>4 DEF MarkIsReferenced
  <2>1. utxo_set[o] /\ o \notin S
    BY <1>4
  <2>2. PICK i \in DOMAIN mempool : o \in SpentBy(mempool[i].tx)
    BY <2>1 DEF IInv, MarkIsReferenced, MempoolTxs, Range
  <2>3. i \in K
    BY <2>1, <2>2
  <2> QED
    BY <1>2, <2>2, <2>3
<1>7. MempoolUnconfirmed'
  <2>1. MempoolTxs' \subseteq MempoolTxs
    BY <1>2 DEF MempoolTxs, Range
  <2> QED
    BY <1>1, <2>1 DEF IInv, MempoolUnconfirmed
<1> QED
  BY <1>1, <1>4, <1>5, <1>6, <1>7 DEF IInv, UtxoIsUnspent, DiskOK

LEMMA DiskIInv ==
  ASSUME IInv, Save \/ CrashWhileSaving
  PROVE  IInv'
<1>1. UNCHANGED <<blocks, utxo_set, target, mempool>>
  BY DEF Save, CrashWhileSaving
<1>2. MIN_TARGET \in 0..MIN_TARGET
  BY NumbersAssumption
<1>3. CASE Save
  <2>1. disk' = [status |-> "saved", blocks |-> blocks, utxo_set |-> utxo_set,
                 target |-> target]
    BY <1>3 DEF Save
  <2>2. TypeOK'
    BY <1>1, <2>1 DEF IInv, TypeOK
  <2>3. DiskOK'
    BY <1>1, <2>1 DEF IInv, DiskOK, UtxoIsUnspent, TypeOK
  <2> QED
    BY <1>1, <2>2, <2>3
       DEF IInv, UtxoIsUnspent, MarkIsReferenced, MempoolUnconfirmed, MempoolTxs
<1>4. CASE CrashWhileSaving
  <2>1. disk' = [status |-> "torn", blocks |-> <<>>, utxo_set |-> <<>>,
                 target |-> MIN_TARGET]
    BY <1>4 DEF CrashWhileSaving, Torn, Absent
  <2>2. TypeOK'
    BY <1>1, <1>2, <2>1 DEF IInv, TypeOK
  <2>3. DiskOK'
    BY <1>1, <2>1, EmptyChain DEF IInv, DiskOK, TypeOK
  <2> QED
    BY <1>1, <2>2, <2>3
       DEF IInv, UtxoIsUnspent, MarkIsReferenced, MempoolUnconfirmed, MempoolTxs
<1> QED
  BY <1>3, <1>4

LEMMA RestartIInv ==
  ASSUME IInv, Restart
  PROVE  IInv'
<1>1. /\ disk.blocks \in Seq(Blocks) /\ disk.target \in 0..MIN_TARGET
      /\ ChainOK(disk.blocks) /\ DOMAIN disk.utxo_set = Unspent(disk.blocks)
  BY DEF IInv, TypeOK, DiskOK
<1>2. /\ blocks' = disk.blocks /\ mempool' = <<>> /\ disk' = disk
      /\ utxo_set' = RebuildUtxoSet(disk.blocks, disk.utxo_set)
      /\ target' = AdjustTarget(disk.blocks, disk.target)
  BY DEF Restart
<1>3. utxo_set' = [o \in Unspent(blocks') |-> FALSE]
  BY <1>1, <1>2, UnspentIsCreated, RebuildOverPrefix
<1>4. target' \in 0..MIN_TARGET
  BY <1>1, <1>2, RetargetStays
<1>5. TypeOK'
  BY <1>1, <1>2, <1>3, <1>4, UnspentTyped DEF IInv, TypeOK
<1>6. UtxoIsUnspent' /\ MarkIsReferenced'
  BY <1>3 DEF UtxoIsUnspent, MarkIsReferenced
<1>7. MempoolUnconfirmed'
  BY <1>2 DEF MempoolUnconfirmed, MempoolTxs, Range
<1>8. DiskOK'
  BY <1>1, <1>2 DEF IInv, DiskOK
<1> QED
  BY <1>1, <1>2, <1>5, <1>6, <1>7, <1>8 DEF IInv

LEMMA NextIInv == IInv /\ [Next]_vars => IInv'
<1> SUFFICES ASSUME IInv, [Next]_vars PROVE IInv'
  OBVIOUS
<1>1. ASSUME NEW b \in Blocks, AddBlock(b) PROVE IInv'
  BY <1>1, AddBlockIInv
<1>2. ASSUME NEW tx \in Txs, AddToMempool(tx) PROVE IInv'
  BY <1>2, AddToMempoolIInv
<1>3. CASE Tick
  BY <1>3, TickIInv
<1>4. CASE CleanupMempool
  BY <1>4, CleanupMempoolIInv
<1>5. CASE Save \/ CrashWhileSaving
  BY <1>5, DiskIInv
<1>6. CASE Restart
  BY <1>6, RestartIInv
<1>7. CASE Rebuild \/ Readjust
  BY <1>7, ResyncIInv
<1>8. CASE UNCHANGED vars
  BY <1>8 DEF vars, IInv, TypeOK, UtxoIsUnspent, DiskOK, MarkIsReferenced,
              MempoolUnconfirmed, MempoolTxs
<1> QED
  BY <1>1, <1>2, <1>3, <1>4, <1>5, <1>6, <1>7, <1>8 DEF Next

-----------------------------------------------------------------------------
(* Theorems *)

(* The invariant that carries all the others.                              *)
THEOREM Invariant == Spec => []IInv
BY InitIInv, NextIInv, PTL DEF Spec

(* blockchain.rs:26-33, 201: every variable keeps its type, and no retarget *)
(* leaves the target easier than MIN_TARGET.                               *)
THEOREM TypeCorrect == Spec => []TypeOK
<1>1. IInv => TypeOK
  BY DEF IInv
<1> QED
  BY <1>1, Invariant, PTL

(* blockchain.rs:136-149: the utxo set, patched by replay after every      *)
(* block and after every restart, is the set of unspent outputs.           *)
THEOREM UtxoSetCorrect == Spec => []UtxoIsUnspent
<1>1. IInv => UtxoIsUnspent
  BY DEF IInv
<1> QED
  BY <1>1, Invariant, PTL

(* block.rs:33-101: no output is spent twice, anywhere in the chain, and   *)
(* none before the block after the one that created it.                    *)
THEOREM NoOutputSpentTwice == Spec => []NoDoubleSpend
<1>1. IInv => NoDoubleSpend
  BY DEF IInv, ChainOK, NoDoubleSpend
<1> QED
  BY <1>1, Invariant, PTL

(* blockchain.rs:302-308, 341-346: a flag that is set belongs to a waiting *)
(* transaction, so no output stays reserved for nobody.                    *)
THEOREM NoLeakedMark == Spec => []MarkIsReferenced
<1>1. IInv => MarkIsReferenced
  BY DEF IInv
<1> QED
  BY <1>1, Invariant, PTL

(* blockchain.rs:123-126, 217-224: a confirmed transaction is never in the *)
(* mempool, also when it is submitted again.                               *)
THEOREM NoConfirmedWaits == Spec => []MempoolUnconfirmed
<1>1. IInv => MempoolUnconfirmed
  BY DEF IInv
<1> QED
  BY <1>1, Invariant, PTL

-----------------------------------------------------------------------------
(* The node implements the ledger *)

LEMMA LogOfChain ==
  ASSUME NEW chain \in Seq(Blocks)
  PROVE  /\ Len(LedgerLog(chain)) = Len(chain) /\ Len(chain) \in Nat
         /\ DOMAIN LedgerLog(chain) = 1..Len(chain)
         /\ \A i \in 1..Len(chain) :
              /\ DOMAIN LedgerLog(chain)[i] = DOMAIN chain[i].transactions
              /\ L!SpentBy(LedgerLog(chain)[i])
                   = UNION {SpentBy(chain[i].transactions[k]) :
                              k \in DOMAIN chain[i].transactions}
              /\ L!CreatedBy(LedgerLog(chain)[i])
                   = UNION {CreatedBy(chain[i].transactions[k]) :
                              k \in DOMAIN chain[i].transactions}
              /\ \A k \in DOMAIN chain[i].transactions :
                   /\ LedgerLog(chain)[i][k].spends = SpentBy(chain[i].transactions[k])
                   /\ LedgerLog(chain)[i][k].creates = CreatedBy(chain[i].transactions[k])
<1>1. DOMAIN chain = 1..Len(chain) /\ Len(chain) \in Nat
  OBVIOUS
<1>2. DOMAIN LedgerLog(chain) = 1..Len(chain)
  BY <1>1 DEF LedgerLog
<1>3. Len(LedgerLog(chain)) = Len(chain)
  <2>1. LedgerLog(chain) = [i \in 1..Len(chain) |-> LedgerLog(chain)[i]]
    BY <1>1 DEF LedgerLog
  <2> HIDE DEF LedgerLog
  <2> QED
    BY <1>1, <1>2, <2>1
<1>4. ASSUME NEW i \in 1..Len(chain)
      PROVE  /\ DOMAIN LedgerLog(chain)[i] = DOMAIN chain[i].transactions
             /\ \A k \in DOMAIN chain[i].transactions :
                  /\ LedgerLog(chain)[i][k].spends = SpentBy(chain[i].transactions[k])
                  /\ LedgerLog(chain)[i][k].creates = CreatedBy(chain[i].transactions[k])
  BY <1>1 DEF LedgerLog
<1>5. ASSUME NEW i \in 1..Len(chain)
      PROVE  /\ L!SpentBy(LedgerLog(chain)[i])
                  = UNION {SpentBy(chain[i].transactions[k]) :
                             k \in DOMAIN chain[i].transactions}
             /\ L!CreatedBy(LedgerLog(chain)[i])
                  = UNION {CreatedBy(chain[i].transactions[k]) :
                             k \in DOMAIN chain[i].transactions}
  BY <1>4 DEF L!SpentBy, L!CreatedBy
<1> QED
  BY <1>1, <1>2, <1>3, <1>4, <1>5

LEMMA CreatedInLog ==
  ASSUME NEW chain \in Seq(Blocks), NEW o
  PROVE  o \in L!Created(LedgerLog(chain)) <=>
           \E p \in Positions(chain) : o \in CreatedBy(TxAt(chain, p))
<1> DEFINE log == LedgerLog(chain)
<1>1. DOMAIN log = 1..Len(chain) /\ DOMAIN chain = 1..Len(chain)
  BY LogOfChain
<1>2. \A i \in 1..Len(chain) :
        L!CreatedBy(log[i]) = UNION {CreatedBy(chain[i].transactions[k]) :
                                       k \in DOMAIN chain[i].transactions}
  BY LogOfChain
<1> HIDE DEF log
<1>3. o \in L!Created(log) <=> \E i \in 1..Len(chain) : o \in L!CreatedBy(log[i])
  BY <1>1 DEF L!Created
<1>4. ASSUME o \in L!Created(log)
      PROVE  \E p \in Positions(chain) : o \in CreatedBy(TxAt(chain, p))
  <2>1. PICK i \in 1..Len(chain) : o \in L!CreatedBy(log[i])
    BY <1>3, <1>4
  <2>2. PICK k \in DOMAIN chain[i].transactions : o \in CreatedBy(chain[i].transactions[k])
    BY <1>2, <2>1
  <2>3. <<i, k>> \in Positions(chain) /\ TxAt(chain, <<i, k>>) = chain[i].transactions[k]
    BY <1>1 DEF Positions, TxAt
  <2> QED
    BY <2>2, <2>3
<1>5. ASSUME NEW p \in Positions(chain), o \in CreatedBy(TxAt(chain, p))
      PROVE  o \in L!Created(log)
  <2>1. p[1] \in 1..Len(chain) /\ p[2] \in DOMAIN chain[p[1]].transactions
    BY PositionsOf
  <2>2. o \in L!CreatedBy(log[p[1]])
    BY <1>2, <1>5, <2>1 DEF TxAt
  <2> QED
    BY <1>3, <2>1, <2>2
<1> QED
  BY <1>4, <1>5 DEF log

(* In a good chain an unspent output is one no block spends.               *)
LEMMA UnspentInLog ==
  ASSUME NEW chain, ChainOK(chain)
  PROVE  Unspent(chain) =
           {o \in L!Created(LedgerLog(chain)) :
              \A i \in 1..Len(LedgerLog(chain)) : o \notin L!SpentBy(LedgerLog(chain)[i])}
<1>0. chain \in Seq(Blocks) /\ DOMAIN chain = 1..Len(chain)
  BY DEF ChainOK
<1>1. ASSUME NEW o \in Unspent(chain)
      PROVE  /\ o \in L!Created(LedgerLog(chain))
             /\ \A i \in 1..Len(LedgerLog(chain)) : o \notin L!SpentBy(LedgerLog(chain)[i])
  <2>1. o \in L!Created(LedgerLog(chain))
    BY <1>0, UnspentIsCreated, CreatedInLog
  <2>2. ASSUME NEW i \in 1..Len(chain), NEW k \in DOMAIN chain[i].transactions,
               o \in SpentBy(chain[i].transactions[k])
        PROVE  FALSE
    <3>1. <<i, k>> \in Positions(chain) /\ TxAt(chain, <<i, k>>) = chain[i].transactions[k]
      BY <1>0 DEF Positions, TxAt
    <3> QED
      BY <2>2, <3>1, SpentIsNotUnspent
  <2> QED
    BY <1>0, <2>1, <2>2, LogOfChain
<1>2. ASSUME NEW o \in L!Created(LedgerLog(chain)),
             \A i \in 1..Len(LedgerLog(chain)) : o \notin L!SpentBy(LedgerLog(chain)[i])
      PROVE  o \in Unspent(chain)
  <2>1. PICK p \in Positions(chain) : o \in CreatedBy(TxAt(chain, p))
    BY <1>0, CreatedInLog
  <2>2. ASSUME NEW q \in Positions(chain) PROVE o \notin SpentBy(TxAt(chain, q))
    <3>1. q[1] \in 1..Len(chain) /\ q[2] \in DOMAIN chain[q[1]].transactions
      BY <1>0, PositionsOf
    <3>2. o \notin L!SpentBy(LedgerLog(chain)[q[1]])
      BY <1>0, <1>2, <3>1, LogOfChain
    <3>3. L!SpentBy(LedgerLog(chain)[q[1]])
            = UNION {SpentBy(chain[q[1]].transactions[k]) :
                       k \in DOMAIN chain[q[1]].transactions}
      BY <1>0, <3>1, LogOfChain
    <3> QED
      BY <3>1, <3>2, <3>3 DEF TxAt
  <2> QED
    BY <2>1, <2>2 DEF Unspent
<1> QED
  BY <1>1, <1>2

LEMMA InitLedger == Init => L!Init
<1> SUFFICES ASSUME Init PROVE L!Init
  OBVIOUS
<1>1. LedgerLog(blocks) = <<>>
  BY DEF Init, LedgerLog
<1> QED
  BY <1>1 DEF Init, L!Init

LEMMA AddBlockExtends ==
  ASSUME IInv, IInv', NEW b \in Blocks, AddBlock(b)
  PROVE  L!Extend
<1> DEFINE n   == Len(blocks) + 1
           txs == b.transactions
<1>1. /\ blocks \in Seq(Blocks) /\ blocks' = Append(blocks, b)
      /\ blocks' \in Seq(Blocks) /\ Len(blocks) \in Nat
      /\ Len(blocks') = n /\ blocks'[n] = b
      /\ \A i \in 1..Len(blocks) : blocks'[i] = blocks[i]
  BY DEF AddBlock, IInv, TypeOK
<1>2. /\ ChainOK(blocks) /\ ChainOK(blocks')
      /\ DOMAIN utxo_set = Unspent(blocks) /\ DOMAIN utxo_set' = Unspent(blocks')
  BY DEF IInv, UtxoIsUnspent
<1>3. /\ \A k \in DOMAIN txs : SpentBy(txs[k]) \subseteq DOMAIN utxo_set
      /\ \A j, k \in DOMAIN txs : j # k =>
           /\ SpentBy(txs[j]) \cap SpentBy(txs[k]) = {}
           /\ CreatedBy(txs[j]) \cap CreatedBy(txs[k]) = {}
  BY VerifiedBlock DEF AddBlock, Acceptable
<1> DEFINE log  == LedgerLog(blocks)
           log2 == LedgerLog(blocks')
           S    == UNION {SpentBy(txs[k]) : k \in DOMAIN txs}
           C    == UNION {CreatedBy(txs[k]) : k \in DOMAIN txs}
<1>4. /\ Len(log) = Len(blocks) /\ Len(log2) = n
      /\ L!SpentBy(log2[n]) = S /\ L!CreatedBy(log2[n]) = C
      /\ DOMAIN log2[n] = DOMAIN txs
      /\ \A k \in DOMAIN txs : /\ log2[n][k].spends = SpentBy(txs[k])
                               /\ log2[n][k].creates = CreatedBy(txs[k])
  <2>1. n \in 1..Len(blocks') /\ blocks'[n].transactions = txs
    BY <1>1
  <2>2. Len(log) = Len(blocks)
    BY <1>1, LogOfChain
  <2>3. /\ Len(log2) = Len(blocks')
        /\ DOMAIN log2[n] = DOMAIN blocks'[n].transactions
        /\ L!SpentBy(log2[n]) = UNION {SpentBy(blocks'[n].transactions[k]) :
                                         k \in DOMAIN blocks'[n].transactions}
        /\ L!CreatedBy(log2[n]) = UNION {CreatedBy(blocks'[n].transactions[k]) :
                                           k \in DOMAIN blocks'[n].transactions}
        /\ \A k \in DOMAIN blocks'[n].transactions :
             /\ log2[n][k].spends = SpentBy(blocks'[n].transactions[k])
             /\ log2[n][k].creates = CreatedBy(blocks'[n].transactions[k])
    <3> HIDE DEF n
    <3> QED
      BY <1>1, <2>1, LogOfChain
  <2> HIDE DEF log, log2, n, txs
  <2> QED
    BY <1>1, <2>1, <2>2, <2>3 DEF S, C
<1>5. \A i \in 1..Len(log) : log2[i] = log[i]
  BY <1>1, <1>4 DEF LedgerLog
<1>6. DOMAIN utxo_set' = (DOMAIN utxo_set \ S) \cup C
  BY <1>1, <1>2, <1>3, UnspentAfterBlock
<1>7. C \cap L!Created(log) = {}
  <2> SUFFICES ASSUME NEW k \in DOMAIN txs, NEW o \in CreatedBy(txs[k]),
                      o \in L!Created(log)
               PROVE  FALSE
    OBVIOUS
  <2>1. PICK p \in Positions(blocks) : o \in CreatedBy(TxAt(blocks, p))
    BY <1>1, CreatedInLog
  <2>2. /\ p \in Positions(blocks') /\ TxAt(blocks', p) = TxAt(blocks, p)
        /\ <<n, k>> \in Positions(blocks') /\ TxAt(blocks', <<n, k>>) = txs[k]
    BY <1>1, AppendPositions
  <2>3. p[1] \in 1..Len(blocks)
    BY <1>1, PositionsOf
  <2>4. p # <<n, k>>
    BY <1>1, <2>3
  <2> QED
    BY <1>2, <2>1, <2>2, <2>4 DEF ChainOK, CreatesOnce
<1>8. L!MayExtend(log2[n])
  <2>1. S \subseteq DOMAIN utxo_set
    BY <1>3
  <2>2. \A j, k \in DOMAIN log2[n] :
          j # k => /\ log2[n][j].spends \cap log2[n][k].spends = {}
                   /\ log2[n][j].creates \cap log2[n][k].creates = {}
    <3> HIDE DEF log2, n, txs
    <3> QED
      BY <1>3, <1>4
  <2>3. L!SpentBy(log2[n]) \subseteq DOMAIN utxo_set
    BY <1>4, <2>1
  <2>4. L!CreatedBy(log2[n]) \cap L!Created(log) = {}
    BY <1>4, <1>7
  <2> HIDE DEF log2, n
  <2> QED
    BY <2>2, <2>3, <2>4 DEF L!MayExtend, log
<1> QED
  BY <1>4, <1>5, <1>6, <1>8 DEF L!Extend

LEMMA RestartForgets ==
  ASSUME IInv, IInv', Restart
  PROVE  L!Forget
<1>1. /\ blocks \in Seq(Blocks) /\ blocks' \in Seq(Blocks)
      /\ Len(blocks') <= Len(blocks)
      /\ \A i \in 1..Len(blocks') : blocks[i] = blocks'[i]
      /\ Len(blocks) \in Nat /\ Len(blocks') \in Nat
  BY DEF Restart, IInv, TypeOK, DiskOK
<1>2. /\ Len(LedgerLog(blocks')) = Len(blocks') /\ Len(LedgerLog(blocks)) = Len(blocks)
  BY <1>1, LogOfChain
<1>3. \A i \in 1..Len(blocks') : LedgerLog(blocks')[i] = LedgerLog(blocks)[i]
  BY <1>1 DEF LedgerLog
<1>4. DOMAIN utxo_set' =
        {o \in L!Created(LedgerLog(blocks')) :
           \A i \in 1..Len(LedgerLog(blocks')) : o \notin L!SpentBy(LedgerLog(blocks')[i])}
  BY UnspentInLog DEF IInv, UtxoIsUnspent
<1> QED
  BY <1>1, <1>2, <1>3, <1>4 DEF L!Forget

LEMMA NextLedger == IInv /\ IInv' /\ [Next]_vars => [L!Next]_L!vars
<1> SUFFICES ASSUME IInv, IInv', [Next]_vars PROVE [L!Next]_L!vars
  OBVIOUS
<1>1. ASSUME NEW b \in Blocks, AddBlock(b) PROVE L!Next
  BY <1>1, AddBlockExtends DEF L!Next
<1>2. CASE Restart
  BY <1>2, RestartForgets DEF L!Next
<1>3. ASSUME UNCHANGED blocks PROVE UNCHANGED L!vars
  BY <1>3 DEF IInv, UtxoIsUnspent, L!vars
<1>4. ASSUME NEW tx \in Txs, AddToMempool(tx) PROVE UNCHANGED L!vars
  BY <1>3, <1>4 DEF AddToMempool
<1>5. CASE \/ Rebuild \/ Readjust \/ Tick \/ CleanupMempool
           \/ Save \/ CrashWhileSaving \/ UNCHANGED vars
  BY <1>3, <1>5 DEF Rebuild, Readjust, Tick, CleanupMempool, Save, CrashWhileSaving, vars
<1> QED
  BY <1>1, <1>2, <1>4, <1>5 DEF Next

(* The chain and the utxo set of a node are a ledger: blocks spend coins   *)
(* only, each once, and a restart forgets a suffix of the log.             *)
THEOREM Refinement == Spec => ImplementsLedger
<1>1. Spec => []IInv
  BY Invariant
<1> QED
  BY <1>1, InitLedger, NextLedger, PTL DEF Spec, ImplementsLedger, L!Spec

-----------------------------------------------------------------------------
(* Money *)

(* A halving divides by a natural number that is not zero.                 *)
LEMMA PowerOfTwoType ==
  ASSUME NEW n \in Nat
  PROVE  PowerOfTwo(n) \in Nat \ {0}
<1> DEFINE Pow(m, p) == [k \in 0..m |-> IF k = 0 THEN 1 ELSE 2 * p[k - 1]]
           Ns == {m \in Nat : /\ \E p : p = Pow(m, p)
                              /\ \A p : p = Pow(m, p) => p[m] \in Nat \ {0}}
<1>1. 0 \in Ns
  <2> DEFINE p == [k \in 0..0 |-> 1]
  <2>1. p = Pow(0, p)
    OBVIOUS
  <2>2. \A q : q = Pow(0, q) => q[0] \in Nat \ {0}
    OBVIOUS
  <2> QED
    BY <2>1, <2>2
<1>2. ASSUME NEW m \in Nat, m \in Ns PROVE m + 1 \in Ns
  <2>1. PICK p : p = Pow(m, p)
    BY <1>2
  <2> DEFINE q == Pow(m + 1, p)
  <2>2. \A k \in 0..m : q[k] = p[k]
    <3>1. \A k \in 0..m : p[k] = IF k = 0 THEN 1 ELSE 2 * p[k - 1]
      BY <2>1
    <3> QED
      BY <3>1
  <2>3. q = Pow(m + 1, q)
    <3>1. \A k \in 0..(m + 1) : k # 0 => q[k - 1] = p[k - 1]
      BY <2>2
    <3> QED
      BY <3>1
  <2>4. ASSUME NEW r, r = Pow(m + 1, r) PROVE r[m + 1] \in Nat \ {0}
    <3> DEFINE s == [k \in 0..m |-> r[k]]
    <3>1. \A k \in 0..(m + 1) : r[k] = IF k = 0 THEN 1 ELSE 2 * r[k - 1]
      BY <2>4
    <3>2. s = Pow(m, s)
      BY <3>1
    <3>3. s[m] \in Nat \ {0}
      BY <1>2, <3>2
    <3>4. r[m + 1] = 2 * r[m] /\ r[m] \in Nat \ {0}
      BY <3>1, <3>3
    <3> QED
      BY <3>4
  <2>5. \E r : r = Pow(m + 1, r)
    <3> HIDE DEF q, Pow
    <3> QED
      BY <2>3
  <2>6. m + 1 \in Nat
    OBVIOUS
  <2> HIDE DEF Pow
  <2> QED
    BY <2>4, <2>5, <2>6
<1> HIDE DEF Ns
<1>3. n \in Ns
  BY <1>1, <1>2, Induction
<1> DEFINE pow == CHOOSE p : p = Pow(n, p)
<1>4. pow = Pow(n, pow)
  BY <1>3 DEF Ns
<1>5. PowerOfTwo(n) = pow[n]
  BY DEF PowerOfTwo
<1> QED
  BY <1>3, <1>4, <1>5 DEF Ns

(* What the outputs of a chain are worth is what its subsidies add up to.  *)
Worth     == [o \in AllOutputs |-> o.amount]
Subsidies == [i \in Nat \ {0} |->
                INITIAL_REWARD \div PowerOfTwo((i - 1) \div HALVING_INTERVAL)]
SupplyOK(chain) == Sum(Worth, Unspent(chain)) = Sum(Subsidies, DOMAIN chain)

LEMMA SubsidyType ==
  ASSUME NEW i \in Nat \ {0}
  PROVE  /\ (i - 1) \div HALVING_INTERVAL \in Nat
         /\ Subsidies[i] \in Nat
<1>1. (i - 1) \div HALVING_INTERVAL \in Nat
  BY NumbersAssumption
<1>2. PowerOfTwo((i - 1) \div HALVING_INTERVAL) \in Nat \ {0}
  BY <1>1, PowerOfTwoType
<1> QED
  BY <1>1, <1>2, NumbersAssumption DEF Subsidies

LEMMA AmountType ==
  ASSUME NEW o \in AllOutputs
  PROVE  Worth[o] = o.amount /\ Worth[o] \in Nat
BY TxsAssumption DEF Worth

LEMMA SupplyAsSums ==
  ASSUME blocks \in Seq(Blocks), UtxoIsUnspent
  PROVE  SupplyIsSubsidy <=> SupplyOK(blocks)
<1> DEFINE S == Unspent(blocks)
           D == DOMAIN blocks
           f == [o \in S |-> o.amount]
           g == [i \in D |-> INITIAL_REWARD \div PowerOfTwo((i - 1) \div HALVING_INTERVAL)]
<1>1. /\ MapThenSumSet(LAMBDA o : o.amount, S) = Sum(f, S)
      /\ MapThenSumSet(LAMBDA i : INITIAL_REWARD \div PowerOfTwo((i - 1) \div HALVING_INTERVAL), D)
           = Sum(g, D)
  <2> HIDE DEF S, D
  <2>1. MapThenSumSet(LAMBDA o : o.amount, S) = Sum(f, S)
    BY DEF MapThenSumSet, MapThenFoldSet, Sum
  <2>2. MapThenSumSet(LAMBDA i : INITIAL_REWARD \div PowerOfTwo((i - 1) \div HALVING_INTERVAL), D)
           = Sum(g, D)
    BY DEF MapThenSumSet, MapThenFoldSet, Sum
  <2> QED
    BY <2>1, <2>2
<1>2. Sum(f, S) = Sum(Worth, S)
  <2>1. IsFiniteSet(S) /\ S \subseteq AllOutputs
    BY UnspentFinite, UnspentTyped
  <2>2. \A o \in S : f[o] = Worth[o] /\ f[o] \in Int
    BY <2>1, AmountType
  <2> HIDE DEF f, S
  <2> QED
    BY <2>1, <2>2, SumSame
<1>3. Sum(g, D) = Sum(Subsidies, D)
  <2>1. IsFiniteSet(D) /\ D \subseteq Nat \ {0}
    <3>1. D = 1..Len(blocks) /\ Len(blocks) \in Nat
      OBVIOUS
    <3>2. IsFiniteSet(1..Len(blocks))
      BY <3>1, FS_Interval
    <3> HIDE DEF D
    <3> QED
      BY <3>1, <3>2
  <2>2. \A i \in D : g[i] = Subsidies[i] /\ g[i] \in Int
    BY <2>1, SubsidyType DEF Subsidies
  <2> HIDE DEF g, D
  <2> QED
    BY <2>1, <2>2, SumSame
<1>4. DOMAIN utxo_set = S
  BY DEF UtxoIsUnspent
<1> HIDE DEF f, g, S, D
<1>5. /\ SupplyIsSubsidy <=>
           MapThenSumSet(LAMBDA o : o.amount, S)
             = MapThenSumSet(LAMBDA i : INITIAL_REWARD \div PowerOfTwo((i - 1) \div HALVING_INTERVAL), D)
      /\ SupplyOK(blocks) <=> (Sum(Worth, S) = Sum(Subsidies, D))
  BY <1>4 DEF SupplyIsSubsidy, SupplyOK, S, D
<1> QED
  BY <1>1, <1>2, <1>3, <1>5

(* The sums of a transaction, over the sets of what it creates and spends. *)
LEMMA OutputSumIs ==
  ASSUME NEW tx \in AllTxs
  PROVE  /\ IsFiniteSet(CreatedBy(tx)) /\ CreatedBy(tx) \subseteq AllOutputs
         /\ OutputSum(tx) = Sum(Worth, CreatedBy(tx))
<1> DEFINE outs == tx.outputs
           D    == DOMAIN outs
           f    == [k \in D |-> outs[k].amount]
<1>1. outs \in Seq(AllOutputs) /\ \A i, j \in D : outs[i] = outs[j] => i = j
  BY TxsAssumption, OutputsAssumption
<1>2. IsFiniteSet(D)
  <2>1. D = 1..Len(outs) /\ Len(outs) \in Nat
    BY <1>1
  <2> QED
    BY <2>1, FS_Interval
<1>3. IsFiniteSet(CreatedBy(tx)) /\ CreatedBy(tx) = {outs[k] : k \in D}
      /\ CreatedBy(tx) \subseteq AllOutputs
  BY <1>1, RangeFinite DEF CreatedBy, Range
<1>4. OutputSum(tx) = Sum(f, D)
  <2> HIDE DEF D
  <2> QED
    BY DEF OutputSum, MapThenSumSet, MapThenFoldSet, Sum, D
<1>5. \A k \in D : f[k] = Worth[outs[k]] /\ f[k] \in Int
  BY <1>1, AmountType
<1>6. Sum(f, D) = Sum(Worth, {outs[k] : k \in D})
  <2> HIDE DEF f, D, outs
  <2> QED
    BY <1>1, <1>2, <1>5, SumMapped
<1> QED
  BY <1>3, <1>4, <1>6

LEMMA SumOfInputs ==
  ASSUME NEW ins, NEW D, NEW utxo
  PROVE  MapThenSumSet(LAMBDA k : LET o == ins[k].prev_tx_output_hash
                                  IN  IF o \in DOMAIN utxo THEN o.amount ELSE 0, D)
           = Sum([k \in D |-> IF ins[k].prev_tx_output_hash \in DOMAIN utxo
                              THEN ins[k].prev_tx_output_hash.amount ELSE 0], D)
BY DEF MapThenSumSet, MapThenFoldSet, Sum

LEMMA InputSumIs ==
  ASSUME NEW tx \in AllTxs, InputsDiffer(tx), NEW utxo, SpentBy(tx) \subseteq DOMAIN utxo
  PROVE  /\ IsFiniteSet(SpentBy(tx)) /\ SpentBy(tx) \subseteq AllOutputs
         /\ InputSum(utxo, tx) = Sum(Worth, SpentBy(tx))
<1> DEFINE ins == tx.inputs
           D   == DOMAIN ins
           e   == [k \in D |-> ins[k].prev_tx_output_hash]
           f   == [k \in D |-> IF ins[k].prev_tx_output_hash \in DOMAIN utxo
                              THEN ins[k].prev_tx_output_hash.amount ELSE 0]
<1>0. ins \in Seq([prev_tx_output_hash : AllOutputs,
                   signature : {o.pubkey : o \in AllOutputs}])
  BY TxsAssumption
<1>1. \A i, j \in D : e[i] = e[j] => i = j
  BY DEF InputsDiffer
<1>2. IsFiniteSet(D)
  <2>1. D = 1..Len(ins) /\ Len(ins) \in Nat
    BY <1>0
  <2> QED
    BY <2>1, FS_Interval
<1>3. SpentBy(tx) = {e[k] : k \in D} /\ SpentBy(tx) \subseteq AllOutputs
  <2>1. SpentBy(tx) = {e[k] : k \in D}
    BY DEF SpentBy
  <2>2. ASSUME NEW k \in D PROVE e[k] \in AllOutputs
    <3> DEFINE Slot == [prev_tx_output_hash : AllOutputs,
                        signature : {o.pubkey : o \in AllOutputs}]
    <3>1. ins \in Seq(Slot)
      BY <1>0
    <3>2. ins[k] \in Slot
      <4> HIDE DEF Slot, ins
      <4> QED
        BY <3>1 DEF D
    <3> QED
      BY <3>2
  <2> QED
    BY <2>1, <2>2
<1>4. IsFiniteSet(SpentBy(tx))
  <2>1. e \in Surjection(D, SpentBy(tx))
    BY <1>3 DEF Surjection
  <2> QED
    BY <1>2, <2>1, FS_Surjection
<1>5. InputSum(utxo, tx) = Sum(f, D)
  BY SumOfInputs DEF InputSum
<1>6. \A k \in D : f[k] = Worth[e[k]] /\ f[k] \in Int
  <2> SUFFICES ASSUME NEW k \in D PROVE f[k] = Worth[e[k]] /\ f[k] \in Int
    OBVIOUS
  <2>1. e[k] \in SpentBy(tx)
    BY <1>3
  <2>2. e[k] \in DOMAIN utxo /\ e[k] \in AllOutputs /\ e[k] = ins[k].prev_tx_output_hash
    BY <1>3, <2>1
  <2>3. f[k] = e[k].amount
    BY <2>2
  <2> HIDE DEF e, f
  <2> QED
    BY <2>2, <2>3, AmountType
<1>7. Sum(f, D) = Sum(Worth, {e[k] : k \in D})
  <2> HIDE DEF f, D, e, ins
  <2> QED
    BY <1>1, <1>2, <1>6, SumMapped
<1> QED
  BY <1>3, <1>4, <1>5, <1>7

(* A sum that does not panic in a debug build has not wrapped either.      *)
LEMMA NotWrapped ==
  ASSUME NEW n, (OverflowChecks /\ ~Panics(n)) \/ n \in 0..(U64 - 1)
  PROVE  Wrap(n) = n /\ n \in Nat
<1>1. n \in 0..(U64 - 1) /\ U64 \in Nat \ {0}
  BY NumbersAssumption DEF Panics
<1> QED
  BY <1>1, Z3 DEF Wrap

(* In a release build nothing wraps as long as no transaction creates 2^64 *)
(* or more at once and the subsidies stay below that together.             *)
AmountsFit ==
  /\ \A tx \in AllTxs : OutputSum(tx) < U64
  /\ \A n \in Nat : Sum(Subsidies, 1..n) < U64

LEMMA FeesAsSum ==
  ASSUME NEW b, NEW utxo
  PROVE  MinerFees(b, utxo) =
           Sum([k \in 2..Len(b.transactions) |->
                  Wrap(InputSum(utxo, b.transactions[k]))
                    - Wrap(OutputSum(b.transactions[k]))], 2..Len(b.transactions))
BY DEF MinerFees, MapThenSumSet, MapThenFoldSet, Sum

(* A block creates what it spends and the subsidy.                         *)
LEMMA BlockBalances ==
  ASSUME OverflowChecks \/ AmountsFit, NEW b \in Blocks, NEW h \in Nat, NEW utxo,
         VerifyTransactions(b, h, utxo),
         IsFiniteSet(DOMAIN utxo), DOMAIN utxo \subseteq AllOutputs,
         Sum(Worth, DOMAIN utxo) = Sum(Subsidies, 1..h)
  PROVE  LET S == UNION {SpentBy(b.transactions[k]) : k \in DOMAIN b.transactions}
             C == UNION {CreatedBy(b.transactions[k]) : k \in DOMAIN b.transactions}
         IN  /\ IsFiniteSet(S) /\ S \subseteq AllOutputs
             /\ IsFiniteSet(C) /\ C \subseteq AllOutputs
             /\ Sum(Worth, C) = Subsidies[h + 1] + Sum(Worth, S)
<1> DEFINE txs == b.transactions
           D   == DOMAIN txs
           K   == 2..Len(txs)
           G   == [k \in D |-> SpentBy(txs[k])]
           H   == [k \in D |-> CreatedBy(txs[k])]
           ins  == [k \in D |-> InputSum(utxo, txs[k])]
           outs == [k \in D |-> OutputSum(txs[k])]
           fee  == [k \in K |-> Wrap(InputSum(utxo, txs[k])) - Wrap(OutputSum(txs[k]))]
           S   == UNION {SpentBy(txs[k]) : k \in D}
           C   == UNION {CreatedBy(txs[k]) : k \in D}
<1>1. /\ txs \in Seq(AllTxs) /\ txs # <<>>
      /\ txs[1].inputs = <<>>
      /\ \A k \in D : SpentBy(txs[k]) \subseteq DOMAIN utxo /\ InputsDiffer(txs[k])
      /\ \A j, k \in D : j # k => SpentBy(txs[j]) \cap SpentBy(txs[k]) = {}
                                  /\ CreatedBy(txs[j]) \cap CreatedBy(txs[k]) = {}
  BY VerifiedBlock
<1>2. /\ D = K \cup {1} /\ 1 \notin K /\ 1 \in D
      /\ \A k \in D : txs[k] \in AllTxs
  BY <1>1
<1>3. IsFiniteSet(K) /\ IsFiniteSet(D)
  <2>1. IsFiniteSet(K)
    BY <1>1, FS_Interval
  <2> QED
    BY <1>2, <2>1, FS_AddElement
<1>4. \A k \in D : /\ IsFiniteSet(G[k]) /\ G[k] \subseteq AllOutputs
                   /\ ins[k] = Sum(Worth, G[k])
                   /\ IsFiniteSet(H[k]) /\ H[k] \subseteq AllOutputs
                   /\ outs[k] = Sum(Worth, H[k])
  BY <1>1, <1>2, InputSumIs, OutputSumIs
<1>5. /\ \A o \in AllOutputs : Worth[o] \in Nat
      /\ Subsidies[h + 1] \in Nat
      /\ U64 \in Nat \ {0}
  BY AmountType, SubsidyType, NumbersAssumption
<1>6. /\ \A j, k \in D : j # k => G[j] \cap G[k] = {}
      /\ \A j, k \in D : j # k => H[j] \cap H[k] = {}
  BY <1>1
<1>7. /\ S \subseteq DOMAIN utxo /\ S \subseteq AllOutputs /\ C \subseteq AllOutputs
      /\ \A k \in D : G[k] \subseteq S
  BY <1>1, <1>4
<1>8. S = UNION {G[k] : k \in D} /\ C = UNION {H[k] : k \in D}
  OBVIOUS
<1>9. /\ Sum(Worth, DOMAIN utxo) \in Nat
      /\ \A T \in SUBSET DOMAIN utxo : Sum(Worth, T) <= Sum(Worth, DOMAIN utxo)
      /\ AmountsFit => Sum(Worth, DOMAIN utxo) < U64
  BY <1>5, SumNat, SumMonotone DEF AmountsFit
<1>10. \A k \in D : ins[k] \in Nat /\ outs[k] \in Nat
  <2> SUFFICES ASSUME NEW k \in D PROVE ins[k] \in Nat /\ outs[k] \in Nat
    OBVIOUS
  <2> HIDE DEF D, G, H, ins, outs
  <2>1. Sum(Worth, G[k]) \in Nat
    BY <1>4, <1>5, SumNat
  <2>2. Sum(Worth, H[k]) \in Nat
    BY <1>4, <1>5, SumNat
  <2> QED
    BY <1>4, <2>1, <2>2
<1>11. \A k \in K : fee[k] = ins[k] - outs[k] /\ fee[k] \in Nat
  <2> SUFFICES ASSUME NEW k \in K PROVE fee[k] = ins[k] - outs[k] /\ fee[k] \in Nat
    OBVIOUS
  <2> DEFINE x == InputSum(utxo, txs[k])
             y == OutputSum(txs[k])
  <2>1. k \in D /\ ins[k] = x /\ outs[k] = y /\ fee[k] = Wrap(x) - Wrap(y)
    BY <1>2
  <2>2. /\ ~Panics(x) /\ ~Panics(y)
        /\ ~(Wrap(x) < Wrap(y))
    BY DEF VerifyTransactions, SumsPanic, Overspends
  <2>3. x \in Nat /\ y \in Nat
    BY <1>10, <2>1
  <2>4. /\ x <= Sum(Worth, DOMAIN utxo)
        /\ AmountsFit => y < U64
    <3>1. G[k] \in SUBSET DOMAIN utxo /\ x = Sum(Worth, G[k])
      BY <1>4, <1>7, <2>1
    <3>2. x <= Sum(Worth, DOMAIN utxo)
      BY <1>9, <3>1
    <3>3. AmountsFit => y < U64
      BY <1>2, <2>1 DEF AmountsFit
    <3> QED
      BY <3>2, <3>3
  <2> HIDE DEF x, y, ins, outs, fee
  <2>5. AmountsFit => x \in 0..(U64 - 1) /\ y \in 0..(U64 - 1)
    <3> DEFINE z == Sum(Worth, DOMAIN utxo)
    <3>1. z \in Nat /\ x <= z /\ (AmountsFit => z < U64)
      BY <1>9, <2>4
    <3> HIDE DEF z
    <3> QED
      BY <1>5, <2>3, <2>4, <3>1
  <2>6. Wrap(x) = x /\ Wrap(y) = y
    BY <2>2, <2>5, NotWrapped
  <2> QED
    BY <2>1, <2>2, <2>3, <2>6
<1>12. MinerFees(b, utxo) = Sum(fee, K)
  BY FeesAsSum
<1>13. ins[1] = 0
  <2>1. SpentBy(txs[1]) = {}
    BY <1>1 DEF SpentBy
  <2>2. G[1] = {}
    BY <1>2, <2>1
  <2> QED
    BY <1>2, <1>4, <2>2, SumEmpty
<1> HIDE DEF G, H, ins, outs, fee, S, C, K
<1>14. /\ IsFiniteSet(S) /\ Sum(Worth, S) = Sum(ins, D)
       /\ IsFiniteSet(C) /\ Sum(Worth, C) = Sum(outs, D)
  <2> HIDE DEF D
  <2>1. \A k \in D : IsFiniteSet(G[k]) /\ \A o \in G[k] : Worth[o] \in Int
    BY <1>4, <1>5
  <2>2. \A k \in D : IsFiniteSet(H[k]) /\ \A o \in H[k] : Worth[o] \in Int
    BY <1>4, <1>5
  <2>3. \A k \in D : ins[k] = Sum(Worth, G[k])
    BY <1>4
  <2>4. \A k \in D : outs[k] = Sum(Worth, H[k])
    BY <1>4
  <2>5. IsFiniteSet(S) /\ Sum(Worth, S) = Sum(ins, D)
    <3>1. \A j, k \in D : j # k => G[j] \cap G[k] = {}
      BY <1>6
    <3>2. S = UNION {G[k] : k \in D}
      BY <1>8
    <3>3. Family(D, G, Worth, ins, S)
      BY <1>3, <2>1, <2>3, <3>1, <3>2 DEF Family
    <3> QED
      BY <3>3, SumFamily
  <2>6. IsFiniteSet(C) /\ Sum(Worth, C) = Sum(outs, D)
    <3>1. \A j, k \in D : j # k => H[j] \cap H[k] = {}
      BY <1>6
    <3>2. C = UNION {H[k] : k \in D}
      BY <1>8
    <3>3. Family(D, H, Worth, outs, C)
      BY <1>3, <2>2, <2>4, <3>1, <3>2 DEF Family
    <3> QED
      BY <3>3, SumFamily
  <2> QED
    BY <2>5, <2>6
<1>15. /\ Sum(ins, D) = Sum(ins, K) /\ Sum(outs, D) = Sum(outs, K) + outs[1]
       /\ Sum(ins, K) \in Nat /\ Sum(outs, K) \in Nat
  <2> HIDE DEF D
  <2>1. Sum(ins, K) \in Nat /\ Sum(outs, K) \in Nat
    BY <1>2, <1>3, <1>10, SumNat
  <2>2. Sum(ins, K \cup {1}) = Sum(ins, K) + ins[1]
    BY <1>2, <1>3, <1>10, SumAdds
  <2>3. Sum(outs, K \cup {1}) = Sum(outs, K) + outs[1]
    BY <1>2, <1>3, <1>10, SumAdds
  <2> QED
    BY <1>2, <1>13, <2>1, <2>2, <2>3
<1>16. Sum(fee, K) = Sum(ins, K) - Sum(outs, K) /\ Sum(fee, K) \in Nat
  <2> HIDE DEF D
  <2>1. \A k \in K : /\ ins[k] \in Int /\ outs[k] \in Int
                     /\ fee[k] = ins[k] - outs[k] /\ fee[k] \in Nat
    BY <1>2, <1>10, <1>11
  <2>2. Sum(fee, K) = Sum(ins, K) - Sum(outs, K)
    BY <1>3, <2>1, SumMinus
  <2>3. Sum(fee, K) \in Nat
    BY <1>3, <2>1, SumNat
  <2> QED
    BY <2>2, <2>3
<1>17. outs[1] = Subsidies[h + 1] + MinerFees(b, utxo)
  <2>1. Head(txs) = txs[1] /\ outs[1] = OutputSum(txs[1]) /\ txs[1] \in AllTxs
    BY <1>1, <1>2 DEF outs
  <2>2. /\ ~Panics(MinerFees(b, utxo))
        /\ CoinbaseOK(txs[1], h, Wrap(MinerFees(b, utxo)))
    BY <2>1 DEF VerifyTransactions
  <2>3. Subsidies[h + 1] = INITIAL_REWARD \div RewardDivisor(h)
    <3>1. h + 1 \in Nat \ {0} /\ (h + 1) - 1 = h
      OBVIOUS
    <3> QED
      BY <3>1 DEF Subsidies, RewardDivisor
  <2> DEFINE fees == MinerFees(b, utxo)
             due  == Subsidies[h + 1] + fees
             out  == OutputSum(txs[1])
  <2>4. fees \in Nat /\ due \in Nat /\ out \in Nat
    BY <1>2, <1>5, <1>10, <1>12, <1>16, <2>1
  <2>5. AmountsFit => due < U64 /\ out < U64
    <3>1. fees <= Sum(Worth, DOMAIN utxo)
      <4> DEFINE x == Sum(ins, K)
                 y == Sum(outs, K)
                 z == Sum(Worth, DOMAIN utxo)
      <4>1. fees = x - y /\ x \in Nat /\ y \in Nat /\ z \in Nat /\ x <= z
        BY <1>7, <1>9, <1>12, <1>14, <1>15, <1>16
      <4> HIDE DEF x, y, z, fees
      <4>2. fees <= z
        BY <4>1
      <4> QED
        BY <4>2 DEF z
    <3>2. Sum(Subsidies, 1..(h + 1)) = Sum(Subsidies, 1..h) + Subsidies[h + 1]
      <4> DEFINE E == 1..h
                 m == h + 1
      <4>1. IsFiniteSet(E)
        BY FS_Interval
      <4>2. 1..(h + 1) = E \cup {m} /\ m \notin E
        OBVIOUS
      <4>3. Subsidies[m] \in Int /\ \A i \in E : Subsidies[i] \in Int
        BY SubsidyType
      <4> HIDE DEF E, m
      <4>4. Sum(Subsidies, E \cup {m}) = Sum(Subsidies, E) + Subsidies[m]
        BY <4>1, <4>2, <4>3, SumAdds
      <4> QED
        BY <4>2, <4>4 DEF E, m
    <3>3. AmountsFit => /\ Sum(Subsidies, 1..(h + 1)) < U64
                        /\ out < U64
      BY <2>1 DEF AmountsFit
    <3> DEFINE z == Sum(Subsidies, 1..h)
               w == Subsidies[h + 1]
    <3>4. z \in Nat /\ w \in Nat /\ fees <= z
      BY <1>5, <1>9, <3>1
    <3>5. AmountsFit => z + w < U64
      BY <3>2, <3>3
    <3> HIDE DEF z, w, fees
    <3>6. AmountsFit => w + fees < U64
      BY <1>5, <2>4, <3>4, <3>5
    <3> QED
      BY <3>3, <3>6 DEF w
  <2>6. /\ ~Panics(fees) /\ Wrap(fees) = fees
    <3>1. AmountsFit => fees \in 0..(U64 - 1)
      <4> DEFINE w == Subsidies[h + 1]
      <4>1. due = w + fees /\ w \in Nat
        BY <1>5
      <4> HIDE DEF due, fees, w
      <4> QED
        BY <1>5, <2>4, <2>5, <4>1
    <3> HIDE DEF fees
    <3> QED
      BY <2>2, <3>1, NotWrapped DEF fees
  <2>7. /\ OverflowChecks => ~Panics(out) /\ ~Panics(due)
        /\ Wrap(out) = Wrap(due)
    BY <2>2, <2>3, <2>6 DEF CoinbaseOK
  <2> HIDE DEF fees, due, out
  <2>8. Wrap(out) = out /\ Wrap(due) = due
    BY <1>5, <2>4, <2>5, <2>7, NotWrapped
  <2> QED
    BY <2>1, <2>7, <2>8 DEF due, out, fees
<1>18. Sum(Worth, C) = Subsidies[h + 1] + Sum(Worth, S)
  <2> DEFINE x == Sum(ins, K)
             y == Sum(outs, K)
             z == Subsidies[h + 1]
  <2>1. x \in Nat /\ y \in Nat /\ z \in Nat
    BY <1>5, <1>15
  <2>2. Sum(Worth, C) = y + (z + (x - y)) /\ Sum(Worth, S) = x
    BY <1>12, <1>14, <1>15, <1>16, <1>17
  <2> HIDE DEF x, y, z
  <2>3. Sum(Worth, C) = z + x
    BY <2>1, <2>2
  <2> QED
    BY <2>2, <2>3 DEF z
<1> QED
  BY <1>7, <1>14, <1>18 DEF S, C

LEMMA BlockKeepsBalance ==
  ASSUME OverflowChecks \/ AmountsFit, NEW chain, ChainOK(chain), NEW b \in Blocks,
         ChainOK(Append(chain, b)), NEW utxo, DOMAIN utxo = Unspent(chain),
         VerifyTransactions(b, Len(chain), utxo), SupplyOK(chain)
  PROVE  SupplyOK(Append(chain, b))
<1> DEFINE n == Len(chain) + 1
           U == Unspent(chain)
           S == UNION {SpentBy(b.transactions[k]) : k \in DOMAIN b.transactions}
           C == UNION {CreatedBy(b.transactions[k]) : k \in DOMAIN b.transactions}
           D == DOMAIN chain
<1>1. /\ chain \in Seq(Blocks) /\ Len(chain) \in Nat
      /\ D = 1..Len(chain) /\ DOMAIN Append(chain, b) = D \cup {n}
  BY DEF ChainOK
<1>2. /\ \A k \in DOMAIN b.transactions : SpentBy(b.transactions[k]) \subseteq U
      /\ S \subseteq U
  BY VerifiedBlock
<1>3. Unspent(Append(chain, b)) = (U \ S) \cup C
  BY <1>2, UnspentAfterBlock
<1>4. U \cap C = {}
  <2> SUFFICES ASSUME NEW o \in U, NEW k \in DOMAIN b.transactions,
                      o \in CreatedBy(b.transactions[k])
               PROVE  FALSE
    OBVIOUS
  <2>1. PICK p \in Positions(chain) : o \in CreatedBy(TxAt(chain, p))
    BY UnspentIsCreated
  <2> DEFINE longer == Append(chain, b)
  <2>2. /\ p \in Positions(longer) /\ TxAt(longer, p) = TxAt(chain, p)
        /\ <<n, k>> \in Positions(longer) /\ TxAt(longer, <<n, k>>) = b.transactions[k]
    BY <1>1, AppendPositions
  <2>3. p # <<n, k>>
    BY <1>1, PositionsOf
  <2> QED
    BY <2>1, <2>2, <2>3 DEF ChainOK, CreatesOnce
<1>5. /\ IsFiniteSet(S) /\ S \subseteq AllOutputs
      /\ IsFiniteSet(C) /\ C \subseteq AllOutputs
      /\ Sum(Worth, C) = Subsidies[n] + Sum(Worth, S)
  <2>1. /\ IsFiniteSet(DOMAIN utxo) /\ DOMAIN utxo \subseteq AllOutputs
        /\ Sum(Worth, DOMAIN utxo) = Sum(Subsidies, 1..Len(chain))
    BY <1>1, UnspentFinite, UnspentTyped DEF SupplyOK
  <2> QED
    BY <1>1, <2>1, BlockBalances
<1>6. IsFiniteSet(U) /\ U \subseteq AllOutputs
  BY <1>1, UnspentFinite, UnspentTyped
<1>7. Sum(Worth, U) = Sum(Subsidies, D)
  BY DEF SupplyOK
<1>8. IsFiniteSet(D) /\ n \notin D /\ n \in Nat \ {0} /\ \A i \in D : i \in Nat \ {0}
  <2>1. IsFiniteSet(1..Len(chain))
    BY <1>1, FS_Interval
  <2> HIDE DEF D
  <2>2. IsFiniteSet(D)
    BY <1>1, <2>1
  <2>3. n \notin D /\ n \in Nat \ {0} /\ \A i \in D : i \in Nat \ {0}
    BY <1>1
  <2> QED
    BY <2>2, <2>3
<1> HIDE DEF n, U, S, C, D
<1>9. \A o \in AllOutputs : Worth[o] \in Int
  BY AmountType
<1>10. /\ Sum(Worth, U \ S) = Sum(Worth, U) - Sum(Worth, S)
       /\ Sum(Worth, U) \in Int /\ Sum(Worth, S) \in Int
  BY <1>2, <1>5, <1>6, <1>9, SumDifference, SumRemoves
<1>11. Sum(Worth, (U \ S) \cup C) = Sum(Worth, U \ S) + Sum(Worth, C)
  <2>1. IsFiniteSet(U \ S) /\ (U \ S) \cap C = {}
    BY <1>4, <1>6, FS_Subset
  <2>2. \A o \in (U \ S) \cup C : Worth[o] \in Int
    BY <1>5, <1>6, <1>9
  <2> QED
    BY <1>5, <2>1, <2>2, SumUnion
<1>12. /\ Sum(Subsidies, D \cup {n}) = Sum(Subsidies, D) + Subsidies[n]
       /\ Subsidies[n] \in Int
  <2>1. Subsidies[n] \in Int /\ \A i \in D : Subsidies[i] \in Int
    BY <1>8, SubsidyType
  <2> QED
    BY <1>8, <2>1, SumAdds
<1>13. Sum(Worth, (U \ S) \cup C) = Sum(Subsidies, D \cup {n})
  <2> DEFINE x == Sum(Worth, U)
             y == Sum(Worth, S)
             z == Subsidies[n]
  <2>1. x \in Int /\ y \in Int /\ z \in Int
    BY <1>10, <1>12
  <2>2. /\ Sum(Worth, (U \ S) \cup C) = (x - y) + (z + y)
        /\ Sum(Subsidies, D \cup {n}) = x + z
    BY <1>5, <1>7, <1>10, <1>11, <1>12
  <2> HIDE DEF x, y, z
  <2> QED
    BY <2>1, <2>2
<1> QED
  BY <1>1, <1>3, <1>13 DEF SupplyOK

(* Memory and disk hold chains whose supply is right.                      *)
SupplyInv == IInv /\ SupplyOK(blocks) /\ SupplyOK(disk.blocks)

LEMMA EmptySupply == SupplyOK(<<>>)
<1>1. DOMAIN <<>> = {}
  OBVIOUS
<1> QED
  BY <1>1, EmptyChain, SumEmpty DEF SupplyOK

LEMMA NextSupply == (OverflowChecks \/ AmountsFit) /\ SupplyInv /\ [Next]_vars => SupplyInv'
<1> SUFFICES ASSUME OverflowChecks \/ AmountsFit, SupplyInv, [Next]_vars PROVE SupplyInv'
  OBVIOUS
<1>1. IInv /\ IInv' /\ SupplyOK(blocks) /\ SupplyOK(disk.blocks)
  BY NextIInv DEF SupplyInv
<1>2. ASSUME NEW b \in Blocks, AddBlock(b) PROVE SupplyInv'
  <2>1. /\ ChainOK(blocks) /\ ChainOK(blocks') /\ DOMAIN utxo_set = Unspent(blocks)
        /\ VerifyTransactions(b, Len(blocks), utxo_set)
        /\ blocks' = Append(blocks, b) /\ disk' = disk
    BY <1>1, <1>2 DEF AddBlock, Acceptable, IInv, UtxoIsUnspent
  <2>2. SupplyOK(blocks')
    BY <1>1, <2>1, BlockKeepsBalance
  <2> QED
    BY <1>1, <2>1, <2>2 DEF SupplyInv
<1>3. ASSUME UNCHANGED <<blocks, disk>> PROVE SupplyInv'
  BY <1>1, <1>3 DEF SupplyInv
<1>4. ASSUME NEW tx \in Txs, AddToMempool(tx) PROVE SupplyInv'
  BY <1>3, <1>4 DEF AddToMempool
<1>5. CASE Rebuild \/ Readjust \/ Tick \/ CleanupMempool \/ UNCHANGED vars
  BY <1>3, <1>5 DEF Rebuild, Readjust, Tick, CleanupMempool, vars
<1>6. CASE Save
  <2>1. blocks' = blocks /\ disk'.blocks = blocks
    BY <1>6 DEF Save
  <2> QED
    BY <1>1, <2>1 DEF SupplyInv
<1>7. CASE CrashWhileSaving
  <2>1. blocks' = blocks /\ disk'.blocks = <<>>
    BY <1>7 DEF CrashWhileSaving, Torn, Absent
  <2> QED
    BY <1>1, <2>1, EmptySupply DEF SupplyInv
<1>8. CASE Restart
  BY <1>1, <1>8 DEF Restart, SupplyInv
<1> QED
  BY <1>2, <1>4, <1>5, <1>6, <1>7, <1>8 DEF Next

(* The coins of a node always add up to the subsidies of its chain: no fee *)
(* is lost or paid twice, and verify_coinbase_transaction lets nothing     *)
(* else be made.  A debug build panics before a sum wraps; in a release    *)
(* build this rests on amounts that do not add up to 2^64.                 *)
THEOREM SupplyCorrect == OverflowChecks \/ AmountsFit => (Spec => []SupplyIsSubsidy)
<1> SUFFICES ASSUME OverflowChecks \/ AmountsFit PROVE Spec => []SupplyIsSubsidy
  OBVIOUS
<1>1. Init => SupplyInv
  BY InitIInv, EmptySupply DEF Init, Absent, SupplyInv
<1>2. SupplyInv /\ [Next]_vars => SupplyInv'
  BY NextSupply
<1>3. SupplyInv => SupplyIsSubsidy
  BY SupplyAsSums DEF SupplyInv, IInv, TypeOK
<1> QED
  BY <1>1, <1>2, <1>3, PTL DEF Spec

-----------------------------------------------------------------------------
(* The Merkle root *)

(* A function on 1..n is a sequence of that length.                        *)
LEMMA IsSequence ==
  ASSUME NEW s, NEW n \in Nat, s = [i \in 1..n |-> s[i]]
  PROVE  s \in Seq(Range(s)) /\ Len(s) = n /\ DOMAIN s = 1..n
<1>1. s \in [1..n -> Range(s)]
  BY DEF Range
<1> QED
  BY <1>1

EntriesDiffer(s) == \A i, j \in DOMAIN s : s[i] = s[j] => i = j

(* A layer of more than one hash is halved, and no two of its pairs start  *)
(* with the same hash.                                                     *)
Halved(n)    == (n + 1) \div 2
PairAt(s, i) == NodeHash(s[2*i - 1], IF 2*i <= Len(s) THEN s[2*i] ELSE s[2*i - 1])

LEMMA LayerHalves ==
  ASSUME NEW S, NEW s \in Seq(S), Len(s) > 1
  PROVE  /\ NextLayer(s) = [i \in 1..Halved(Len(s)) |-> PairAt(s, i)]
         /\ NextLayer(s) \in Seq(Range(NextLayer(s)))
         /\ Len(NextLayer(s)) = Halved(Len(s))
         /\ DOMAIN NextLayer(s) = 1..Halved(Len(s))
         /\ Halved(Len(s)) \in 1..(Len(s) - 1)
<1>1. NextLayer(s) = [i \in 1..Halved(Len(s)) |-> PairAt(s, i)]
  BY DEF NextLayer, Halved, PairAt
<1>2. Halved(Len(s)) \in 1..(Len(s) - 1)
  BY DEF Halved
<1> DEFINE t == NextLayer(s)
           n == Halved(Len(s))
<1>3. n \in Nat /\ t = [i \in 1..n |-> t[i]]
  BY <1>1, <1>2
<1> HIDE DEF t, n
<1>4. t \in Seq(Range(t)) /\ Len(t) = n /\ DOMAIN t = 1..n
  BY <1>3, IsSequence
<1> QED
  BY <1>1, <1>2, <1>4 DEF t, n

LEMMA LayerKeepsDiffering ==
  ASSUME NEW S, NEW s \in Seq(S), Len(s) > 1, EntriesDiffer(s)
  PROVE  EntriesDiffer(NextLayer(s))
<1> SUFFICES ASSUME NEW i \in 1..Halved(Len(s)), NEW j \in 1..Halved(Len(s)),
                    PairAt(s, i) = PairAt(s, j)
             PROVE  i = j
  BY LayerHalves DEF EntriesDiffer
<1>1. 2*i - 1 \in DOMAIN s /\ 2*j - 1 \in DOMAIN s
  BY DEF Halved
<1>2. s[2*i - 1] = s[2*j - 1]
  BY DEF PairAt, NodeHash
<1>3. 2*i - 1 = 2*j - 1
  BY <1>1, <1>2 DEF EntriesDiffer
<1> QED
  BY <1>3

(* Two layers without repetition that hash to the same layer are the same: *)
(* only a node without a neighbour is paired with itself.                  *)
LEMMA LayerInjective ==
  ASSUME NEW S, NEW s \in Seq(S), Len(s) > 1, EntriesDiffer(s),
         NEW T, NEW t \in Seq(T), Len(t) > 1, EntriesDiffer(t),
         NextLayer(s) = NextLayer(t)
  PROVE  s = t
<1> DEFINE h == Halved(Len(s))
<1>1. /\ h = Halved(Len(t)) /\ h \in Nat \ {0}
      /\ \A i \in 1..h : PairAt(s, i) = PairAt(t, i)
  <2>1. /\ Len(NextLayer(s)) = h /\ Len(NextLayer(t)) = Halved(Len(t))
        /\ \A i \in 1..h : NextLayer(s)[i] = PairAt(s, i)
        /\ \A i \in 1..Halved(Len(t)) : NextLayer(t)[i] = PairAt(t, i)
        /\ h \in Nat \ {0}
    BY LayerHalves
  <2> HIDE DEF h
  <2> QED
    BY <2>1
<1>2. /\ Len(s) \in {2*h - 1, 2*h} /\ Len(t) \in {2*h - 1, 2*h}
      /\ Len(s) \in Nat /\ Len(t) \in Nat
  BY <1>1 DEF Halved
<1>3. \A i \in 1..h : /\ s[2*i - 1] = t[2*i - 1]
                      /\ 2*i <= Len(s) /\ 2*i <= Len(t) => s[2*i] = t[2*i]
                      /\ 2*i <= Len(s) /\ ~(2*i <= Len(t)) => s[2*i] = t[2*i - 1]
                      /\ ~(2*i <= Len(s)) /\ 2*i <= Len(t) => s[2*i - 1] = t[2*i]
  BY <1>1 DEF PairAt, NodeHash
<1> HIDE DEF h
<1>4. Len(s) = Len(t)
  <2>1. h \in 1..h
    BY <1>1
  <2>2. CASE Len(s) = 2*h /\ Len(t) = 2*h - 1
    <3>1. s[2*h] = s[2*h - 1]
      BY <1>1, <1>2, <1>3, <2>1, <2>2
    <3>2. 2*h \in DOMAIN s /\ 2*h - 1 \in DOMAIN s /\ 2*h # 2*h - 1
      BY <1>1, <2>2
    <3> QED
      BY <3>1, <3>2 DEF EntriesDiffer
  <2>3. CASE Len(t) = 2*h /\ Len(s) = 2*h - 1
    <3>1. ~(2*h <= Len(s)) /\ 2*h <= Len(t)
      BY <1>1, <2>3
    <3>2. s[2*h - 1] = t[2*h - 1] /\ s[2*h - 1] = t[2*h]
      BY <1>3, <2>1, <3>1
    <3>3. DOMAIN t = 1..Len(t)
      OBVIOUS
    <3>4. 2*h \in DOMAIN t /\ 2*h - 1 \in DOMAIN t /\ 2*h # 2*h - 1
      BY <1>1, <2>3, <3>3
    <3> QED
      BY <3>2, <3>4 DEF EntriesDiffer
  <2> QED
    BY <1>2, <2>2, <2>3
<1>5. ASSUME NEW j \in 1..Len(s) PROVE s[j] = t[j]
  <2>1. \E i \in 1..h : j = 2*i - 1 \/ j = 2*i
    <3>1. (j + 1) \div 2 \in 1..h /\ (j = 2*((j + 1) \div 2) - 1 \/ j = 2*((j + 1) \div 2))
      BY <1>1, <1>2
    <3> QED
      BY <3>1
  <2>2. PICK i \in 1..h : j = 2*i - 1 \/ j = 2*i
    BY <2>1
  <2>3. CASE j = 2*i - 1
    BY <1>3, <2>3
  <2>4. CASE j = 2*i
    BY <1>3, <1>4, <2>4
  <2> QED
    BY <2>2, <2>3, <2>4
<1>6. s = [j \in 1..Len(s) |-> s[j]] /\ t = [j \in 1..Len(t) |-> t[j]]
  OBVIOUS
<1> QED
  BY <1>4, <1>5, <1>6

(* The layers over a list of transactions, the leaves first.               *)
Leaves(txs)         == [i \in 1..Len(txs) |-> LeafHash(txs[i])]
Layers(txs, n, l)   == [m \in 0..n |-> IF m = 0 THEN Leaves(txs) ELSE NextLayer(l[m - 1])]
IsLayers(l, txs, n) == l = Layers(txs, n, l)

LEMMA LayersExist ==
  ASSUME NEW txs, NEW n \in Nat
  PROVE  \E l : IsLayers(l, txs, n)
<1> DEFINE Ns == {m \in Nat : \E l : IsLayers(l, txs, m)}
<1>1. 0 \in Ns
  <2> DEFINE l == [m \in 0..0 |-> Leaves(txs)]
  <2>1. IsLayers(l, txs, 0)
    BY DEF IsLayers, Layers
  <2> QED
    BY <2>1
<1>2. ASSUME NEW m \in Nat, m \in Ns PROVE m + 1 \in Ns
  <2>1. PICK l : IsLayers(l, txs, m)
    BY <1>2
  <2> DEFINE r == Layers(txs, m + 1, l)
  <2>2. \A k \in 0..m : r[k] = l[k]
    <3>1. \A k \in 0..m : l[k] = IF k = 0 THEN Leaves(txs) ELSE NextLayer(l[k - 1])
      BY <2>1 DEF IsLayers, Layers
    <3> QED
      BY <3>1 DEF Layers
  <2>3. IsLayers(r, txs, m + 1)
    <3>1. \A k \in 0..(m + 1) : k # 0 => r[k - 1] = l[k - 1]
      BY <2>2
    <3> QED
      BY <3>1 DEF IsLayers, Layers
  <2> HIDE DEF r
  <2> QED
    BY <2>3
<1> HIDE DEF Ns
<1>3. n \in Ns
  BY <1>1, <1>2, Induction
<1> QED
  BY <1>3 DEF Ns

LEMMA RootOfLayers ==
  ASSUME NEW txs, txs # <<>>, Len(txs) \in Nat
  PROVE  \E l : IsLayers(l, txs, Len(txs)) /\ Calculate(txs) = l[Len(txs)][1]
<1> DEFINE layer == CHOOSE l : IsLayers(l, txs, Len(txs))
<1>1. IsLayers(layer, txs, Len(txs))
  BY LayersExist
<1>2. Calculate(txs) = layer[Len(txs)][1]
  BY DEF Calculate, IsLayers, Layers, Leaves
<1> QED
  BY <1>1, <1>2

(* A layer is a round of its own as long as the one below has a pair.      *)
Proper(l, n) == n = 0 \/ Len(l[n - 1]) > 1

LayerOK(l, n, size) ==
  /\ l[n] \in Seq(Range(l[n])) /\ Len(l[n]) > 0
  /\ EntriesDiffer(l[n])
  /\ Len(l[n]) > 1 => Len(l[n]) <= size - n
  /\ \E k \in 0..n : Proper(l, k) /\ l[k] = l[n]

LEMMA LayersOK ==
  ASSUME NEW S, NEW txs \in Seq(S), txs # <<>>, EntriesDiffer(txs),
         NEW l, IsLayers(l, txs, Len(txs))
  PROVE  /\ \A n \in 0..Len(txs) : LayerOK(l, n, Len(txs))
         /\ l[0] = Leaves(txs)
         /\ \A n \in 1..Len(txs) : l[n] = NextLayer(l[n - 1])
<1> DEFINE N  == Len(txs)
           Ns == {n \in Nat : n <= N => LayerOK(l, n, N)}
<1>0. N \in Nat /\ N > 0
  OBVIOUS
<1>1. /\ l[0] = Leaves(txs)
      /\ \A n \in 1..N : l[n] = NextLayer(l[n - 1])
  <2>1. \A m \in 0..N : l[m] = IF m = 0 THEN Leaves(txs) ELSE NextLayer(l[m - 1])
    BY DEF IsLayers, Layers
  <2> HIDE DEF N
  <2> QED
    BY <1>0, <2>1
<1>2. 0 \in Ns
  <2> DEFINE s == l[0]
  <2>1. s = [i \in 1..N |-> s[i]] /\ \A i \in 1..N : s[i] = LeafHash(txs[i])
    BY <1>1 DEF Leaves
  <2>2. s \in Seq(Range(s)) /\ Len(s) = N /\ DOMAIN s = 1..N
    <3> HIDE DEF s, N
    <3> QED
      BY <1>0, <2>1, IsSequence
  <2>3. EntriesDiffer(s)
    BY <2>1, <2>2 DEF EntriesDiffer, LeafHash
  <2>4. Proper(l, 0) /\ 0 \in 0..0
    BY DEF Proper
  <2> QED
    BY <1>0, <2>2, <2>3, <2>4 DEF LayerOK
<1>3. ASSUME NEW n \in Nat, n \in Ns PROVE n + 1 \in Ns
  <2> SUFFICES ASSUME n + 1 <= N PROVE LayerOK(l, n + 1, N)
    OBVIOUS
  <2> DEFINE s == l[n]
  <2>1. LayerOK(l, n, N) /\ l[n + 1] = NextLayer(s)
    <3>1. n + 1 \in 1..N /\ n <= N /\ (n + 1) - 1 = n
      BY <1>0
    <3> QED
      BY <1>1, <1>3, <3>1
  <2>2. /\ s \in Seq(Range(s)) /\ Len(s) > 0 /\ EntriesDiffer(s)
        /\ Len(s) > 1 => Len(s) <= N - n
        /\ \E k \in 0..n : Proper(l, k) /\ l[k] = s
    BY <2>1 DEF LayerOK
  <2>3. CASE Len(s) > 1
    <3>1. /\ l[n + 1] \in Seq(Range(l[n + 1]))
          /\ Len(l[n + 1]) \in 1..(Len(s) - 1)
          /\ EntriesDiffer(l[n + 1])
      BY <2>1, <2>2, <2>3, LayerHalves, LayerKeepsDiffering
    <3>2. Proper(l, n + 1) /\ n + 1 \in 0..(n + 1)
      BY <2>3 DEF Proper
    <3>3. Len(l[n + 1]) > 0 /\ Len(l[n + 1]) <= N - (n + 1)
      <4> DEFINE x == Len(l[n + 1])
                 y == Len(s)
      <4>1. x \in 1..(y - 1) /\ y \in Nat /\ y <= N - n
        BY <2>2, <2>3, <3>1
      <4> HIDE DEF x, y, N
      <4>2. x > 0 /\ x <= N - (n + 1)
        BY <1>0, <4>1
      <4> QED
        BY <4>2 DEF x
    <3> QED
      BY <3>1, <3>2, <3>3 DEF LayerOK
  <2>4. CASE ~(Len(s) > 1)
    <3>1. l[n + 1] = s /\ Len(s) \in Nat
      BY <2>1, <2>2, <2>4 DEF NextLayer
    <3>2. \E k \in 0..(n + 1) : Proper(l, k) /\ l[k] = l[n + 1]
      BY <2>2, <3>1
    <3> QED
      BY <2>2, <2>4, <3>1, <3>2 DEF LayerOK
  <2> QED
    BY <2>3, <2>4
<1> HIDE DEF Ns
<1>4. Nat \subseteq Ns
  BY <1>2, <1>3, Induction
<1> QED
  BY <1>0, <1>1, <1>4 DEF Ns

(* A layer tells whether it holds leaves or pairs.                         *)
LEMMA LayerShape ==
  ASSUME NEW S, NEW txs \in Seq(S), txs # <<>>, EntriesDiffer(txs),
         NEW l, IsLayers(l, txs, Len(txs)), NEW n \in 0..Len(txs), Proper(l, n)
  PROVE  /\ n = 0 => \E x : l[n][1] = LeafHash(x)
         /\ n # 0 => \E x, y : l[n][1] = NodeHash(x, y)
<1>1. CASE n = 0
  <2>1. l[0] = Leaves(txs) /\ 1 \in 1..Len(txs)
    BY LayersOK
  <2>2. l[0][1] = LeafHash(txs[1])
    BY <2>1 DEF Leaves
  <2> QED
    BY <1>1, <2>2
<1>2. CASE n # 0
  <2> DEFINE s == l[n - 1]
  <2>1. l[n] = NextLayer(s) /\ LayerOK(l, n - 1, Len(txs)) /\ Len(s) > 1
    BY <1>2, LayersOK DEF Proper
  <2>2. s \in Seq(Range(s))
    BY <2>1 DEF LayerOK
  <2>3. l[n] = [i \in 1..Halved(Len(s)) |-> PairAt(s, i)] /\ 1 \in 1..Halved(Len(s))
    <3>1. NextLayer(s) = [i \in 1..Halved(Len(s)) |-> PairAt(s, i)]
      BY <2>1, <2>2, LayerHalves
    <3>2. 1 \in 1..Halved(Len(s))
      <4> HIDE DEF s
      <4>1. Len(s) \in Nat /\ Len(s) > 1
        BY <2>1, <2>2
      <4> QED
        BY <4>1 DEF Halved
    <3> QED
      BY <2>1, <3>1, <3>2
  <2>4. l[n][1] = PairAt(s, 1)
    BY <2>3
  <2> QED
    BY <1>2, <2>4 DEF PairAt
<1> QED
  BY <1>1, <1>2

LEMMA ProperBelow ==
  ASSUME NEW S, NEW txs \in Seq(S), txs # <<>>, EntriesDiffer(txs),
         NEW l, IsLayers(l, txs, Len(txs)), NEW n \in 0..Len(txs), Len(l[n]) > 1
  PROVE  Proper(l, n)
<1> SUFFICES ASSUME n # 0, ~(Len(l[n - 1]) > 1) PROVE FALSE
  BY DEF Proper
<1>1. l[n] = NextLayer(l[n - 1]) /\ LayerOK(l, n - 1, Len(txs))
  BY LayersOK
<1>2. Len(l[n - 1]) \in Nat
  BY <1>1 DEF LayerOK
<1>3. l[n] = l[n - 1]
  BY <1>1, <1>2 DEF NextLayer
<1> QED
  BY <1>3

LEMMA SameLayer ==
  ASSUME NEW S, NEW a \in Seq(S), a # <<>>, EntriesDiffer(a),
         NEW T, NEW c \in Seq(T), c # <<>>, EntriesDiffer(c),
         NEW l, IsLayers(l, a, Len(a)), NEW r, IsLayers(r, c, Len(c)),
         NEW n \in 0..Len(a), Proper(l, n), NEW m \in 0..Len(c), Proper(r, m),
         l[n] = r[m]
  PROVE  a = c
<1> DEFINE Ns == {i \in Nat : i <= Len(a) /\ Proper(l, i) =>
                                \A j \in 0..Len(c) : Proper(r, j) /\ l[i] = r[j] => a = c}
<1>0. Len(a) \in Nat /\ Len(c) \in Nat
  OBVIOUS
<1>1. 0 \in Ns
  <2> SUFFICES ASSUME NEW j \in 0..Len(c), Proper(r, j), l[0] = r[j] PROVE a = c
    OBVIOUS
  <2>1. \E x : l[0][1] = LeafHash(x)
    <3>1. 0 \in 0..Len(a) /\ Proper(l, 0)
      BY <1>0 DEF Proper
    <3> QED
      BY <3>1, LayerShape
  <2>2. j # 0 => \E x, y : r[j][1] = NodeHash(x, y)
    BY LayerShape
  <2>3. j = 0
    BY <2>1, <2>2 DEF LeafHash, NodeHash
  <2>4. Leaves(a) = Leaves(c)
    BY <2>3, LayersOK
  <2>5. Len(a) = Len(c)
    <3>1. DOMAIN Leaves(a) = 1..Len(a) /\ DOMAIN Leaves(c) = 1..Len(c)
      BY DEF Leaves
    <3> QED
      BY <1>0, <2>4, <3>1
  <2>6. \A i \in 1..Len(a) : a[i] = c[i]
    <3>1. \A i \in 1..Len(a) : LeafHash(a[i]) = LeafHash(c[i])
      BY <2>4, <2>5 DEF Leaves
    <3> QED
      BY <3>1 DEF LeafHash
  <2>7. a = [i \in 1..Len(a) |-> a[i]] /\ c = [i \in 1..Len(c) |-> c[i]]
    OBVIOUS
  <2> QED
    BY <2>5, <2>6, <2>7
<1>2. ASSUME NEW i \in Nat, i \in Ns PROVE i + 1 \in Ns
  <2> SUFFICES ASSUME i + 1 <= Len(a), Proper(l, i + 1),
                      NEW j \in 0..Len(c), Proper(r, j), l[i + 1] = r[j]
               PROVE  a = c
    OBVIOUS
  <2>1. i + 1 \in 0..Len(a) /\ i + 1 # 0 /\ i \in 0..Len(a) /\ (i + 1) - 1 = i
        /\ i + 1 \in 1..Len(a)
    BY <1>0
  <2>2. \E x, y : l[i + 1][1] = NodeHash(x, y)
    BY <2>1, LayerShape
  <2>3. j = 0 => \E x : r[j][1] = LeafHash(x)
    BY LayerShape
  <2>4. j # 0
    BY <2>2, <2>3 DEF LeafHash, NodeHash
  <2>5. j - 1 \in 0..Len(c) /\ j \in 1..Len(c)
    BY <1>0, <2>4
  <2>6. Len(l[i]) > 1 /\ Len(r[j - 1]) > 1
    BY <2>1, <2>4 DEF Proper
  <2>7. Proper(l, i) /\ Proper(r, j - 1)
    BY <2>1, <2>5, <2>6, ProperBelow
  <2>8. /\ LayerOK(l, i, Len(a)) /\ l[i + 1] = NextLayer(l[i])
        /\ LayerOK(r, j - 1, Len(c)) /\ r[j] = NextLayer(r[j - 1])
    BY <2>1, <2>5, LayersOK
  <2>9. l[i] = r[j - 1]
    <3> DEFINE s == l[i]
               t == r[j - 1]
    <3>1. /\ s \in Seq(Range(s)) /\ Len(s) > 1 /\ EntriesDiffer(s)
          /\ t \in Seq(Range(t)) /\ Len(t) > 1 /\ EntriesDiffer(t)
      BY <2>6, <2>8 DEF LayerOK
    <3>2. NextLayer(s) = NextLayer(t)
      BY <2>8
    <3> HIDE DEF s, t
    <3>3. s = t
      BY <3>1, <3>2, LayerInjective
    <3> QED
      BY <3>3 DEF s, t
  <2> QED
    BY <1>2, <2>1, <2>5, <2>7, <2>9
<1> HIDE DEF Ns
<1>3. n \in Ns
  BY <1>1, <1>2, Induction
<1> QED
  BY <1>0, <1>3 DEF Ns

(* A Merkle root determines the transactions below it, as long as none is  *)
(* repeated.                                                               *)
LEMMA SameRoot ==
  ASSUME NEW S, NEW a \in Seq(S), a # <<>>, EntriesDiffer(a),
         NEW c \in Seq(S), c # <<>>, EntriesDiffer(c),
         Calculate(a) = Calculate(c)
  PROVE  a = c
<1>0. Len(a) \in Nat \ {0} /\ Len(c) \in Nat \ {0}
  OBVIOUS
<1>1. PICK l : IsLayers(l, a, Len(a)) /\ Calculate(a) = l[Len(a)][1]
  BY <1>0, RootOfLayers
<1>2. PICK r : IsLayers(r, c, Len(c)) /\ Calculate(c) = r[Len(c)][1]
  BY <1>0, RootOfLayers
<1>3. LayerOK(l, Len(a), Len(a)) /\ LayerOK(r, Len(c), Len(c))
  <2>1. Len(a) \in 0..Len(a) /\ Len(c) \in 0..Len(c)
    BY <1>0
  <2> QED
    BY <1>1, <1>2, <2>1, LayersOK
<1> DEFINE s == l[Len(a)]
           t == r[Len(c)]
<1>4. /\ s \in Seq(Range(s)) /\ Len(s) = 1
      /\ t \in Seq(Range(t)) /\ Len(t) = 1
  <2>1. /\ s \in Seq(Range(s)) /\ Len(s) > 0 /\ (Len(s) > 1 => Len(s) <= Len(a) - Len(a))
        /\ t \in Seq(Range(t)) /\ Len(t) > 0 /\ (Len(t) > 1 => Len(t) <= Len(c) - Len(c))
    BY <1>3 DEF LayerOK
  <2> HIDE DEF s, t
  <2> DEFINE u == Len(s)
             v == Len(t)
  <2>2. u \in Nat /\ v \in Nat
    BY <2>1
  <2>3. u > 0 /\ v > 0 /\ ~(u > 1) /\ ~(v > 1)
    BY <1>0, <2>1
  <2> HIDE DEF u, v
  <2>4. u = 1 /\ v = 1
    BY <2>2, <2>3
  <2> QED
    BY <2>1, <2>4 DEF u, v
<1>5. s[1] = t[1]
  BY <1>1, <1>2
<1>6. s = t
  <2> HIDE DEF s, t
  <2>1. s = [i \in 1..1 |-> s[i]] /\ t = [i \in 1..1 |-> t[i]]
    BY <1>4
  <2> QED
    BY <1>5, <2>1
<1>7. PICK n \in 0..Len(a) : Proper(l, n) /\ l[n] = s
  BY <1>3 DEF LayerOK
<1>8. PICK m \in 0..Len(c) : Proper(r, m) /\ r[m] = t
  BY <1>3 DEF LayerOK
<1> HIDE DEF s, t
<1> QED
  BY <1>1, <1>2, <1>6, <1>7, <1>8, SameLayer

-----------------------------------------------------------------------------
(* Bodies *)

(* After the first block, the Merkle root in a header is that of the body. *)
Rooted(chain) ==
  \A i \in DOMAIN chain : i # 1 => chain[i].merkle_root = Calculate(chain[i].transactions)
RootsOK == Rooted(blocks) /\ Rooted(disk.blocks)

LEMMA HashTellsHeader ==
  ASSUME NEW b \in Blocks, NEW c \in Blocks, b.hash = c.hash
  PROVE  /\ b.prev_block_hash = c.prev_block_hash /\ b.timestamp = c.timestamp
         /\ b.target = c.target /\ b.merkle_root = c.merkle_root
         /\ b.transactions = c.transactions => b = c
<1> DEFINE B == [hash : Nat \ {0}, prev_block_hash : Nat, timestamp : Nat, target : Nat,
                 merkle_root : {e.merkle_root : e \in Blocks}, transactions : Seq(AllTxs)]
<1>1. c \in B
  BY BlocksAssumption DEF Timestamp
<1>2. b = [c EXCEPT !.transactions = b.transactions]
  BY BlocksAssumption
<1>3. \A txs : LET e == [c EXCEPT !.transactions = txs]
               IN  /\ e.prev_block_hash = c.prev_block_hash /\ e.timestamp = c.timestamp
                   /\ e.target = c.target /\ e.merkle_root = c.merkle_root
                   /\ txs = c.transactions => e = c
  BY <1>1
<1> HIDE DEF B
<1> QED
  BY <1>2, <1>3

(* No block of a chain repeats a transaction.                              *)
LEMMA ChainBodyDiffers ==
  ASSUME NEW chain, ChainOK(chain), NEW i \in DOMAIN chain
  PROVE  /\ chain[i] \in Blocks
         /\ chain[i].transactions \in Seq(AllTxs) /\ chain[i].transactions # <<>>
         /\ EntriesDiffer(chain[i].transactions)
<1> DEFINE txs == chain[i].transactions
<1>1. chain[i] \in Blocks
  BY DEF ChainOK
<1>2. txs \in Seq(AllTxs) /\ txs # <<>>
  BY <1>1, BlockFacts DEF ChainOK, Headed
<1>3. ASSUME NEW j \in DOMAIN txs, NEW k \in DOMAIN txs, txs[j] = txs[k], j # k
      PROVE  FALSE
  <2>1. <<i, j>> \in Positions(chain) /\ <<i, k>> \in Positions(chain)
    BY DEF Positions
  <2>2. SpentBy(txs[j]) \cap SpentBy(txs[k]) = {}
    <3>1. <<i, j>> # <<i, k>>
      BY <1>3
    <3>2. TxAt(chain, <<i, j>>) = txs[j] /\ TxAt(chain, <<i, k>>) = txs[k]
      BY DEF TxAt
    <3> QED
      BY <2>1, <3>1, <3>2 DEF ChainOK, SpendsOnce
  <2>3. PICK m \in 2..Len(txs) : m = j \/ m = k
    <3>1. DOMAIN txs = 1..Len(txs) /\ Len(txs) \in Nat
      BY <1>2
    <3>2. j \in 2..Len(txs) \/ k \in 2..Len(txs)
      BY <1>3, <3>1
    <3> QED
      BY <3>2
  <2>4. txs[m].inputs # <<>> /\ txs[m] \in AllTxs
    BY <1>1, <1>2, BlockFacts
  <2>5. SpentBy(txs[m]) # {}
    BY <2>4, SpendsSomething
  <2> QED
    BY <1>3, <2>2, <2>3, <2>5
<1> QED
  BY <1>1, <1>2, <1>3 DEF EntriesDiffer

(* add_block compares the roots, and what is saved and loaded is a chain.  *)
LEMMA InitRoots == Init => RootsOK
BY DEF Init, RootsOK, Rooted, Absent

LEMMA NextRoots ==
  ASSUME IInv, RootsOK, [Next]_vars
  PROVE  RootsOK'
<1>1. ASSUME UNCHANGED <<blocks, disk>> PROVE RootsOK'
  BY <1>1 DEF RootsOK
<1>2. ASSUME NEW b \in Blocks, AddBlock(b) PROVE RootsOK'
  <2>1. blocks \in Seq(Blocks) /\ blocks' = Append(blocks, b) /\ disk' = disk
    BY <1>2 DEF AddBlock, IInv, TypeOK
  <2>2. /\ DOMAIN blocks = 1..Len(blocks) /\ DOMAIN blocks' = 1..(Len(blocks) + 1)
        /\ Len(blocks) \in Nat
        /\ \A i \in 1..Len(blocks) : blocks'[i] = blocks[i]
        /\ blocks'[Len(blocks) + 1] = b
    BY <2>1
  <2>3. blocks # <<>> => b.merkle_root = Calculate(b.transactions)
    BY <1>2 DEF AddBlock, Acceptable, LinksTo
  <2>4. blocks = <<>> => Len(blocks) = 0
    OBVIOUS
  <2>5. ASSUME NEW i \in DOMAIN blocks', i # 1
        PROVE  blocks'[i].merkle_root = Calculate(blocks'[i].transactions)
    <3>1. CASE i \in DOMAIN blocks
      BY <2>2, <2>5, <3>1 DEF RootsOK, Rooted
    <3>2. CASE i \notin DOMAIN blocks
      <4>1. i = Len(blocks) + 1 /\ blocks # <<>>
        BY <2>2, <2>4, <2>5, <3>2
      <4> QED
        BY <2>2, <2>3, <4>1
    <3> QED
      BY <3>1, <3>2
  <2> QED
    BY <2>1, <2>5 DEF RootsOK, Rooted
<1>3. CASE Save \/ CrashWhileSaving
  <2>1. UNCHANGED blocks /\ disk'.blocks \in {blocks, <<>>}
    BY <1>3 DEF Save, CrashWhileSaving, Torn, Absent
  <2> QED
    BY <2>1 DEF RootsOK, Rooted
<1>4. CASE Restart
  BY <1>4 DEF Restart, RootsOK
<1>5. CASE UNCHANGED vars
  BY <1>1, <1>5 DEF vars
<1>6. CASE \E tx \in Txs : AddToMempool(tx)
  BY <1>1, <1>6, AddToMempoolDoes
<1>7. CASE Rebuild \/ Readjust \/ CleanupMempool
  BY <1>1, <1>7 DEF Rebuild, Readjust, CleanupMempool
<1>8. CASE Tick
  BY <1>1, <1>8, TickIInv DEF Tick
<1> QED
  BY <1>2, <1>3, <1>4, <1>5, <1>6, <1>7, <1>8 DEF Next

(* What the chain holds after the first block has the Merkle root of its   *)
(* header and repeats no transaction; with one header there is one such.   *)
BodyFits(b) ==
  /\ b \in Blocks /\ b.merkle_root = Calculate(b.transactions)
  /\ b.transactions \in Seq(AllTxs) /\ b.transactions # <<>> /\ EntriesDiffer(b.transactions)

LEMMA HeldBody ==
  ASSUME IInv, RootsOK, NEW b \in Range(blocks), b.prev_block_hash # 0
  PROVE  BodyFits(b)
<1>1. PICK i \in DOMAIN blocks : blocks[i] = b
  BY DEF Range
<1>2. ChainOK(blocks)
  BY DEF IInv
<1>3. i # 1
  BY <1>1, <1>2 DEF ChainOK, Linked
<1>4. b.merkle_root = Calculate(b.transactions)
  BY <1>1, <1>3 DEF RootsOK, Rooted
<1> QED
  BY <1>1, <1>2, <1>4, ChainBodyDiffers DEF BodyFits

LEMMA OneBody ==
  ASSUME NEW b, BodyFits(b), NEW c, BodyFits(c), b.hash = c.hash
  PROVE  b = c
<1>1. Calculate(b.transactions) = Calculate(c.transactions)
  BY HashTellsHeader DEF BodyFits
<1>2. b.transactions = c.transactions
  BY <1>1, SameRoot DEF BodyFits
<1> QED
  BY <1>2, HashTellsHeader DEF BodyFits

(* After the first block the Merkle root in a header binds the body, over  *)
(* all the chains a node ever has, between its saves and restarts: once it *)
(* had a block it never has another with the same header, though a last    *)
(* transaction repeated gives the same root (add_block).                   *)
THEOREM HeaderBindsBody == Spec => HeaderDeterminesBody
<1>1. Spec => [](IInv /\ RootsOK)
  BY InitIInv, NextIInv, InitRoots, NextRoots, PTL DEF Spec
<1>2. ASSUME NEW tw \in Twins
      PROVE  Spec => [](tw[1] \in Range(blocks) => [](tw[2] \notin Range(blocks)))
  <2>1. tw[1] # tw[2] /\ tw[1].hash = tw[2].hash
        /\ tw[1].prev_block_hash # 0 /\ tw[2].prev_block_hash # 0
        /\ tw[1] \in Blocks /\ tw[2] \in Blocks
    BY HashTellsHeader DEF Twins
  <2>2. CASE BodyFits(tw[1])
    <3>1. IInv /\ RootsOK => tw[2] \notin Range(blocks)
      BY <2>1, <2>2, HeldBody, OneBody
    <3> QED
      BY <1>1, <3>1, PTL
  <2>3. CASE ~BodyFits(tw[1])
    <3>1. IInv /\ RootsOK => ~(tw[1] \in Range(blocks))
      BY <2>1, <2>3, HeldBody
    <3> QED
      BY <1>1, <3>1, PTL
  <2> QED
    BY <2>2, <2>3
<1> QED
  BY <1>2 DEF HeaderDeterminesBody
=============================================================================
