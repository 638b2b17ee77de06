------------------------------ MODULE Replica -------------------------------
(***************************************************************************)
(* What a network of nodes replicates, common to the gRPC nodes of module  *)
(* Gossip and the TCP nodes of module TcpPeers.  A chain is a sequence of  *)
(* blocks of which only the predecessor and the transactions matter        *)
(* (module Blockchain has the rest); a transaction spends one coin, the    *)
(* coinbase of a block.                                                    *)
(***************************************************************************)
EXTENDS Integers, FiniteSets, SequencesExt

CONSTANTS
  Node,
  Blocks, Prev, Body,   \* blocks, the predecessor and the transactions of each
  Txs, Coin,  \* transactions, and the block whose coinbase each spends
  None        \* no block, no node, nothing

VARIABLES
  chain,      \* of each node
  pool,       \* its mempool
  found       \* the blocks and transactions clients have submitted

chainVars == <<chain, pool>>

ASSUME ReplicaAssumption ==
  /\ Prev \in [Blocks -> Blocks \cup {None}] /\ Body \in [Blocks -> SUBSET Txs]
  /\ Coin \in [Txs -> Blocks]
  /\ None \notin Node \cup Blocks \cup Txs /\ Blocks \cap Txs = {}

Items == Blocks \cup Txs

Confirmed(n)     == UNION {Body[b] : b \in Range(chain[n])}
Spendable(n, tx) == Coin[tx] \in Range(chain[n]) /\ Coin[tx] \notin {Coin[u] : u \in Confirmed(n)}

(* Mutant of Extends: the predecessor is not compared.                     *)
ExtendsAny(n, b) ==
  b \notin Range(chain[n]) /\ \A tx \in Body[b] : Spendable(n, tx)
Extends(n, b) ==
  /\ Prev[b] = IF chain[n] = <<>> THEN None ELSE Last(chain[n])
  /\ \A tx \in Body[b] : Spendable(n, tx)

(* add_block and add_to_mempool.                                           *)
Adds(n, b) ==
  /\ chain' = [chain EXCEPT ![n] = Append(@, b)]
  /\ pool' = [pool EXCEPT ![n] = @ \ Body[b]]
Queues(n, tx) ==
  pool' = [pool EXCEPT ![n] = @ \cup {tx}] /\ UNCHANGED chain

(* The program ends; what remains of the chain is the last save.           *)
LeavesSaved(n) == \E k \in 0..Len(chain[n]) : chain' = [chain EXCEPT ![n] = SubSeq(@, 1, k)]

-----------------------------------------------------------------------------
(* Properties *)

Parts(n, p, i) ==
  i \in DOMAIN chain[n] \cap DOMAIN chain[p] /\ chain[n][i] # chain[p][i]
Forked == \E n, p \in Node : \E i \in DOMAIN chain[n] : Parts(n, p, i)

(* Two nodes disagree on a block only if miners have: at the first block   *)
(* they disagree on each has one that a client submitted, on the same      *)
(* predecessor.  So the network makes no forks of its own, whatever order  *)
(* the blocks of clients, of peers and of a synchronization come in, and   *)
(* while what is mined is one line nodes differ in the length of their     *)
(* chains only (add_block, fetch_missing_blocks).                          *)
OnlyMinersFork ==
  \A n, p \in Node : \A i \in DOMAIN chain[n] : Parts(n, p, i) =>
    \E j \in 1..i :
      /\ Parts(n, p, j) /\ Prev[chain[n][j]] = Prev[chain[p][j]]
      /\ {chain[n][j], chain[p][j]} \subseteq found
=============================================================================
