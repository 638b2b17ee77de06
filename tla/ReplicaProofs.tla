--------------------------- MODULE ReplicaProofs ----------------------------
(***************************************************************************)
(* Lemmas about the chains of a network: where nodes only add blocks that  *)
(* clients have submitted and that extend their chains, or go back to a    *)
(* saved chain, only miners fork.                                          *)
(***************************************************************************)
EXTENDS Replica, Sums

(* The blocks there are to be had.                                         *)
Mined == Blocks \cap found

(* Each block has been submitted, and follows the one before it.           *)
Linked(c) ==
  \A n \in Node : \A i \in 1..Len(c[n]) :
    Prev[c[n][i]] = IF i = 1 THEN None ELSE c[n][i - 1]
Replicated == chain \in [Node -> Seq(Mined)] /\ Linked(chain)

LEMMA MinedSeqs ==
  ASSUME found \subseteq found'
  PROVE  Mined \subseteq Mined' /\ Seq(Mined) \subseteq Seq(Mined')
<1>1. Mined \subseteq Mined'
  BY DEF Mined
<1> QED
  BY <1>1

(* Two chains that differ somewhere differ first where the blocks before   *)
(* are the same, so that the blocks there have one predecessor.            *)
LEMMA ForksAreMined == Replicated => OnlyMinersFork
<1> SUFFICES ASSUME Replicated, NEW n \in Node, NEW p \in Node, NEW i \in DOMAIN chain[n],
                    Parts(n, p, i)
             PROVE  \E j \in 1..i :
                      /\ Parts(n, p, j) /\ Prev[chain[n][j]] = Prev[chain[p][j]]
                      /\ {chain[n][j], chain[p][j]} \subseteq found
  BY DEF OnlyMinersFork
<1>1. /\ chain[n] \in Seq(Mined) /\ chain[p] \in Seq(Mined)
      /\ DOMAIN chain[n] = 1..Len(chain[n]) /\ DOMAIN chain[p] = 1..Len(chain[p])
      /\ Len(chain[n]) \in Nat /\ Len(chain[p]) \in Nat
  BY DEF Replicated
<1> DEFINE Differ == {j \in Nat : Parts(n, p, j)}
<1>2. i \in Differ /\ Differ \in SUBSET Nat
  BY <1>1 DEF Parts
<1>3. PICK j \in Differ : \A k \in Differ : j <= k
  BY <1>2, Least
<1>4. j \in 1..i /\ Parts(n, p, j) /\ j \in 1..Len(chain[n]) /\ j \in 1..Len(chain[p])
  BY <1>1, <1>2, <1>3 DEF Parts
<1>5. j # 1 => chain[n][j - 1] = chain[p][j - 1]
  <2> SUFFICES ASSUME j # 1 PROVE chain[n][j - 1] = chain[p][j - 1]
    OBVIOUS
  <2>1. j - 1 \in 1..Len(chain[n]) /\ j - 1 \in 1..Len(chain[p]) /\ j - 1 \in Nat /\ ~(j <= j - 1)
    BY <1>1, <1>4
  <2>2. j - 1 \notin Differ
    BY <1>3, <2>1
  <2> QED
    BY <1>1, <2>1, <2>2 DEF Parts
<1>6. Prev[chain[n][j]] = Prev[chain[p][j]]
  BY <1>4, <1>5 DEF Replicated, Linked
<1>7. chain[n][j] \in Mined /\ chain[p][j] \in Mined
  BY <1>1, <1>4
<1> QED
  BY <1>4, <1>6, <1>7 DEF Mined

(* What clients submit leaves the chains as they are.                      *)
LEMMA FoundReplicated ==
  ASSUME Replicated, found \subseteq found', UNCHANGED chain
  PROVE  Replicated'
BY MinedSeqs DEF Replicated

(* A node adds a block that extends its chain (add_block).                 *)
LEMMA AddsReplicated ==
  ASSUME Replicated, found \subseteq found', NEW n \in Node, NEW b \in Mined',
         Extends(n, b), Adds(n, b)
  PROVE  Replicated'
<1> DEFINE old == chain[n]
           new == Append(chain[n], b)
<1>1. old \in Seq(Mined') /\ Len(old) \in Nat /\ chain \in [Node -> Seq(Mined')]
  BY MinedSeqs DEF Replicated
<1>2. /\ new \in Seq(Mined') /\ Len(new) = Len(old) + 1 /\ new[Len(old) + 1] = b
      /\ \A i \in 1..Len(old) : new[i] = old[i]
  BY <1>1
<1>3. /\ chain' \in [Node -> Seq(Mined')] /\ chain'[n] = new
      /\ \A p \in Node \ {n} : chain'[p] = chain[p]
  BY <1>1, <1>2 DEF Adds
<1>4. Prev[b] = IF Len(old) = 0 THEN None ELSE old[Len(old)]
  <2>1. old = <<>> <=> Len(old) = 0
    BY <1>1
  <2> QED
    BY <2>1 DEF Extends, Last
<1>5. Linked(chain')
  <2> SUFFICES ASSUME NEW p \in Node, NEW i \in 1..Len(chain'[p])
               PROVE  Prev[chain'[p][i]] = IF i = 1 THEN None ELSE chain'[p][i - 1]
    BY DEF Linked
  <2>1. CASE p # n
    BY <2>1, <1>3 DEF Replicated, Linked
  <2>2. CASE p = n /\ i <= Len(old)
    <3>1. i \in 1..Len(old) /\ (i # 1 => i - 1 \in 1..Len(old))
      BY <2>2, <1>1, <1>2, <1>3
    <3>2. Prev[old[i]] = IF i = 1 THEN None ELSE old[i - 1]
      BY <3>1 DEF Replicated, Linked
    <3> QED
      BY <3>1, <3>2, <2>2, <1>2, <1>3
  <2>3. CASE p = n /\ i = Len(old) + 1
    BY <2>3, <1>1, <1>2, <1>3, <1>4
  <2> QED
    BY <2>1, <2>2, <2>3, <1>1, <1>2, <1>3
<1> QED
  BY <1>3, <1>5 DEF Replicated

(* A node goes back to what it has saved.                                  *)
LEMMA LeavesSavedReplicated ==
  ASSUME Replicated, UNCHANGED found, NEW n \in Node, LeavesSaved(n)
  PROVE  Replicated'
<1>1. PICK k \in 0..Len(chain[n]) : chain' = [chain EXCEPT ![n] = SubSeq(@, 1, k)]
  BY DEF LeavesSaved
<1> DEFINE new == SubSeq(chain[n], 1, k)
<1>2. chain[n] \in Seq(Mined) /\ Len(chain[n]) \in Nat /\ Mined' = Mined
  BY DEF Replicated, Mined
<1>3. new \in Seq(Mined) /\ Len(new) = k /\ \A i \in 1..k : new[i] = chain[n][i]
  BY <1>2
<1>4. /\ chain' \in [Node -> Seq(Mined)] /\ chain'[n] = new
      /\ \A p \in Node \ {n} : chain'[p] = chain[p]
  BY <1>1, <1>3 DEF Replicated
<1>5. \A p \in Node : \A i \in 1..Len(chain'[p]) :
        i \in 1..Len(chain[p]) /\ chain'[p][i] = chain[p][i]
  BY <1>2, <1>3, <1>4
<1>6. Linked(chain')
  <2> SUFFICES ASSUME NEW p \in Node, NEW i \in 1..Len(chain'[p])
               PROVE  Prev[chain'[p][i]] = IF i = 1 THEN None ELSE chain'[p][i - 1]
    BY DEF Linked
  <2>1. Len(chain'[p]) \in Nat
    BY <1>4
  <2>2. i # 1 => i - 1 \in 1..Len(chain'[p])
    BY <2>1
  <2>3. chain'[p][i] = chain[p][i] /\ (i # 1 => chain'[p][i - 1] = chain[p][i - 1])
    BY <1>5, <2>2
  <2> QED
    BY <1>5, <2>3 DEF Replicated, Linked
<1> QED
  BY <1>2, <1>4, <1>6 DEF Replicated
=============================================================================
