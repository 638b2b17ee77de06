------------------------------- MODULE Ledger -------------------------------
(***************************************************************************)
(* What a toy-btc node promises about money, without saying how.           *)
(*                                                                         *)
(* A ledger is a log of blocks, a block a sequence of transactions, a      *)
(* transaction the set of outputs it spends and the set of outputs it      *)
(* creates.  A coin is an output that was created and has not been spent.  *)
(* Blocks are appended at the end; a restart may only forget a suffix of   *)
(* the log.  Module Blockchain implements this specification.              *)
(***************************************************************************)
EXTENDS Naturals, Sequences

VARIABLES log,    \* Seq(Seq([spends : SUBSET Output, creates : SUBSET Output]))
          coins   \* the outputs that can be spent now

vars == <<log, coins>>

SpentBy(block)   == UNION {block[k].spends  : k \in DOMAIN block}
CreatedBy(block) == UNION {block[k].creates : k \in DOMAIN block}
Created(l)       == UNION {CreatedBy(l[i]) : i \in DOMAIN l}

(* A block may spend only coins, each of them once, and it creates only    *)
(* outputs that never existed before, each of them once.                   *)
MayExtend(block) ==
  /\ SpentBy(block) \subseteq coins
  /\ CreatedBy(block) \cap Created(log) = {}
  /\ \A j, k \in DOMAIN block :
       j # k => /\ block[j].spends \cap block[k].spends = {}
                /\ block[j].creates \cap block[k].creates = {}

Init == log = <<>> /\ coins = {}

(* Written as a predicate on log' so that no set of all blocks is needed.  *)
Extend ==
  /\ Len(log') = Len(log) + 1
  /\ \A i \in 1..Len(log) : log'[i] = log[i]
  /\ LET block == log'[Len(log) + 1]
     IN  /\ MayExtend(block)
         /\ coins' = (coins \ SpentBy(block)) \cup CreatedBy(block)

(* What is left after the suffix is forgotten is the log as it was then:   *)
(* a coin is an output created in it and spent by no later block of it.    *)
Forget ==
  /\ Len(log') <= Len(log)
  /\ \A i \in 1..Len(log') : log'[i] = log[i]
  /\ coins' = {o \in Created(log') :
                 \A i \in 1..Len(log') : o \notin SpentBy(log'[i])}

Next == Extend \/ Forget

Spec == Init /\ [][Next]_vars
=============================================================================
