------------------------------- MODULE Mining -------------------------------
(***************************************************************************)
(* A node of module Blockchain and one miner attached to it, over the      *)
(* legacy TCP protocol (miner/src/main.rs, node/src/handler.rs) or over    *)
(* gRPC (miner/src/grpc/miner.rs, node/src/grpc/miner_api.rs).             *)
(*                                                                         *)
(* The miner is an asynchronous loop and a thread.  They share the current *)
(* template, the flag 'mining' and a channel of mined blocks; the loop     *)
(* talks to the node in requests and answers.  A template is a block       *)
(* without the fields that mining settles.  A fresh coinbase id is one     *)
(* that is nowhere in use.                                                 *)
(***************************************************************************)
EXTENDS Blockchain

CONSTANTS
  Protocols,  \* which pairs of programs: TRUE for TCP, FALSE for gRPC
  Rivals,     \* the blocks that other miners may find
  BLOCK_TRANSACTION_CAP,
  MaxMined,   \* bound on the mined blocks waiting in the channel
  MaxSaved,   \* bound on the length of the chains that are saved
  None        \* no template, no answer

VARIABLES
  tcp,                \* TRUE: the TCP pair of programs, FALSE: the gRPC pair
  loop,               \* "select" or the call the loop awaits; "gone": exited
  current_template,
  mining,             \* the flag
  thread,             \* [at, template]: where the mining thread is
  mined,              \* mined blocks the loop has not received yet
  wire,               \* requests the node has not handled yet, in order
  reply,              \* the answer on its way to the loop
  link                \* FALSE: the TCP connection is closed

minerVars  == <<tcp, loop, current_template, mining, thread, mined>>
callVars   == <<wire, reply, link>>
miningVars == <<vars, minerVars, callVars>>

AsTemplate(b) == [prev_block_hash |-> b.prev_block_hash, target |-> b.target,
                  transactions |-> b.transactions]
OwnBlocks == {b \in Blocks \ Rivals : b.transactions # <<>>}
Templates == {AsTemplate(b) : b \in OwnBlocks}
Replies   == [answer : {"template"}, value : Templates]
               \cup [answer : {"validity", "added"}, value : BOOLEAN]
Ask(what)         == [ask |-> what]
AskValid(u)       == [ask |-> "validate", template |-> u]
AskSubmit(b)      == [ask |-> "submit", block |-> b]
Answer(what, val) == [answer |-> what, value |-> val]

(* The node computes the Merkle root of a template last (handler.rs:336),  *)
(* and mining does not touch the transactions.                             *)
ASSUME MiningAssumption ==
  /\ Protocols \subseteq BOOLEAN
  /\ \A b \in OwnBlocks : b.merkle_root = Calculate(b.transactions)
  /\ Rivals \subseteq Blocks
  /\ BLOCK_TRANSACTION_CAP \in Nat /\ MaxMined \in Nat \ {0} /\ MaxSaved \in Nat
  /\ None \notin Templates \cup Replies

Tip       == IF blocks = <<>> THEN 0 ELSE Last(blocks).hash
Submits   == {i \in DOMAIN wire : wire[i].ask = "submit"}
InFlight  == Range(mined) \cup {wire[i].block : i \in Submits}   \* not yet handled

-----------------------------------------------------------------------------
(* Templates *)

Offered == [i \in 1..Min({Len(mempool), BLOCK_TRANSACTION_CAP}) |-> mempool[i].tx]

CalculateBlockReward == INITIAL_REWARD \div RewardDivisor(Len(blocks))
RewardPanics         == RewardDivisor(Len(blocks)) >= U64
PaysTo(o)            == [inputs |-> <<>>, outputs |-> <<o>>]
TemplateFees == MinerFees([transactions |-> <<PaysTo([amount |-> 0])>> \o Offered], utxo_set)
CoinbaseDue  == CalculateBlockReward + TemplateFees

(* Mutant of Payable: an input that is gone is passed over.                *)
PayableAnyway(height) ==
  /\ ~RewardPanics /\ ~Panics(CoinbaseDue)
  /\ CoinbaseOK(PaysTo([amount |-> Wrap(CoinbaseDue)]), height, TemplateFees)

(* The fees can be computed, no input is gone, and the coinbase is right   *)
(* for a block at this height.                                             *)
Payable(height) ==
  /\ \A tx \in Range(Offered) : SpentBy(tx) \subseteq DOMAIN utxo_set
  /\ ~RewardPanics /\ ~Panics(CoinbaseDue)
  /\ CoinbaseOK(PaysTo([amount |-> Wrap(CoinbaseDue)]), height, TemplateFees)

(* Uuid::new_v4: no template or block that is around has this coinbase.    *)
Fresh(coinbase) ==
  /\ \A b \in Range(blocks) \cup InFlight : coinbase # Head(b.transactions)
  /\ \A u \in {current_template, thread.template} \ {None} :
       coinbase # Head(u.transactions)

(* The templates the node may hand out; they differ in their coinbase's id.*)
Drafts ==
  {u \in Templates :
     /\ u.prev_block_hash = Tip /\ u.target = target
     /\ Tail(u.transactions) = Offered
     /\ LET coinbase == Head(u.transactions)
        IN  /\ coinbase.inputs = <<>> /\ Len(coinbase.outputs) = 1
            /\ coinbase.outputs[1].amount = Wrap(CoinbaseDue)
            /\ Fresh(coinbase)}

(* Mutant of Valid: everything that is asked about is valid.               *)
AlwaysValid(u) == TRUE

(* Does the template point to the last block, are all its transactions in  *)
(* the mempool?  All: the coinbase is one of them, and never is.           *)
Valid(u) ==
  /\ blocks # <<>> /\ Tip = u.prev_block_hash
  /\ Range(u.transactions) \subseteq MempoolTxs

-----------------------------------------------------------------------------
(* The node *)

Handles(what) == wire # <<>> /\ Head(wire).ask = what
Answers(what, val) ==
  wire' = Tail(wire) /\ reply' = Answer(what, val) /\ UNCHANGED link

(* A TCP handler that returns early closes the connection; a gRPC one      *)
(* answers with an error status.                                           *)
Refuses == wire' = <<>> /\ reply' = None /\ link' = ~tcp

(* Handlers for FetchTemplate.  The TCP one checks the coinbase as if the  *)
(* block were one higher than it is.                                       *)
OffersAt(height) ==
  /\ Handles("fetch")
  /\ IF Payable(height)
     THEN Drafts # {} /\ Answers("template", CHOOSE u \in Drafts : TRUE)
     ELSE Refuses
  /\ UNCHANGED <<vars, minerVars>>
TcpFetchTemplate       == tcp /\ OffersAt(Len(blocks) + 1)
GrpcFetchTemplateAhead == ~tcp /\ OffersAt(Len(blocks) + 1)   \* mutant of the next
GrpcFetchTemplate      == ~tcp /\ OffersAt(Len(blocks))

ValidateTemplate ==
  /\ Handles("validate")
  /\ Answers("validity", Valid(Head(wire).template))
  /\ UNCHANGED <<vars, minerVars>>

(* A mined block is added, or refused; add_block may panic half way.       *)
Adds(b) == AddBlock(b) /\ ~RetargetPanics(blocks', target)
TcpSubmitTemplate ==
  /\ tcp /\ Handles("submit")
  /\ LET b == Head(wire).block
     IN  \/ Adds(b) /\ wire' = Tail(wire) /\ UNCHANGED <<reply, link>>
         \/ AddBlock(b) /\ ~Adds(b) /\ Refuses
         \/ ~Acceptable(b) /\ Refuses /\ UNCHANGED vars
  /\ UNCHANGED minerVars
GrpcSubmitTemplate ==
  /\ ~tcp /\ Handles("submit")
  /\ LET b == Head(wire).block
     IN  \/ Adds(b) /\ Answers("added", TRUE)
         \/ AddBlock(b) /\ ~Adds(b) /\ Refuses
         \/ ~Acceptable(b) /\ Refuses /\ UNCHANGED vars
  /\ UNCHANGED minerVars

(* What else happens to the node's state: peers, wallets and its tasks.    *)
NodeStep ==
  /\ \/ \E b \in Rivals : AddBlock(b)
     \/ \E tx \in Txs : AddToMempool(tx)
     \/ Rebuild \/ Readjust \/ Tick \/ CleanupMempool
  /\ UNCHANGED <<minerVars, callVars>>
(* (An empty chain that is saved is the same as no file.)                  *)
NodeSave == Len(blocks) \in 1..MaxSaved /\ Save /\ UNCHANGED <<minerVars, callVars>>

(* The node's process ends and starts again: requests are lost, an answer  *)
(* may be.  (That it cannot start again is left to module Blockchain.)     *)
NodeFault ==
  /\ Restart
  /\ wire' = <<>>
  /\ reply' \in {reply, None}
  /\ link' = (link /\ ~tcp)
  /\ UNCHANGED minerVars

-----------------------------------------------------------------------------
(* The loop of the miner: every five seconds it fetches or validates, and  *)
(* in between it submits what has been mined.                              *)

Calls(request, at) == wire' = Append(wire, request) /\ loop' = at

FetchTick ==
  /\ loop = "select" /\ ~mining
  /\ IF link THEN Calls(Ask("fetch"), "fetching") ELSE loop' = "gone" /\ UNCHANGED wire
  /\ UNCHANGED <<tcp, vars, current_template, mining, thread, mined, reply, link>>

ValidateTick ==
  /\ loop = "select" /\ mining /\ current_template # None
  /\ IF link THEN Calls(AskValid(current_template), "validating")
     ELSE loop' = "gone" /\ UNCHANGED wire
  /\ UNCHANGED <<tcp, vars, current_template, mining, thread, mined, reply, link>>

(* The TCP miner does not wait for an answer; what it writes to a closed   *)
(* connection is lost, or the error ends it.                               *)
TcpSubmit ==
  /\ tcp /\ loop = "select" /\ mined # <<>>
  /\ mined' = Tail(mined)
  /\ \/ link /\ Calls(AskSubmit(Head(mined)), loop) /\ mining' = FALSE
     \/ ~link /\ loop' = loop /\ mining' = FALSE /\ UNCHANGED wire
     \/ ~link /\ loop' = "gone" /\ UNCHANGED <<mining, wire>>
  /\ UNCHANGED <<tcp, vars, current_template, thread, reply, link>>

GrpcSubmit ==
  /\ ~tcp /\ loop = "select" /\ mined # <<>>
  /\ mined' = Tail(mined)
  /\ Calls(AskSubmit(Head(mined)), "submitting")
  /\ UNCHANGED <<tcp, vars, current_template, mining, thread, reply, link>>

Gets(what) == reply # None /\ reply.answer = what /\ reply' = None /\ loop' = "select"

(* Mutant of TakeTemplate: the flag is set, the template is not.           *)
TakeNothing ==
  /\ Gets("template")
  /\ mining' = TRUE
  /\ UNCHANGED <<tcp, vars, current_template, thread, mined, wire, link>>

TakeTemplate ==
  /\ Gets("template")
  /\ current_template' = reply.value
  /\ mining' = TRUE
  /\ UNCHANGED <<tcp, vars, thread, mined, wire, link>>

TakeValidity ==
  /\ Gets("validity")
  /\ mining' = (mining /\ reply.value)
  /\ UNCHANGED <<tcp, vars, current_template, thread, mined, wire, link>>

TakeAdded ==
  /\ Gets("added")
  /\ mining' = FALSE
  /\ UNCHANGED <<tcp, vars, current_template, thread, mined, wire, link>>

(* No answer will come.  It ends the TCP miner, the gRPC miner logs it.    *)
CallFails ==
  /\ loop \in {"fetching", "validating", "submitting"}
  /\ reply = None /\ wire = <<>>
  /\ loop' = IF tcp THEN "gone" ELSE "select"
  /\ UNCHANGED <<tcp, vars, current_template, mining, thread, mined, callVars>>

(* 'restart: on-failure': a new process, a new connection.                 *)
MinerRestart ==
  /\ loop = "gone"
  /\ loop' = "select" /\ current_template' = None /\ mining' = FALSE
  /\ thread' = [at |-> "idle", template |-> None] /\ mined' = <<>>
  /\ wire' = <<>> /\ reply' = None /\ link' = TRUE
  /\ UNCHANGED <<tcp, vars>>

-----------------------------------------------------------------------------
(* The mining thread.  It looks at the flag, then takes the template that  *)
(* is current by then, and tries two million nonces at a time.             *)

At(place) ==
  /\ loop # "gone" /\ thread.at = place
  /\ UNCHANGED <<tcp, vars, callVars, loop, current_template>>
Idle == [at |-> "idle", template |-> None]

Look ==
  /\ At("idle") /\ mining
  /\ thread' = [thread EXCEPT !.at = "looking"]
  /\ UNCHANGED <<mining, mined>>

Clone ==
  /\ At("looking") /\ current_template # None
  /\ thread' = [at |-> "hashing", template |-> current_template]
  /\ UNCHANGED <<mining, mined>>

Found ==
  /\ At("hashing") /\ Len(mined) < MaxMined
  /\ \E b \in OwnBlocks :
       /\ AsTemplate(b) = thread.template /\ b.hash <= b.target
       /\ mined' = Append(mined, b)
  /\ thread' = [thread EXCEPT !.at = "sent"]
  /\ UNCHANGED mining

NotFound ==
  /\ At("hashing")
  /\ thread' = Idle
  /\ UNCHANGED <<mining, mined>>

(* Mutant of Clear: the flag stays.                                        *)
ClearNothing ==
  /\ At("sent")
  /\ thread' = Idle
  /\ UNCHANGED <<mining, mined>>

Clear ==
  /\ At("sent")
  /\ thread' = Idle /\ mining' = FALSE
  /\ UNCHANGED mined

-----------------------------------------------------------------------------
MiningInit ==
  /\ Init
  /\ tcp \in Protocols
  /\ loop = "select" /\ current_template = None /\ mining = FALSE
  /\ thread = [at |-> "idle", template |-> None] /\ mined = <<>>
  /\ wire = <<>> /\ reply = None /\ link = TRUE

Handlers == \/ TcpFetchTemplate \/ GrpcFetchTemplate \/ ValidateTemplate
            \/ TcpSubmitTemplate \/ GrpcSubmitTemplate
Loop     == \/ FetchTick \/ ValidateTick \/ TcpSubmit \/ GrpcSubmit
            \/ TakeTemplate \/ TakeValidity \/ TakeAdded
            \/ CallFails \/ MinerRestart
Thread   == Look \/ Clone \/ Found \/ NotFound \/ Clear

MiningNext == Handlers \/ Loop \/ Thread \/ NodeStep \/ NodeSave \/ NodeFault
MiningSpec == MiningInit /\ [][MiningNext]_miningVars

(* No process goes down, so the file plays no part.  The runtime goes on   *)
(* polling the loop and the handlers, and select! is fair to its branches. *)
(* The thread looks at the flag all the time and the flag stays up for     *)
(* seconds, so it is seen.  Whether a search ever finds a nonce is left    *)
(* open (FindsNonce).                                                      *)
Steady     == Handlers \/ Loop \/ Thread \/ NodeStep
MiningFair ==
  /\ WF_miningVars(Handlers)
  /\ WF_miningVars(FetchTick) /\ WF_miningVars(ValidateTick)
  /\ WF_miningVars(TakeTemplate \/ TakeValidity \/ TakeAdded)
  /\ WF_miningVars(CallFails) /\ WF_miningVars(MinerRestart)
  /\ SF_miningVars(TcpSubmit \/ GrpcSubmit)
  /\ SF_miningVars(Look) /\ WF_miningVars(Clone) /\ WF_miningVars(Clear)
  /\ WF_miningVars(NotFound \/ Found)
SteadySpec == MiningInit /\ [][Steady]_miningVars /\ MiningFair

-----------------------------------------------------------------------------
(* Properties *)

(* Every variable has its type; there is a template whenever the flag is   *)
(* set.                                                                    *)
MiningTypeOK ==
  /\ tcp \in Protocols
  /\ loop \in {"select", "fetching", "validating", "submitting", "gone"}
  /\ current_template \in Templates \cup {None}
  /\ mining \in BOOLEAN /\ (mining => current_template # None)
  /\ thread.at \in {"idle", "looking", "hashing", "sent"}
  /\ thread.template \in Templates \cup {None}
  /\ reply \in Replies \cup {None} /\ InFlight \subseteq OwnBlocks
  /\ link \in BOOLEAN /\ (link \/ wire = <<>>)

(* The node takes what it asked for: a block mined from its template is    *)
(* accepted as long as no other block was, unless two of its transactions  *)
(* are in conflict or one is not signed by the owner.                      *)
Compatible(b) ==
  \A s, r \in InputSlots(b) :
    /\ InputAt(b, s).signature = InputAt(b, s).prev_tx_output_hash.pubkey
    /\ InputAt(b, s).prev_tx_output_hash = InputAt(b, r).prev_tx_output_hash => s = r
TakesItsTemplates ==
  \A b \in InFlight : b.prev_block_hash = Tip /\ Compatible(b) => Acceptable(b)

(* The thread, which reads the flag and the template separately, never     *)
(* mines one template twice: no block is on its way twice, or after it was *)
(* added.                                                                  *)
NothingSubmittedTwice ==
  /\ IsInjective(mined) /\ \A i, j \in Submits : wire[i].block = wire[j].block => i = j
  /\ \A i \in Submits : wire[i].block \notin Range(mined)
  /\ InFlight \cap Range(blocks) = {}

(* Nobody goes on mining upon a block that is not the last any more, also  *)
(* when no nonce is ever found for it.                                     *)
Stale        == mining /\ loop # "gone" /\ current_template.prev_block_hash # Tip
StaleDropped == Stale ~> ~Stale

(* Miners alone carry the chain over the first halving, if a search that   *)
(* is begun again and again finds a nonce some day.                        *)
FindsNonce     == SF_miningVars(Found)
HalvingReached == FindsNonce => <>(Len(blocks) > HALVING_INTERVAL)
=============================================================================
