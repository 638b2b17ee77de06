------------------------------- MODULE Wallet -------------------------------
(***************************************************************************)
(* A node of module Blockchain and one wallet attached to it                *)
(* (wallet/src/core.rs, tasks.rs, main.rs), over TCP or over gRPC, with its *)
(* terminal interface or as a command line.                                *)
(*                                                                         *)
(* The wallet keeps a copy of the outputs of its keys.  The task 'update'  *)
(* fetches it anew every 20 seconds, one key after the other; payments are *)
(* made from the copy as it is at the moment, and 'pay' sends them.  Both  *)
(* use one connection, behind a mutex.  Amounts are at least one, fees are *)
(* flat.                                                                   *)
(***************************************************************************)
EXTENDS Blockchain

CONSTANTS
  Setups,     \* <<over TCP rather than gRPC, command line rather than interface>>
  MyKeys,     \* the wallet's keys, as its configuration lists them
  KeyOrder,   \* the same keys in the order of the map of outputs
  Amounts, Recipients,   \* what may be paid, and to whom
  FlatFee,
  TxQueue,    \* capacity of the channel between the interface and 'pay'
  MaxSaved,   \* bound on the length of the chains that are saved
  MaxPayments, \* bound on the payments, by cli
  MaxFaults,  \* bound on the restarts of the node
  None        \* no answer

VARIABLES
  tcp, cli,
  utxos,      \* the copy: key -> sequence of [marked, output]
  tx_queue,   \* created transactions that are not sent yet
  pos,        \* where 'update' and 'pay' are
  made,       \* every transaction the wallet has created
  given,      \* those of them that have reached the network
  wire,       \* requests the node has not handled yet, in order
  reply,      \* the answer on its way to the wallet
  link,       \* FALSE: the TCP connection is closed, for good
  faults

coreVars   == <<utxos, tx_queue, made>>
callVars   == <<wire, reply, link>>
walletVars == <<vars, tcp, cli, coreVars, given, pos, callVars, faults>>

(* Nobody but the wallet signs with its keys.                              *)
ASSUME WalletAssumption ==
  /\ Setups \subseteq BOOLEAN \X BOOLEAN
  /\ MyKeys \in Seq(Range(MyKeys)) /\ MyKeys # <<>> /\ IsInjective(MyKeys)
  /\ KeyOrder \in Seq(Range(MyKeys)) /\ Range(KeyOrder) = Range(MyKeys) /\ IsInjective(KeyOrder)
  /\ \A tx \in AllTxs \ Txs : \A i \in DOMAIN tx.inputs :
       tx.inputs[i].signature \notin Range(MyKeys)
  /\ Amounts \subseteq Nat \ {0} /\ Recipients \cap Range(MyKeys) = {}
  /\ {FlatFee, TxQueue, MaxSaved, MaxFaults} \subseteq Nat
  /\ MaxPayments \in [BOOLEAN -> Nat]

Tasks == {"update", "pay"}
Rest  == [step |-> "rest"]
Gone  == [step |-> "gone"]
FetchFrom(i, order) == [step |-> "fetch", key |-> i, order |-> order]
NoOrder   == [amount |-> 0, recipient |-> None]
AskUtxos(k)       == [ask |-> "utxos", key |-> k]
AskSubmit(tx)     == [ask |-> "submit", tx |-> tx]
Answer(what, val) == [answer |-> what, value |-> val]

Exited == pos["pay"] = Gone
Step(t, step) == ~Exited /\ pos[t].step = step
Moves(t, to)  == pos' = [pos EXCEPT ![t] = to]

(* The mutex is held from a request to its answer.  FreeForUpdate is a     *)
(* mutant of Free.                                                         *)
FreeForUpdate == pos["update"].step # "ask"
Free == \A t \in Tasks : pos[t].step \notin {"ask", "wait"}

-----------------------------------------------------------------------------
(* Creating a payment *)

(* Mutant of CalculateFee.                                                 *)
NoFee(amount)        == 0
CalculateFee(amount) == FlatFee

(* What create_transaction passes over, key by key: the places of the      *)
(* unmarked outputs in the copy.                                           *)
Unmarked ==
  {p \in UNION {{i} \X DOMAIN utxos[KeyOrder[i]] : i \in DOMAIN KeyOrder} :
     ~utxos[KeyOrder[p[1]]][p[2]].marked}
OutputAt(p)   == utxos[KeyOrder[p[1]]][p[2]].output
SumAt(places) == MapThenSumSet(LAMBDA p : OutputAt(p).amount, places)

(* It takes an output when those before it do not suffice.                 *)
Taken(total) == {p \in Unmarked : SumAt({q \in Unmarked : Before(q, p)}) < total}

(* Mutant of Signed: everything is signed with the first key.              *)
SignedByFirst(o) == [prev_tx_output_hash |-> o, signature |-> MyKeys[1]]
Signed(o)        == [prev_tx_output_hash |-> o, signature |-> o.pubkey]

Inputs(total) ==
  {[i \in DOMAIN f |-> Signed(OutputAt(f[i]))] :
     f \in {l \in Listings(Taken(total)) : \A i, j \in DOMAIN l : i < j => Before(l[i], l[j])}}

(* The transactions create_transaction may return; they differ in the      *)
(* random ids of their outputs.                                            *)
Payments(order) ==
  LET total  == order.amount + CalculateFee(order.amount)
      change == SumAt(Taken(total)) - total
      lists  == Inputs(total)
  IN  {tx \in Txs \ made :
         /\ tx.inputs \in lists
         /\ Len(tx.outputs) = IF change > 0 THEN 2 ELSE 1
         /\ tx.outputs[1].amount = order.amount
         /\ tx.outputs[1].pubkey = order.recipient
         /\ change > 0 => /\ tx.outputs[2].amount = change
                          /\ tx.outputs[2].pubkey = MyKeys[1]}

Affordable(order) == SumAt(Unmarked) >= order.amount + CalculateFee(order.amount)
Orders == [amount : Amounts, recipient : Recipients]

Creates(order) ==
  /\ Affordable(order)
  /\ Cardinality(made) < MaxPayments[cli]
  /\ Payments(order) # {}
  /\ LET tx == CHOOSE tx \in Payments(order) : TRUE
     IN  tx_queue' = Append(tx_queue, tx) /\ made' = made \cup {tx}
  /\ UNCHANGED utxos

(* send_transaction_async.  The interface says that the payment was sent;  *)
(* when funds do not suffice it says so, and nothing changes.              *)
PayFromUi(order) ==
  /\ ~cli /\ ~Exited /\ Len(tx_queue) < TxQueue
  /\ Creates(order)
  /\ UNCHANGED <<vars, tcp, cli, given, pos, callVars, faults>>

(* The command 'send' fetches first.  Funds that do not suffice end the    *)
(* program.                                                                *)
Command(order) ==
  /\ cli /\ Step("pay", "rest")
  /\ Moves("pay", FetchFrom(1, order))
  /\ UNCHANGED <<vars, tcp, cli, given, coreVars, callVars, faults>>
PayFromCommand ==
  /\ Step("pay", "create")
  /\ IF Affordable(pos["pay"].order)
     THEN Creates(pos["pay"].order) /\ Moves("pay", [step |-> "send"])
     ELSE Moves("pay", Gone) /\ UNCHANGED coreVars
  /\ UNCHANGED <<vars, tcp, cli, given, callVars, faults>>

-----------------------------------------------------------------------------
(* Fetching *)

UpdateTick ==
  /\ Step("update", "rest")
  /\ Moves("update", FetchFrom(1, NoOrder))
  /\ UNCHANGED <<vars, tcp, cli, given, coreVars, callVars, faults>>

(* Where a fetch leads: the command 'send' fetches before it creates the   *)
(* payment, whether that succeeds or not, and after it was sent.           *)
Fetched(t, success) ==
  Moves(t, IF pos[t].order # NoOrder THEN [step |-> "create", order |-> pos[t].order]
           ELSE IF t = "pay" /\ ~success THEN Gone ELSE Rest)

Ask(t) ==
  /\ Step(t, "fetch") /\ Free
  /\ IF link
     THEN /\ wire' = Append(wire, AskUtxos(MyKeys[pos[t].key]))
          /\ Moves(t, [pos[t] EXCEPT !.step = "ask"])
     ELSE Fetched(t, FALSE) /\ UNCHANGED wire
  /\ UNCHANGED <<vars, tcp, cli, given, coreVars, reply, link, faults>>

(* Mutant of Store: the other keys are emptied.                            *)
StoreOnly(key, list) == [k \in DOMAIN utxos |-> IF k = key THEN list ELSE <<>>]
Store(key, list)     == [utxos EXCEPT ![key] = list]

TakeUtxos(t) ==
  /\ Step(t, "ask") /\ reply # None
  /\ utxos' = Store(MyKeys[pos[t].key], reply.value)
  /\ reply' = None
  /\ IF pos[t].key < Len(MyKeys)
     THEN Moves(t, FetchFrom(pos[t].key + 1, pos[t].order))
     ELSE Fetched(t, TRUE)
  /\ UNCHANGED <<vars, tcp, cli, given, tx_queue, made, wire, link, faults>>

NoAnswer == reply = None /\ wire = <<>>
AskFails(t) ==
  /\ Step(t, "ask") /\ NoAnswer
  /\ Fetched(t, FALSE)
  /\ UNCHANGED <<vars, tcp, cli, given, coreVars, callVars, faults>>

-----------------------------------------------------------------------------
(* Sending *)

(* EndsTask is a mutant of SendFailed: an error ends the loop.             *)
EndsTask   == Moves("pay", [step |-> "ended"])
Sent       == Moves("pay", IF cli THEN FetchFrom(1, NoOrder) ELSE Rest)
SendFailed == Moves("pay", IF cli THEN Gone ELSE Rest)

(* Over TCP nobody waits for an answer; what is written to a closed        *)
(* connection is lost, with an error or without.                           *)
SendTransaction ==
  /\ Step("pay", IF cli THEN "send" ELSE "rest") /\ tx_queue # <<>> /\ Free
  /\ tx_queue' = Tail(tx_queue)
  /\ IF link THEN wire' = Append(wire, AskSubmit(Head(tx_queue))) ELSE UNCHANGED wire
  /\ \/ tcp /\ Sent
     \/ ~link /\ SendFailed
     \/ ~tcp /\ Moves("pay", [step |-> "wait"])
  /\ UNCHANGED <<vars, tcp, cli, given, utxos, made, reply, link, faults>>

TakeTaken ==
  /\ Step("pay", "wait") /\ reply # None
  /\ IF reply.value THEN Sent ELSE SendFailed
  /\ reply' = None
  /\ UNCHANGED <<vars, tcp, cli, given, coreVars, wire, link, faults>>

SubmitFails ==
  /\ Step("pay", "wait") /\ NoAnswer
  /\ SendFailed
  /\ UNCHANGED <<vars, tcp, cli, given, coreVars, callVars, faults>>

-----------------------------------------------------------------------------
(* The node *)

Handles(what) == wire # <<>> /\ Head(wire).ask = what /\ wire' = Tail(wire)

(* utxo_set_for_pubkey; the order is that of a hash map.                   *)
FetchUtxos ==
  /\ Handles("utxos")
  /\ \E f \in Listings({o \in DOMAIN utxo_set : o.pubkey = Head(wire).key}) :
       reply' = Answer("utxos", [i \in DOMAIN f |-> [marked |-> utxo_set[f[i]], output |-> f[i]]])
  /\ UNCHANGED <<vars, tcp, cli, given, coreVars, pos, link, faults>>

Rejected(tx) ==
  tx \in MempoolTxs \/ ~(SpentBy(tx) \subseteq DOMAIN utxo_set) \/ ~InputsDiffer(tx)

(* A transaction that is taken is broadcast; over TCP any is.              *)
SubmitTransaction ==
  /\ Handles("submit")
  /\ LET tx == Head(wire).tx
     IN  /\ AddToMempool(tx) \/ (Rejected(tx) /\ UNCHANGED vars)
         /\ LET taken == tx \notin MempoolTxs /\ tx \in MempoolTxs'
            IN  /\ reply' = IF tcp THEN reply ELSE Answer("taken", taken)
                /\ given' = IF tcp \/ taken THEN given \cup {tx} ELSE given
  /\ UNCHANGED <<tcp, cli, coreVars, pos, link, faults>>

(* Blocks come from anywhere; they hold the wallet's payments only when    *)
(* these have reached the network.                                         *)
Minable == {b \in Blocks : Range(b.transactions) \cap Txs \subseteq given}
NodeStep ==
  /\ (\E b \in Minable : AddBlock(b)) \/ Rebuild
  /\ UNCHANGED <<tcp, cli, given, coreVars, pos, callVars, faults>>
NodeSave ==
  /\ Len(blocks) \in 1..MaxSaved /\ Save
  /\ UNCHANGED <<tcp, cli, given, coreVars, pos, callVars, faults>>
NodeFault ==
  /\ faults < MaxFaults /\ faults' = faults + 1
  /\ Restart
  /\ wire' = <<>> /\ reply' \in {reply, None} /\ link' = ~tcp
  /\ UNCHANGED <<tcp, cli, given, coreVars, pos>>

-----------------------------------------------------------------------------
WalletInit ==
  /\ Init
  /\ \E s \in Setups : tcp = s[1] /\ cli = s[2]
  /\ utxos = [k \in Range(MyKeys) |-> <<>>]
  /\ tx_queue = <<>> /\ made = {} /\ given = {}
  /\ pos = [t \in Tasks |-> Rest]
  /\ wire = <<>> /\ reply = None /\ link = TRUE /\ faults = 0

Node     == FetchUtxos \/ SubmitTransaction
Fetch(t) == Ask(t) \/ TakeUtxos(t) \/ AskFails(t)
Send     == SendTransaction \/ TakeTaken \/ SubmitFails

WalletNext ==
  \/ Node \/ NodeStep \/ NodeSave \/ NodeFault
  \/ \E order \in Orders : PayFromUi(order) \/ Command(order)
  \/ PayFromCommand \/ UpdateTick
  \/ \E t \in Tasks : Fetch(t)
  \/ Send

(* The runtime polls what is ready, tokio's mutex is handed out in the     *)
(* order of the requests, and the interval keeps firing.  Nobody has to    *)
(* pay anything.                                                           *)
WalletFair ==
  /\ WF_walletVars(Node) /\ WF_walletVars(UpdateTick)
  /\ WF_walletVars(PayFromCommand)
  /\ \A t \in Tasks : SF_walletVars(Fetch(t))
  /\ SF_walletVars(Send)

WalletSpec == WalletInit /\ [][WalletNext]_walletVars /\ WalletFair

-----------------------------------------------------------------------------
(* Properties *)

Submitted == {wire[i].tx : i \in {j \in DOMAIN wire : wire[j].ask = "submit"}}
Pending   == Range(tx_queue) \cup Submitted

(* Types; at most one task holds the connection, an answer is for the task *)
(* that holds it, and what is on its way the wallet has made.              *)
WalletTypeOK ==
  /\ <<tcp, cli>> \in Setups /\ link \in BOOLEAN /\ faults \in 0..MaxFaults
  /\ utxos \in [Range(MyKeys) -> Seq([marked : BOOLEAN, output : AllOutputs])]
  /\ made \subseteq Txs /\ Pending \subseteq made /\ given \subseteq made
  /\ pos["update"].step \in {"rest", "fetch", "ask"}
  /\ pos["pay"].step \in {"rest", "fetch", "ask", "create", "send", "wait", "gone"}
  /\ ~(pos["update"].step = "ask" /\ pos["pay"].step \in {"ask", "wait"})
  /\ reply # None => \/ reply.answer = "taken" /\ pos["pay"].step = "wait"
                     \/ reply.answer = "utxos" /\ \E t \in Tasks : pos[t].step = "ask"

(* Whatever the copy was when the payment was made, and whatever happened  *)
(* since: as long as nothing it spends is gone, the node and every block   *)
(* can take it (create_transaction).                                       *)
TakenUnlessGone ==
  \A tx \in made :
    SpentBy(tx) \subseteq DOMAIN utxo_set =>
      /\ InputsDiffer(tx) /\ ~Overspends(utxo_set, tx)
      /\ \A i \in DOMAIN tx.inputs :
           tx.inputs[i].signature = tx.inputs[i].prev_tx_output_hash.pubkey

(* The wallet's coins on the chain are what blocks paid to it, less the    *)
(* confirmed payments and exactly one fee for each: no change is lost and  *)
(* no payment made twice (create_transaction).                             *)
Amount(set)  == MapThenSumSet(LAMBDA o : o.amount, set)
MineOf(set)  == {o \in set : o.pubkey \in Range(MyKeys)}
Incomes      == UNION {CreatedBy(tx) : tx \in Confirmed(blocks) \ made}
PaysExactly ==
  Amount(MineOf(DOMAIN utxo_set)) =
    Amount(MineOf(Incomes))
      - MapThenSumSet(LAMBDA tx : tx.outputs[1].amount + FlatFee, made \cap Confirmed(blocks))

(* The copy follows the node: when the chain and the mempool come to rest, *)
(* it holds the wallet's outputs and their flags as the node has them,     *)
(* unless the TCP connection has been lost or the program has ended        *)
(* (fetch_utxos, update_utxos).                                            *)
CopyIsCurrent ==
  \A k \in DOMAIN utxos :
    /\ Range(utxos[k]) = {[marked |-> utxo_set[o], output |-> o]
                           : o \in {u \in DOMAIN utxo_set : u.pubkey = k}}
    /\ IsInjective(utxos[k])
CopyFollows == <>[](CopyIsCurrent \/ ~link \/ Exited)

(* The channel of payments runs empty again and again, the payments sent   *)
(* or given up (handle_transactions).                                      *)
QueueDrains == []<>(tx_queue = <<>> \/ Exited)
=============================================================================
