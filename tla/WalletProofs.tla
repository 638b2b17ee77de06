---------------------------- MODULE WalletProofs ----------------------------
(***************************************************************************)
(* Theorems about Wallet.  Whoever waits for an answer is the only one who *)
(* does: the mutex is free otherwise, and then nothing is on its way that  *)
(* will be answered.  Then: what its payments spend and cost.              *)
(***************************************************************************)
EXTENDS Wallet, BlockchainProofs

-----------------------------------------------------------------------------
(* The parts of the inductive invariant.                                   *)

(* What the wallet has:                                                    *)
Coins == [marked : BOOLEAN, output : AllOutputs]
KeptOK ==
  /\ utxos \in [Range(MyKeys) -> Seq(Coins)]
  /\ made \subseteq Txs /\ given \subseteq made /\ tx_queue \in Seq(made)

(* Where its tasks are; only the command line creates in its task:         *)
AtKey(order) == [step : {"fetch", "ask"}, key : 1..Len(MyKeys), order : order]
PlacesOK ==
  /\ pos = [t \in Tasks |-> pos[t]]
  /\ pos["update"] \in {Rest} \cup AtKey({NoOrder})
  /\ pos["pay"] \in {Rest, Gone} \cup AtKey(Orders \cup {NoOrder})
                     \cup [step : {"create"}, order : Orders]
                     \cup [step : {"send", "wait"}]
  /\ ~(pos["update"].step = "ask" /\ pos["pay"].step \in {"ask", "wait"})

(* The calls. Over gRPC there is one at a time, over TCP at most one that  *)
(* will be answered; whoever made it waits.                                *)
Requests == [ask : {"utxos"}, key : Range(MyKeys)] \cup [ask : {"submit"}, tx : made]
Replies  == [answer : {"utxos"}, value : Seq(Coins)] \cup [answer : {"taken"}, value : BOOLEAN]
Asking   == \E t \in Tasks : pos[t].step = "ask"
CallsOK ==
  /\ <<tcp, cli>> \in Setups /\ faults \in 0..MaxFaults
  /\ link \in BOOLEAN /\ (tcp \/ link)
  /\ wire \in Seq(Requests) /\ reply \in Replies \cup {None}
AnswersOK ==
  /\ reply # None => \/ reply.answer = "taken" /\ pos["pay"].step = "wait"
                     \/ reply.answer = "utxos" /\ Asking
  /\ \A i \in DOMAIN wire :
       /\ wire[i].ask = "utxos" =>
            reply = None /\ Asking /\ \A j \in DOMAIN wire : wire[j].ask = "utxos" => j = i
       /\ wire[i].ask = "submit" /\ ~tcp => reply = None /\ pos["pay"].step = "wait"
  /\ ~tcp => Len(wire) <= 1

WalletInv == IInv /\ KeptOK /\ PlacesOK /\ CallsOK /\ AnswersOK

LEMMA WalletInvTypes == WalletInv => WalletTypeOK
<1> SUFFICES ASSUME WalletInv PROVE WalletTypeOK
  OBVIOUS
<1> USE DEF WalletInv
<1>1. Pending \subseteq made
  <2>1. Range(tx_queue) \subseteq made
    BY DEF KeptOK, Range
  <2>2. \A i \in DOMAIN wire : wire[i].ask = "submit" => wire[i].tx \in made
    BY DEF CallsOK, Requests
  <2> QED
    BY <2>1, <2>2 DEF Pending, Submitted
<1>2. /\ pos["update"].step \in {"rest", "fetch", "ask"}
      /\ pos["pay"].step \in {"rest", "fetch", "ask", "create", "send", "wait", "gone"}
  BY DEF PlacesOK, AtKey, Rest, Gone
<1>3. utxos \in [Range(MyKeys) -> Seq([marked : BOOLEAN, output : AllOutputs])]
  BY DEF KeptOK, Coins
<1> QED
  BY <1>1, <1>2, <1>3 DEF WalletTypeOK, KeptOK, PlacesOK, CallsOK, AnswersOK, Asking

-----------------------------------------------------------------------------
(* The node *)

(* The first request.                                                      *)
LEMMA HeadOfWire ==
  ASSUME CallsOK, wire # <<>>
  PROVE  /\ 1 \in DOMAIN wire /\ Head(wire) = wire[1] /\ Head(wire) \in Requests
         /\ Tail(wire) \in Seq(Requests) /\ Len(Tail(wire)) = Len(wire) - 1
         /\ \A i \in DOMAIN Tail(wire) :
              i + 1 \in DOMAIN wire /\ i + 1 # 1 /\ i \in Int /\ Tail(wire)[i] = wire[i + 1]
BY DEF CallsOK

(* A step of the wallet and its node is a step of the node or none.        *)
LEMMA NodeMoves == WalletInv /\ [WalletNext]_walletVars => [Next]_vars
<1> SUFFICES ASSUME WalletInv, [WalletNext]_walletVars PROVE Next \/ UNCHANGED vars
  OBVIOUS
<1>1. CASE UNCHANGED walletVars
  BY <1>1 DEF walletVars
<1>2. CASE SubmitTransaction
  <2> DEFINE tx == Head(wire).tx
  <2>1. wire # <<>> /\ Head(wire).ask = "submit"
    BY <1>2 DEF SubmitTransaction, Handles
  <2>2. AddToMempool(tx) \/ UNCHANGED vars
    BY <1>2 DEF SubmitTransaction
  <2>3. tx \in Txs
    BY <2>1, HeadOfWire DEF WalletInv, Requests, KeptOK
  <2> QED
    BY <2>2, <2>3 DEF Next
<1>3. CASE NodeStep
  BY <1>3 DEF NodeStep, Minable, Next
<1>4. CASE NodeSave \/ NodeFault
  BY <1>4 DEF NodeSave, NodeFault, Next
<1>5. CASE FetchUtxos
  BY <1>5 DEF FetchUtxos
<1>6. ASSUME NEW order \in Orders, PayFromUi(order) \/ Command(order) PROVE UNCHANGED vars
  BY <1>6 DEF PayFromUi, Command
<1>7. CASE PayFromCommand \/ UpdateTick
  BY <1>7 DEF PayFromCommand, UpdateTick
<1>8. ASSUME NEW t \in Tasks, Fetch(t) PROVE UNCHANGED vars
  BY <1>8 DEF Fetch, Ask, TakeUtxos, AskFails
<1>9. CASE Send
  BY <1>9 DEF Send, SendTransaction, TakeTaken, SubmitFails
<1> QED
  BY <1>1, <1>2, <1>3, <1>4, <1>5, <1>6, <1>7, <1>8, <1>9 DEF WalletNext, Node

-----------------------------------------------------------------------------
(* The node's side of the calls *)

ClientInv == KeptOK /\ PlacesOK /\ CallsOK /\ AnswersOK

LEMMA CoinsListed ==
  ASSUME IInv, NEW K \in SUBSET DOMAIN utxo_set, NEW f \in Listings(K)
  PROVE  [i \in DOMAIN f |-> [marked |-> utxo_set[f[i]], output |-> f[i]]] \in Seq(Coins)
<1>1. K \subseteq AllOutputs /\ \A o \in K : utxo_set[o] \in BOOLEAN
  BY DEF IInv, TypeOK
<1>2. f \in [1..Cardinality(K) -> K]
  BY DEF Listings, Bijection, Surjection
<1>3. Cardinality(K) \in Nat
  BY UnspentFinite, FS_Subset, FS_CardinalityType DEF IInv, UtxoIsUnspent, ChainOK
<1>4. \A i \in 1..Cardinality(K) : [marked |-> utxo_set[f[i]], output |-> f[i]] \in Coins
  BY <1>1, <1>2 DEF Coins
<1> QED
  BY <1>2, <1>3, <1>4

LEMMA FetchUtxosKeeps ==
  ASSUME WalletInv, FetchUtxos
  PROVE  ClientInv'
<1> USE DEF WalletInv
<1>1. /\ wire # <<>> /\ Head(wire).ask = "utxos" /\ wire' = Tail(wire)
      /\ UNCHANGED <<vars, tcp, cli, coreVars, given, pos, link, faults>>
  BY DEF FetchUtxos, Handles
<1>2. PICK f \in Listings({o \in DOMAIN utxo_set : o.pubkey = Head(wire).key}) :
        reply' = Answer("utxos", [i \in DOMAIN f |-> [marked |-> utxo_set[f[i]], output |-> f[i]]])
  BY DEF FetchUtxos
<1>3. reply' \in Replies /\ reply'.answer = "utxos"
  <2>1. [i \in DOMAIN f |-> [marked |-> utxo_set[f[i]], output |-> f[i]]] \in Seq(Coins)
    BY CoinsListed
  <2> QED
    BY <1>2, <2>1 DEF Answer, Replies
<1>4. KeptOK' /\ PlacesOK' /\ made' = made /\ Asking' = Asking
  BY <1>1 DEF KeptOK, PlacesOK, coreVars, Asking
<1>5. CallsOK'
  BY <1>1, <1>3, <1>4, HeadOfWire DEF CallsOK, Requests
<1>6. AnswersOK'
  <2>1. wire[1].ask = "utxos" /\ 1 \in DOMAIN wire
    BY <1>1, HeadOfWire
  <2>2. Asking /\ \A j \in DOMAIN wire : wire[j].ask = "utxos" => j = 1
    BY <2>1 DEF AnswersOK
  <2>3. \A i \in DOMAIN wire' : wire'[i].ask # "utxos"
    BY <1>1, <2>2, HeadOfWire
  <2>4. ~tcp => Len(wire') = 0 /\ DOMAIN wire' = {}
    <3> SUFFICES ASSUME ~tcp PROVE Len(wire') = 0 /\ DOMAIN wire' = {}
      OBVIOUS
    <3>1. Len(wire) <= 1 /\ Len(wire) \in Nat /\ Len(wire) # 0
      BY <1>1 DEF AnswersOK, CallsOK
    <3>2. Len(wire') = Len(wire) - 1 /\ wire' \in Seq(Requests)
      BY <1>1, HeadOfWire
    <3> QED
      BY <3>1, <3>2
  <2> QED
    BY <1>1, <1>3, <1>4, <2>2, <2>3, <2>4 DEF AnswersOK
<1> QED
  BY <1>4, <1>5, <1>6 DEF ClientInv

LEMMA SubmitTransactionKeeps ==
  ASSUME WalletInv, SubmitTransaction
  PROVE  ClientInv'
<1> USE DEF WalletInv
<1> DEFINE tx == Head(wire).tx
           taken == tx \notin MempoolTxs /\ tx \in MempoolTxs'
<1>1. /\ wire # <<>> /\ Head(wire).ask = "submit" /\ wire' = Tail(wire)
      /\ UNCHANGED <<tcp, cli, coreVars, pos, link, faults>>
      /\ reply' = IF tcp THEN reply ELSE Answer("taken", taken)
      /\ given' = given \/ given' = given \cup {tx}
  BY DEF SubmitTransaction, Handles
<1>2. tx \in made
  BY <1>1, HeadOfWire DEF Requests
<1>3. Answer("taken", taken) \in Replies /\ Answer("taken", taken).answer = "taken"
  BY DEF Answer, Replies
<1> HIDE DEF tx, taken
<1>4. KeptOK' /\ PlacesOK' /\ made' = made /\ Asking' = Asking
  BY <1>1, <1>2 DEF KeptOK, PlacesOK, coreVars, Asking
<1>5. CallsOK'
  <2>1. wire' \in Seq(Requests)' /\ reply' \in Replies \cup {None}
    BY <1>1, <1>3, <1>4, HeadOfWire DEF CallsOK, Requests
  <2> QED
    BY <1>1, <2>1 DEF CallsOK
<1>6. AnswersOK'
  <2>1. wire[1].ask = "submit" /\ 1 \in DOMAIN wire
    BY <1>1, HeadOfWire
  <2>2. CASE tcp
    <3>1. reply' = reply /\ tcp'
      BY <1>1, <2>2
    <3>2. \A i \in DOMAIN wire' : i + 1 \in DOMAIN wire /\ wire'[i] = wire[i + 1] /\ i \in Int
      BY <1>1, HeadOfWire
    <3>3. \A i \in DOMAIN wire' : wire'[i].ask = "utxos" =>
            reply = None /\ Asking /\ \A j \in DOMAIN wire' : wire'[j].ask = "utxos" => j = i
      <4> SUFFICES ASSUME NEW i \in DOMAIN wire', wire'[i].ask = "utxos"
                   PROVE  /\ reply = None /\ Asking
                          /\ \A j \in DOMAIN wire' : wire'[j].ask = "utxos" => j = i
        OBVIOUS
      <4>1. wire[i + 1].ask = "utxos" /\ i + 1 \in DOMAIN wire
        BY <3>2
      <4>2. /\ reply = None /\ Asking
            /\ \A j \in DOMAIN wire : wire[j].ask = "utxos" => j = i + 1
        BY <4>1 DEF AnswersOK
      <4>3. ASSUME NEW j \in DOMAIN wire', wire'[j].ask = "utxos" PROVE j = i
        <5>1. j + 1 = i + 1
          BY <3>2, <4>2, <4>3
        <5> QED
          BY <3>2, <5>1
      <4> QED
        BY <4>2, <4>3
    <3> QED
      BY <1>1, <1>4, <2>2, <3>1, <3>3 DEF AnswersOK
  <2>3. CASE ~tcp
    <3>1. pos["pay"].step = "wait"
      BY <2>1, <2>3 DEF AnswersOK
    <3>2. Len(wire') = 0 /\ DOMAIN wire' = {}
      <4>1. Len(wire) <= 1 /\ Len(wire) \in Nat /\ Len(wire) # 0
        BY <1>1, <2>3 DEF AnswersOK, CallsOK
      <4>2. Len(wire') = Len(wire) - 1 /\ wire' \in Seq(Requests)
        BY <1>1, HeadOfWire
      <4> QED
        BY <4>1, <4>2
    <3> QED
      BY <1>1, <1>3, <2>3, <3>1, <3>2 DEF AnswersOK
  <2> QED
    BY <2>2, <2>3
<1> QED
  BY <1>4, <1>5, <1>6 DEF ClientInv

(* The wallet does not notice.                                             *)
LEMMA ClientStays ==
  ASSUME ClientInv, UNCHANGED <<tcp, cli, given, coreVars, pos, callVars, faults>>
  PROVE  ClientInv'
<1> USE DEF ClientInv
<1>1. KeptOK' /\ PlacesOK' /\ made' = made /\ Asking' = Asking
  BY DEF KeptOK, PlacesOK, coreVars, Asking
<1>2. wire' = wire /\ reply' = reply /\ link' = link
  BY DEF callVars
<1>3. CallsOK'
  BY <1>1, <1>2 DEF CallsOK, Requests
<1>4. AnswersOK'
  BY <1>1, <1>2 DEF AnswersOK
<1> QED
  BY <1>1, <1>3, <1>4

LEMMA NodeFaultKeeps ==
  ASSUME WalletInv, NodeFault
  PROVE  ClientInv'
<1> USE DEF WalletInv
<1>1. /\ faults < MaxFaults /\ faults' = faults + 1
      /\ wire' = <<>> /\ reply' \in {reply, None} /\ link' = ~tcp
      /\ UNCHANGED <<tcp, cli, given, coreVars, pos>>
  BY DEF NodeFault
<1>2. KeptOK' /\ PlacesOK' /\ made' = made /\ Asking' = Asking
  BY <1>1 DEF KeptOK, PlacesOK, coreVars, Asking
<1>3. wire' \in Seq(Requests)' /\ DOMAIN wire' = {} /\ Len(wire') = 0
  BY <1>1
<1>4. CallsOK'
  <2>1. tcp \in BOOLEAN
    BY WalletAssumption DEF CallsOK
  <2>2. link' \in BOOLEAN /\ (tcp' \/ link')
    BY <1>1, <2>1
  <2>3. faults' \in 0..MaxFaults
    BY <1>1, WalletAssumption DEF CallsOK
  <2> QED
    BY <1>1, <1>3, <2>2, <2>3 DEF CallsOK
<1>5. AnswersOK'
  BY <1>1, <1>2, <1>3 DEF AnswersOK
<1> QED
  BY <1>2, <1>4, <1>5 DEF ClientInv

-----------------------------------------------------------------------------
(* The wallet's side *)

Paying == {Rest, Gone} \cup AtKey(Orders \cup {NoOrder})
            \cup [step : {"create"}, order : Orders]
            \cup [step : {"send", "wait"}]

LEMMA Moved ==
  ASSUME PlacesOK, NEW t \in Tasks, NEW to, Moves(t, to),
         t = "update" => to \in {Rest} \cup AtKey({NoOrder}),
         t = "pay" => to \in Paying,
         to.step \in {"ask", "wait"} => Free
  PROVE  /\ PlacesOK' /\ pos'[t] = to
         /\ \A u \in Tasks : u # t => pos'[u] = pos[u]
<1>1. /\ pos' = [u \in Tasks |-> pos'[u]] /\ pos'[t] = to
      /\ \A u \in Tasks : u # t => pos'[u] = pos[u]
  BY DEF PlacesOK, Moves
<1>2. pos'["update"] \in {Rest} \cup AtKey({NoOrder}) /\ pos'["pay"] \in Paying
  BY <1>1 DEF PlacesOK, Tasks, Paying
<1>3. ~(pos'["update"].step = "ask" /\ pos'["pay"].step \in {"ask", "wait"})
  BY <1>1 DEF PlacesOK, Tasks, Free
<1> QED
  BY <1>1, <1>2, <1>3 DEF PlacesOK, Paying, Tasks

(* The first place of a fetch, and where it leads.                         *)
LEMMA FirstKey ==
  ASSUME NEW S, NEW order \in S
  PROVE  FetchFrom(1, order) \in AtKey(S) /\ FetchFrom(1, order).step = "fetch"
<1>1. Len(MyKeys) \in Nat /\ Len(MyKeys) # 0
  BY WalletAssumption
<1> QED
  BY <1>1 DEF FetchFrom, AtKey

LEMMA AtAKey ==
  ASSUME PlacesOK, NEW t \in Tasks, pos[t].step \in {"fetch", "ask"}
  PROVE  /\ t = "update" => pos[t] \in AtKey({NoOrder})
         /\ t = "pay" => pos[t] \in AtKey(Orders \cup {NoOrder})
         /\ pos[t].key \in 1..Len(MyKeys) /\ MyKeys[pos[t].key] \in Range(MyKeys)
<1>1. /\ t = "update" => pos[t] \in AtKey({NoOrder})
      /\ t = "pay" => pos[t] \in AtKey(Orders \cup {NoOrder})
  BY DEF PlacesOK, Rest, Gone
<1>2. pos[t].key \in 1..Len(MyKeys)
  BY <1>1 DEF AtKey, Tasks
<1> QED
  BY <1>1, <1>2, WalletAssumption

LEMMA FetchEnds ==
  ASSUME PlacesOK, NEW t \in Tasks, pos[t].step \in {"fetch", "ask"},
         NEW success, Fetched(t, success)
  PROVE  /\ PlacesOK' /\ pos'[t].step \notin {"ask", "wait"}
         /\ \A u \in Tasks : u # t => pos'[u] = pos[u]
<1>1. CASE pos[t].order # NoOrder
  <2>1. t = "pay" /\ pos[t].order \in Orders
    BY <1>1, AtAKey DEF Tasks, AtKey
  <2>2. Moves(t, [step |-> "create", order |-> pos[t].order])
    BY <1>1 DEF Fetched
  <2>3. [step |-> "create", order |-> pos[t].order] \in Paying
    BY <2>1 DEF Paying
  <2> QED
    BY <2>1, <2>2, <2>3, Moved
<1>2. CASE pos[t].order = NoOrder /\ t = "pay" /\ ~success
  <2>1. Moves(t, Gone)
    BY <1>2 DEF Fetched
  <2>2. Gone \in Paying /\ Gone.step = "gone"
    BY DEF Paying, Gone
  <2> QED
    BY <1>2, <2>1, <2>2, Moved
<1>3. CASE pos[t].order = NoOrder /\ ~(t = "pay" /\ ~success)
  <2>1. Moves(t, Rest)
    BY <1>3 DEF Fetched
  <2>2. Rest \in Paying /\ Rest.step = "rest"
    BY DEF Paying, Rest
  <2> QED
    BY <2>1, <2>2, Moved
<1> QED
  BY <1>1, <1>2, <1>3

LEMMA SendEnds ==
  ASSUME PlacesOK, Sent \/ SendFailed
  PROVE  /\ PlacesOK' /\ pos'["pay"].step \notin {"ask", "wait"}
         /\ pos'["update"] = pos["update"]
<1>1. PICK to \in {FetchFrom(1, NoOrder), Rest, Gone} : Moves("pay", to)
  BY DEF Sent, SendFailed
<1>2. to \in Paying /\ to.step \notin {"ask", "wait"}
  BY FirstKey DEF Paying, Rest, Gone
<1> QED
  BY <1>1, <1>2, Moved DEF Tasks

(* What a payment adds.                                                    *)
LEMMA Created ==
  ASSUME KeptOK, NEW order, Creates(order), given' = given
  PROVE  KeptOK' /\ made \subseteq made'
<1>1. PICK tx \in Payments(order) : made' = made \cup {tx} /\ tx_queue' = Append(tx_queue, tx)
  BY DEF Creates
<1>2. tx \in Txs
  BY DEF Payments
<1>3. tx_queue \in Seq(made')
  BY <1>1 DEF KeptOK
<1> QED
  BY <1>1, <1>2, <1>3 DEF KeptOK, Creates

LEMMA CallsStay ==
  ASSUME CallsOK, made \subseteq made', UNCHANGED <<tcp, cli, callVars, faults>>
  PROVE  CallsOK'
<1>1. Requests \subseteq Requests'
  BY DEF Requests
<1>2. wire \in Seq(Requests')
  BY <1>1 DEF CallsOK
<1> QED
  BY <1>2 DEF CallsOK, callVars

(* Whoever waits waits on.                                                 *)
LEMMA AnswersStay ==
  ASSUME AnswersOK, UNCHANGED <<tcp, callVars>>, Asking => Asking',
         pos["pay"].step = "wait" => pos'["pay"].step = "wait"
  PROVE  AnswersOK'
BY DEF AnswersOK, callVars

(* When nobody waits, nothing that will be answered is on its way.         *)
Calm ==
  /\ reply = None /\ \A i \in DOMAIN wire : wire[i].ask # "utxos"
  /\ ~tcp => wire = <<>>
LEMMA FreeIsCalm ==
  ASSUME CallsOK, AnswersOK, Free
  PROVE  Calm
<1>1. ~Asking /\ pos["pay"].step # "wait"
  BY DEF Free, Asking, Tasks
<1>2. reply = None /\ \A i \in DOMAIN wire : wire[i].ask # "utxos"
  BY <1>1 DEF AnswersOK
<1>3. ASSUME ~tcp PROVE wire = <<>>
  <2>1. \A i \in DOMAIN wire : wire[i].ask # "submit"
    BY <1>1, <1>3 DEF AnswersOK
  <2>2. \A i \in DOMAIN wire : FALSE
    BY <1>2, <2>1 DEF CallsOK, Requests
  <2>3. wire \in Seq(Requests) /\ Len(wire) \in Nat /\ DOMAIN wire = 1..Len(wire)
    BY DEF CallsOK
  <2>4. Len(wire) = 0
    <3>1. Len(wire) # 0 => 1 \in 1..Len(wire)
      BY <2>3
    <3> QED
      BY <2>2, <2>3, <3>1
  <2> QED
    BY <2>3, <2>4
<1> QED
  BY <1>2, <1>3 DEF Calm

LEMMA PayFromUiKeeps ==
  ASSUME WalletInv, NEW order, PayFromUi(order)
  PROVE  ClientInv'
<1> USE DEF WalletInv
<1>1. Creates(order) /\ UNCHANGED <<tcp, cli, given, pos, callVars, faults>>
  BY DEF PayFromUi
<1>2. KeptOK' /\ CallsOK'
  BY <1>1, Created, CallsStay
<1>3. PlacesOK' /\ AnswersOK'
  BY <1>1, AnswersStay DEF PlacesOK, Asking
<1> QED
  BY <1>2, <1>3 DEF ClientInv

LEMMA CommandKeeps ==
  ASSUME WalletInv, NEW order \in Orders, Command(order)
  PROVE  ClientInv'
<1> USE DEF WalletInv
<1>1. /\ Moves("pay", FetchFrom(1, order)) /\ pos["pay"].step = "rest"
      /\ UNCHANGED <<tcp, cli, given, coreVars, callVars, faults>>
  BY DEF Command, Step
<1>2. FetchFrom(1, order) \in Paying /\ FetchFrom(1, order).step = "fetch"
  BY FirstKey DEF Paying
<1>3. PlacesOK' /\ pos'["update"] = pos["update"]
  BY <1>1, <1>2, Moved DEF Tasks
<1>4. AnswersOK'
  <2>1. Asking => Asking'
    BY <1>1, <1>3 DEF Asking, Tasks
  <2> QED
    BY <1>1, <2>1, AnswersStay
<1>5. KeptOK' /\ CallsOK'
  BY <1>1, CallsStay DEF KeptOK, coreVars
<1> QED
  BY <1>3, <1>4, <1>5 DEF ClientInv

LEMMA PayFromCommandKeeps ==
  ASSUME WalletInv, PayFromCommand
  PROVE  ClientInv'
<1> USE DEF WalletInv
<1>1. pos["pay"].step = "create" /\ UNCHANGED <<tcp, cli, given, callVars, faults>>
  BY DEF PayFromCommand, Step
<1>2. PICK to \in {Gone, [step |-> "send"]} : Moves("pay", to)
  BY DEF PayFromCommand
<1>3. PlacesOK' /\ pos'["update"] = pos["update"]
  <2>1. to \in Paying /\ to.step \notin {"ask", "wait"}
    BY DEF Paying, Gone
  <2> QED
    BY <1>2, <2>1, Moved DEF Tasks
<1>4. KeptOK' /\ made \subseteq made'
  <2>1. CASE UNCHANGED coreVars
    BY <1>1, <2>1 DEF KeptOK, coreVars
  <2>2. CASE Creates(pos["pay"].order)
    BY <1>1, <2>2, Created
  <2> QED
    BY <2>1, <2>2 DEF PayFromCommand
<1>5. AnswersOK'
  <2>1. Asking => Asking'
    BY <1>1, <1>3 DEF Asking, Tasks
  <2> QED
    BY <1>1, <2>1, AnswersStay
<1> QED
  BY <1>1, <1>3, <1>4, <1>5, CallsStay DEF ClientInv

LEMMA UpdateTickKeeps ==
  ASSUME WalletInv, UpdateTick
  PROVE  ClientInv'
<1> USE DEF WalletInv
<1>1. /\ Moves("update", FetchFrom(1, NoOrder)) /\ pos["update"].step = "rest"
      /\ UNCHANGED <<tcp, cli, given, coreVars, callVars, faults>>
  BY DEF UpdateTick, Step
<1>2. FetchFrom(1, NoOrder) \in AtKey({NoOrder}) /\ FetchFrom(1, NoOrder).step = "fetch"
  BY FirstKey
<1>3. PlacesOK' /\ pos'["pay"] = pos["pay"]
  BY <1>1, <1>2, Moved DEF Tasks
<1>4. AnswersOK'
  <2>1. Asking => Asking'
    BY <1>1, <1>3 DEF Asking, Tasks
  <2> QED
    BY <1>1, <1>3, <2>1, AnswersStay
<1>5. KeptOK' /\ CallsOK'
  BY <1>1, CallsStay DEF KeptOK, coreVars
<1> QED
  BY <1>3, <1>4, <1>5 DEF ClientInv

LEMMA AskKeeps ==
  ASSUME WalletInv, NEW t \in Tasks, Ask(t)
  PROVE  ClientInv'
<1> USE DEF WalletInv
<1>1. /\ pos[t].step = "fetch" /\ Free
      /\ UNCHANGED <<tcp, cli, given, coreVars, reply, link, faults>>
  BY DEF Ask, Step
<1>2. Calm
  BY <1>1, FreeIsCalm
<1>3. CASE link
  <2> DEFINE to == [pos[t] EXCEPT !.step = "ask"]
             u  == AskUtxos(MyKeys[pos[t].key])
  <2>1. wire' = Append(wire, u) /\ Moves(t, to)
    BY <1>3 DEF Ask
  <2>2. u \in Requests /\ u.ask = "utxos"
    BY <1>1, AtAKey DEF AskUtxos, Requests
  <2>3. /\ to.step = "ask"
        /\ t = "update" => to \in {Rest} \cup AtKey({NoOrder})
        /\ t = "pay" => to \in Paying
    <3>1. \A S : pos[t] \in AtKey(S) => to \in AtKey(S) /\ to.step = "ask"
      BY DEF AtKey
    <3> QED
      BY <1>1, <3>1, AtAKey DEF Tasks, Paying
  <2> HIDE DEF to, u
  <2>4. PlacesOK' /\ pos'[t] = to
    BY <1>1, <2>1, <2>3, Moved
  <2>5. KeptOK' /\ CallsOK'
    <3>1. wire' \in Seq(Requests)
      BY <2>1, <2>2 DEF CallsOK
    <3> QED
      BY <1>1, <3>1 DEF KeptOK, CallsOK, Requests, coreVars
  <2>6. AnswersOK'
    <3>1. Asking'
      BY <2>3, <2>4 DEF Asking
    <3>2. /\ wire \in Seq(Requests) /\ Len(wire) \in Nat
          /\ Len(wire') = Len(wire) + 1 /\ DOMAIN wire' = 1..(Len(wire) + 1)
          /\ wire'[Len(wire) + 1] = u /\ \A i \in 1..Len(wire) : wire'[i] = wire[i]
      BY <2>1, <2>2 DEF CallsOK
    <3>3. \A i \in 1..Len(wire) : wire'[i].ask # "utxos"
      BY <1>2, <3>2 DEF Calm
    <3>4. \A i \in DOMAIN wire' : wire'[i].ask = "utxos" => i = Len(wire) + 1
      BY <3>2, <3>3
    <3>5. ~tcp => Len(wire') = 1 /\ \A i \in DOMAIN wire' : wire'[i].ask = "utxos"
      <4> SUFFICES ASSUME ~tcp PROVE Len(wire') = 1 /\ \A i \in DOMAIN wire' : wire'[i].ask = "utxos"
        OBVIOUS
      <4>1. Len(wire) = 0
        BY <1>2 DEF Calm
      <4>2. Len(wire') = 1 /\ DOMAIN wire' = {1} /\ wire'[1] = u
        BY <3>2, <4>1
      <4> QED
        BY <2>2, <4>2
    <3>6. reply' = None /\ tcp' = tcp
      BY <1>1, <1>2 DEF Calm
    <3>7. \A i \in DOMAIN wire' : wire'[i].ask = "utxos" =>
            \A j \in DOMAIN wire' : wire'[j].ask = "utxos" => j = i
      BY <3>4
    <3>8. ~tcp' => \A i \in DOMAIN wire' : wire'[i].ask # "submit"
      <4> SUFFICES ASSUME ~tcp' PROVE \A i \in DOMAIN wire' : wire'[i].ask # "submit"
        OBVIOUS
      <4>1. ~tcp
        BY <3>6
      <4>2. \A i \in DOMAIN wire' : wire'[i].ask = "utxos"
        BY <3>5, <4>1
      <4> QED
        BY <4>2
    <3>9. ~tcp' => Len(wire') <= 1
      <4> SUFFICES ASSUME ~tcp' PROVE Len(wire') <= 1
        OBVIOUS
      <4>1. Len(wire') = 1
        BY <3>5, <3>6
      <4> QED
        BY <4>1
    <3> QED
      BY <3>1, <3>6, <3>7, <3>8, <3>9 DEF AnswersOK
  <2> QED
    BY <2>4, <2>5, <2>6 DEF ClientInv
<1>4. CASE ~link
  <2>1. Fetched(t, FALSE) /\ wire' = wire
    BY <1>4 DEF Ask
  <2>2. PlacesOK'
    BY <1>1, <2>1, FetchEnds
  <2>3. Calm'
    BY <1>1, <1>2, <2>1 DEF Calm
  <2>4. AnswersOK'
    BY <2>3 DEF Calm, AnswersOK
  <2>5. KeptOK' /\ CallsOK'
    BY <1>1, <2>1, CallsStay DEF KeptOK, coreVars, callVars
  <2> QED
    BY <2>2, <2>4, <2>5 DEF ClientInv
<1> QED
  BY <1>3, <1>4

LEMMA TakeUtxosKeeps ==
  ASSUME WalletInv, NEW t \in Tasks, TakeUtxos(t)
  PROVE  ClientInv'
<1> USE DEF WalletInv
<1> DEFINE key == MyKeys[pos[t].key]
<1>1. /\ pos[t].step = "ask" /\ reply # None /\ reply' = None
      /\ utxos' = [utxos EXCEPT ![key] = reply.value]
      /\ UNCHANGED <<tcp, cli, given, tx_queue, made, wire, link, faults>>
  BY DEF TakeUtxos, Step, Store
<1>2. reply.value \in Seq(Coins)
  <2>1. reply.answer = "utxos"
    BY <1>1 DEF AnswersOK, PlacesOK, Tasks
  <2> QED
    BY <1>1, <2>1 DEF CallsOK, Replies
<1>3. key \in Range(MyKeys)
  BY <1>1, AtAKey
<1> HIDE DEF key
<1>4. KeptOK'
  BY <1>1, <1>2, <1>3 DEF KeptOK
<1>5. CallsOK'
  BY <1>1 DEF CallsOK, Requests
<1>6. AnswersOK'
  <2>1. \A i \in DOMAIN wire : wire[i].ask # "utxos" /\ (wire[i].ask = "submit" => tcp)
    BY <1>1 DEF AnswersOK
  <2>2. wire' = wire /\ tcp' = tcp /\ reply' = None /\ (~tcp => Len(wire) <= 1)
    BY <1>1 DEF AnswersOK
  <2> QED
    BY <2>1, <2>2 DEF AnswersOK
<1>7. PlacesOK'
  <2>1. CASE pos[t].key < Len(MyKeys)
    <3> DEFINE to == FetchFrom(pos[t].key + 1, pos[t].order)
    <3>1. Moves(t, to)
      BY <2>1 DEF TakeUtxos
    <3>2. pos[t].key + 1 \in 1..Len(MyKeys)
      <4>1. Len(MyKeys) \in Nat
        BY WalletAssumption
      <4> QED
        BY <1>1, <2>1, <4>1, AtAKey
    <3>3. \A S : pos[t] \in AtKey(S) => to \in AtKey(S)
      BY <3>2 DEF AtKey, FetchFrom
    <3>4. to.step = "fetch"
      BY DEF FetchFrom
    <3>5. t = "update" => to \in {Rest} \cup AtKey({NoOrder})
      BY <1>1, <3>3, AtAKey
    <3>6. t = "pay" => to \in Paying
      BY <1>1, <3>3, AtAKey DEF Paying
    <3> HIDE DEF to
    <3> QED
      BY <3>1, <3>4, <3>5, <3>6, Moved
  <2>2. CASE ~(pos[t].key < Len(MyKeys))
    <3>1. Fetched(t, TRUE)
      BY <2>2 DEF TakeUtxos
    <3> QED
      BY <1>1, <3>1, FetchEnds
  <2> QED
    BY <2>1, <2>2
<1> QED
  BY <1>4, <1>5, <1>6, <1>7 DEF ClientInv

LEMMA AskFailsKeeps ==
  ASSUME WalletInv, NEW t \in Tasks, AskFails(t)
  PROVE  ClientInv'
<1> USE DEF WalletInv
<1>1. /\ pos[t].step = "ask" /\ reply = None /\ wire = <<>> /\ Fetched(t, FALSE)
      /\ UNCHANGED <<tcp, cli, given, coreVars, callVars, faults>>
  BY DEF AskFails, Step, NoAnswer
<1>2. PlacesOK'
  BY <1>1, FetchEnds
<1>3. KeptOK' /\ CallsOK'
  BY <1>1, CallsStay DEF KeptOK, coreVars
<1>4. AnswersOK'
  <2>1. Calm'
    BY <1>1 DEF Calm, callVars
  <2> QED
    BY <2>1 DEF Calm, AnswersOK
<1> QED
  BY <1>2, <1>3, <1>4 DEF ClientInv

LEMMA SendTransactionKeeps ==
  ASSUME WalletInv, SendTransaction
  PROVE  ClientInv'
<1> USE DEF WalletInv
<1> DEFINE u == AskSubmit(Head(tx_queue))
<1>1. /\ tx_queue # <<>> /\ Free /\ tx_queue' = Tail(tx_queue)
      /\ UNCHANGED <<tcp, cli, given, utxos, made, reply, link, faults>>
  BY DEF SendTransaction
<1>2. Calm
  BY <1>1, FreeIsCalm
<1>3. KeptOK' /\ Head(tx_queue) \in made
  BY <1>1 DEF KeptOK
<1>4. /\ PlacesOK'
      /\ tcp \/ ~link \/ pos'["pay"].step = "wait"
  <2>1. CASE Sent \/ SendFailed
    <3>1. tcp \/ ~link \/ Moves("pay", [step |-> "wait"])
      BY DEF SendTransaction
    <3>2. Moves("pay", [step |-> "wait"]) => pos'["pay"].step = "wait"
      BY DEF PlacesOK, Moves, Tasks
    <3> QED
      BY <2>1, <3>1, <3>2, SendEnds
  <2>2. CASE Moves("pay", [step |-> "wait"])
    <3>1. [step |-> "wait"] \in Paying
      BY DEF Paying
    <3> QED
      BY <1>1, <2>2, <3>1, Moved DEF Tasks
  <2> QED
    BY <2>1, <2>2 DEF SendTransaction
<1>5. wire' = (IF link THEN Append(wire, u) ELSE wire)
  BY DEF SendTransaction
<1>6. u \in Requests /\ u.ask = "submit"
  BY <1>3 DEF AskSubmit, Requests
<1> HIDE DEF u
<1>7. CallsOK'
  <2>1. wire' \in Seq(Requests)
    BY <1>5, <1>6 DEF CallsOK
  <2> QED
    BY <1>1, <2>1 DEF CallsOK, Requests
<1>8. AnswersOK'
  <2>1. wire \in Seq(Requests) /\ Len(wire) \in Nat
    BY DEF CallsOK
  <2>2. \A i \in DOMAIN wire' : wire'[i].ask # "utxos"
    BY <1>2, <1>5, <1>6, <2>1 DEF Calm
  <2>3. ASSUME ~tcp PROVE Len(wire') <= 1 /\ pos'["pay"].step = "wait"
    <3>1. link
      BY <2>3 DEF CallsOK
    <3>2. wire = <<>>
      BY <1>2, <2>3 DEF Calm
    <3> QED
      BY <1>4, <1>5, <1>6, <2>3, <3>1, <3>2
  <2>4. reply' = None /\ tcp' = tcp
    BY <1>1, <1>2 DEF Calm
  <2> QED
    BY <2>2, <2>3, <2>4 DEF AnswersOK
<1> QED
  BY <1>3, <1>4, <1>7, <1>8 DEF ClientInv

LEMMA TakeTakenKeeps ==
  ASSUME WalletInv, TakeTaken
  PROVE  ClientInv'
<1> USE DEF WalletInv
<1>1. /\ reply # None /\ reply' = None
      /\ Sent \/ SendFailed
      /\ UNCHANGED <<tcp, cli, given, coreVars, wire, link, faults>>
  BY DEF TakeTaken, Step
<1>2. PlacesOK'
  BY <1>1, SendEnds
<1>3. KeptOK' /\ CallsOK'
  BY <1>1 DEF KeptOK, coreVars, CallsOK, Requests
<1>4. AnswersOK'
  <2>1. \A i \in DOMAIN wire : wire[i].ask # "utxos" /\ (wire[i].ask = "submit" => tcp)
    BY <1>1 DEF AnswersOK
  <2>2. wire' = wire /\ tcp' = tcp /\ reply' = None /\ (~tcp => Len(wire) <= 1)
    BY <1>1 DEF AnswersOK
  <2> QED
    BY <2>1, <2>2 DEF AnswersOK
<1> QED
  BY <1>2, <1>3, <1>4 DEF ClientInv

LEMMA SubmitFailsKeeps ==
  ASSUME WalletInv, SubmitFails
  PROVE  ClientInv'
<1> USE DEF WalletInv
<1>1. /\ reply = None /\ wire = <<>> /\ SendFailed
      /\ UNCHANGED <<tcp, cli, given, coreVars, callVars, faults>>
  BY DEF SubmitFails, NoAnswer
<1>2. PlacesOK'
  BY <1>1, SendEnds
<1>3. KeptOK' /\ CallsOK'
  BY <1>1, CallsStay DEF KeptOK, coreVars
<1>4. AnswersOK'
  <2>1. Calm'
    BY <1>1 DEF Calm, callVars
  <2> QED
    BY <2>1 DEF Calm, AnswersOK
<1> QED
  BY <1>2, <1>3, <1>4 DEF ClientInv

-----------------------------------------------------------------------------
(* Creating a payment *)

(* What the wallet knows of one key: outputs of that key, each once.       *)
KeptApart(key, list) ==
  /\ \A i \in DOMAIN list : list[i].output.pubkey = key
  /\ \A i, j \in DOMAIN list : list[i].output = list[j].output => i = j
CopyOK == \A k \in Range(MyKeys) : KeptApart(k, utxos[k])

(* Every place of the copy holds an output of its own.                     *)
LEMMA Places ==
  ASSUME KeptOK, CopyOK
  PROVE  /\ IsFiniteSet(Unmarked)
         /\ \A p \in Unmarked :
              /\ p = <<p[1], p[2]>> /\ p[1] \in Nat \ {0} /\ p[2] \in Nat \ {0}
              /\ OutputAt(p) \in AllOutputs /\ OutputAt(p).pubkey \in Range(MyKeys)
         /\ \A p, q \in Unmarked : OutputAt(p) = OutputAt(q) => p = q
<1> DEFINE I     == DOMAIN KeyOrder
           at(i) == utxos[KeyOrder[i]]
           G     == [i \in I |-> {i} \X DOMAIN at(i)]
<1>1. /\ I = 1..Len(KeyOrder) /\ Len(KeyOrder) \in Nat
      /\ \A i \in I : KeyOrder[i] \in Range(MyKeys)
      /\ \A i, j \in I : KeyOrder[i] = KeyOrder[j] => i = j
  BY WalletAssumption DEF IsInjective
<1>2. \A i \in I : at(i) \in Seq(Coins) /\ KeptApart(KeyOrder[i], at(i))
  BY <1>1 DEF KeptOK, CopyOK
<1>3. \A p \in Unmarked : p = <<p[1], p[2]>> /\ p[1] \in I /\ p[2] \in DOMAIN at(p[1])
  BY DEF Unmarked
<1>4. \A p \in Unmarked : OutputAt(p) = at(p[1])[p[2]].output
  BY DEF OutputAt
<1>5. IsFiniteSet(Unmarked)
  <2>1. \A i \in I : IsFiniteSet(G[i])
    <3> SUFFICES ASSUME NEW i \in I PROVE IsFiniteSet({i} \X DOMAIN at(i))
      OBVIOUS
    <3>1. DOMAIN at(i) = 1..Len(at(i)) /\ Len(at(i)) \in Nat
      BY <1>2
    <3>2. IsFiniteSet({i})
      BY FS_Singleton
    <3>3. IsFiniteSet(DOMAIN at(i))
      BY <3>1, FS_Interval
    <3> HIDE DEF at
    <3> QED
      BY <3>2, <3>3, FS_Product
  <2>2. IsFiniteSet(I)
    BY <1>1, FS_Interval
  <2>3. G \in Surjection(I, Range(G))
    BY DEF Surjection, Range
  <2>4. IsFiniteSet(Range(G)) /\ \A T \in Range(G) : IsFiniteSet(T)
    <3> HIDE DEF I, G
    <3>1. IsFiniteSet(Range(G))
      BY <2>2, <2>3, FS_Surjection
    <3>2. DOMAIN G = I
      BY DEF G
    <3> QED
      BY <2>1, <3>1, <3>2 DEF Range
  <2>5. Unmarked \subseteq UNION Range(G)
    BY <1>3 DEF Unmarked, Range
  <2> HIDE DEF G
  <2> QED
    BY <2>4, <2>5, FS_UNION, FS_Subset
<1>6. \A p \in Unmarked : p[1] \in Nat \ {0} /\ p[2] \in Nat \ {0}
  BY <1>1, <1>2, <1>3
<1>7. \A p \in Unmarked : OutputAt(p) \in AllOutputs /\ OutputAt(p).pubkey = KeyOrder[p[1]]
  <2> SUFFICES ASSUME NEW p \in Unmarked
               PROVE  OutputAt(p) \in AllOutputs /\ OutputAt(p).pubkey = KeyOrder[p[1]]
    OBVIOUS
  <2> DEFINE s == at(p[1])
  <2>1. s \in Seq(Coins) /\ p[2] \in DOMAIN s /\ KeptApart(KeyOrder[p[1]], s)
    BY <1>2, <1>3
  <2>2. OutputAt(p) = s[p[2]].output
    BY <1>4
  <2> HIDE DEF s
  <2>3. s[p[2]] \in Coins
    BY <2>1
  <2>4. s[p[2]].output \in AllOutputs
    BY <2>3 DEF Coins
  <2> QED
    BY <2>1, <2>2, <2>4 DEF KeptApart
<1>8. ASSUME NEW p \in Unmarked, NEW q \in Unmarked, OutputAt(p) = OutputAt(q) PROVE p = q
  <2>1. p[1] = q[1]
    BY <1>1, <1>3, <1>7, <1>8
  <2>2. at(p[1])[p[2]].output = at(p[1])[q[2]].output
    BY <1>4, <1>8, <2>1
  <2>3. p[2] = q[2]
    BY <1>2, <1>3, <2>1, <2>2 DEF KeptApart
  <2> QED
    BY <1>3, <2>1, <2>3
<1> QED
  BY <1>1, <1>3, <1>5, <1>6, <1>7, <1>8

(* The sums of what the copy holds.                                        *)
LEMMA SumAtIs ==
  ASSUME KeptOK, CopyOK, NEW S \in SUBSET Unmarked
  PROVE  /\ IsFiniteSet(S)
         /\ SumAt(S) = Sum([p \in Unmarked |-> OutputAt(p).amount], S)
         /\ SumAt(S) = Sum(Worth, {OutputAt(p) : p \in S})
         /\ SumAt(S) \in Nat
<1> DEFINE f == [p \in S |-> OutputAt(p).amount]
           g == [p \in Unmarked |-> OutputAt(p).amount]
           e == [p \in S |-> OutputAt(p)]
<1>1. IsFiniteSet(S)
  BY Places, FS_Subset
<1>2. SumAt(S) = Sum(f, S)
  BY DEF SumAt, MapThenSumSet, MapThenFoldSet, Sum
<1>3. \A p \in S : f[p] = g[p] /\ f[p] = Worth[e[p]] /\ f[p] \in Nat
  <2> SUFFICES ASSUME NEW p \in S PROVE f[p] = g[p] /\ f[p] = Worth[e[p]] /\ f[p] \in Nat
    OBVIOUS
  <2>1. f[p] = OutputAt(p).amount /\ g[p] = OutputAt(p).amount /\ e[p] = OutputAt(p)
    OBVIOUS
  <2>2. OutputAt(p) \in AllOutputs
    BY Places
  <2> QED
    BY <2>1, <2>2, AmountType
<1>4. \A p, q \in S : e[p] = e[q] => p = q
  BY Places
<1>5. {e[p] : p \in S} = {OutputAt(p) : p \in S}
  OBVIOUS
<1> HIDE DEF f, g, e
<1>6. Sum(f, S) = Sum(g, S)
  BY <1>1, <1>3, SumSame
<1>7. Sum(f, S) = Sum(Worth, {e[p] : p \in S})
  BY <1>1, <1>3, <1>4, SumMapped
<1>8. Sum(f, S) \in Nat
  BY <1>1, <1>3, SumNat
<1> QED
  BY <1>1, <1>2, <1>5, <1>6, <1>7, <1>8 DEF g

(* What comes before a place, and the first place of a set.                *)
Upto(p) == {q \in Unmarked : Before(q, p)}
LEMMA FirstPlace ==
  ASSUME KeptOK, CopyOK, NEW S \in SUBSET Unmarked, S # {}
  PROVE  \E p \in S : \A q \in S : ~Before(q, p)
<1>1. \A p \in S : p = <<p[1], p[2]>> /\ p[1] \in Nat /\ p[2] \in Nat
  BY Places
<1> DEFINE Rows == {p[1] : p \in S}
<1>2. PICK i \in Rows : \A j \in Rows : i <= j
  <2>1. Rows \in SUBSET Nat /\ Rows # {}
    BY <1>1
  <2> HIDE DEF Rows
  <2> QED
    BY <2>1, Least
<1> DEFINE Cols == {p[2] : p \in {q \in S : q[1] = i}}
<1>3. PICK k \in Cols : \A l \in Cols : k <= l
  <2>1. Cols \in SUBSET Nat /\ Cols # {}
    BY <1>1
  <2> HIDE DEF Cols
  <2> QED
    BY <2>1, Least
<1>4. PICK p \in S : p[1] = i /\ p[2] = k
  OBVIOUS
<1>5. ASSUME NEW q \in S PROVE ~Before(q, p)
  <2>1. p[1] <= q[1] /\ (q[1] = p[1] => p[2] <= q[2])
    <3>1. q[1] \in Rows
      OBVIOUS
    <3>2. q[1] = i => q[2] \in Cols
      OBVIOUS
    <3> HIDE DEF Rows, Cols
    <3> QED
      BY <1>2, <1>3, <1>4, <3>1, <3>2
  <2> QED
    BY <1>1, <2>1 DEF Before
<1> QED
  BY <1>5

(* What is taken suffices when all there is does.                          *)
LEMMA TakenSuffices ==
  ASSUME KeptOK, CopyOK, NEW total \in Nat, SumAt(Unmarked) >= total
  PROVE  SumAt(Taken(total)) >= total
<1>1. Taken(total) \subseteq Unmarked
  BY DEF Taken
<1>2. CASE Taken(total) = Unmarked
  BY <1>2
<1>3. CASE Taken(total) # Unmarked
  <2> DEFINE left == Unmarked \ Taken(total)
             g    == [p \in Unmarked |-> OutputAt(p).amount]
  <2>1. left \in SUBSET Unmarked /\ left # {}
    BY <1>1, <1>3
  <2>2. PICK p \in left : \A q \in left : ~Before(q, p)
    <3> HIDE DEF left
    <3> QED
      BY <2>1, FirstPlace
  <2>3. Upto(p) \subseteq Taken(total)
    BY <2>2 DEF Upto
  <2>4. SumAt(Upto(p)) \in Nat /\ SumAt(Upto(p)) >= total
    <3>1. ~(SumAt(Upto(p)) < total)
      BY <2>2 DEF Taken, Upto
    <3>2. SumAt(Upto(p)) \in Nat
      BY SumAtIs DEF Upto
    <3> QED
      BY <3>1, <3>2
  <2>5. /\ IsFiniteSet(Taken(total)) /\ SumAt(Taken(total)) \in Nat
        /\ SumAt(Upto(p)) = Sum(g, Upto(p)) /\ SumAt(Taken(total)) = Sum(g, Taken(total))
    BY <1>1, SumAtIs DEF Upto
  <2>6. \A q \in Taken(total) : g[q] \in Nat
    <3> SUFFICES ASSUME NEW q \in Taken(total) PROVE g[q] \in Nat
      OBVIOUS
    <3>1. OutputAt(q) \in AllOutputs /\ g[q] = OutputAt(q).amount
      BY <1>1, Places
    <3> QED
      BY <3>1, AmountType
  <2> HIDE DEF g
  <2>7. Sum(g, Upto(p)) <= Sum(g, Taken(total))
    BY <2>3, <2>5, <2>6, SumMonotone
  <2> QED
    BY <2>4, <2>5, <2>7
<1> QED
  BY <1>2, <1>3

(* A payment: it spends outputs of the wallet, each once and signed by its *)
(* key, pays somebody else, and keeps what is left but the fee.            *)
SignedByOwner(tx) ==
  \A i \in DOMAIN tx.inputs :
    tx.inputs[i].signature = tx.inputs[i].prev_tx_output_hash.pubkey
Change(tx) == CreatedBy(tx) \ {tx.outputs[1]}
WellMade(tx) ==
  /\ InputsDiffer(tx) /\ SignedByOwner(tx)
  /\ \A o \in SpentBy(tx) : o.pubkey \in Range(MyKeys)
  /\ OutputSum(tx) + FlatFee = Sum(Worth, SpentBy(tx))
  /\ tx.outputs[1] \in CreatedBy(tx)
  /\ tx.outputs[1].pubkey \notin Range(MyKeys)
  /\ \A o \in Change(tx) : o.pubkey \in Range(MyKeys)

LEMMA PaymentInputs ==
  ASSUME KeptOK, CopyOK, NEW total, NEW tx, tx.inputs \in Inputs(total)
  PROVE  /\ InputsDiffer(tx) /\ SignedByOwner(tx)
         /\ SpentBy(tx) = {OutputAt(p) : p \in Taken(total)}
<1>1. PICK f \in Listings(Taken(total)) :
        tx.inputs = [i \in DOMAIN f |-> Signed(OutputAt(f[i]))]
  BY DEF Inputs
<1>2. /\ \A i \in DOMAIN f : f[i] \in Taken(total)
      /\ \A i, j \in DOMAIN f : f[i] = f[j] => i = j
      /\ \A p \in Taken(total) : \E i \in DOMAIN f : f[i] = p
  BY DEF Listings, Bijection, Injection, Surjection, IsInjective
<1>3. Taken(total) \subseteq Unmarked
  BY DEF Taken
<1>4. /\ DOMAIN tx.inputs = DOMAIN f
      /\ \A i \in DOMAIN f : /\ tx.inputs[i].prev_tx_output_hash = OutputAt(f[i])
                             /\ tx.inputs[i].signature = OutputAt(f[i]).pubkey
  BY <1>1 DEF Signed
<1>5. InputsDiffer(tx)
  BY <1>2, <1>3, <1>4, Places DEF InputsDiffer
<1>6. SignedByOwner(tx)
  BY <1>4 DEF SignedByOwner
<1>7. SpentBy(tx) = {OutputAt(p) : p \in Taken(total)}
  BY <1>2, <1>4 DEF SpentBy
<1> QED
  BY <1>5, <1>6, <1>7

(* The sum of one or two outputs.                                          *)
LEMMA OneOutput ==
  ASSUME NEW tx \in AllTxs, Len(tx.outputs) = 1
  PROVE  /\ CreatedBy(tx) = {tx.outputs[1]}
         /\ OutputSum(tx) = tx.outputs[1].amount
<1> DEFINE o == tx.outputs[1]
<1>1. CreatedBy(tx) = {o} /\ o \in AllOutputs
  <2> DEFINE outs == tx.outputs
  <2>1. outs \in Seq(AllOutputs)
    BY TxsAssumption
  <2>2. CreatedBy(tx) = {outs[i] : i \in DOMAIN outs}
    BY DEF CreatedBy, Range
  <2>3. Len(outs) = 1
    OBVIOUS
  <2> HIDE DEF outs
  <2>4. DOMAIN outs = {1} /\ outs[1] \in AllOutputs
    <3>1. DOMAIN outs = 1..1
      BY <2>1, <2>3
    <3>2. 1..1 = {1}
      OBVIOUS
    <3> QED
      BY <2>1, <3>1, <3>2
  <2>5. CreatedBy(tx) = {outs[1]}
    BY <2>2, <2>4
  <2> QED
    BY <2>4, <2>5 DEF outs
<1> HIDE DEF o
<1>2. Sum(Worth, {} \cup {o}) = Sum(Worth, {}) + Worth[o]
  <2>1. IsFiniteSet({}) /\ Worth[o] \in Int
    BY <1>1, AmountType, FS_EmptySet
  <2> QED
    BY <2>1, SumAdds
<1>3. {} \cup {o} = {o}
  OBVIOUS
<1>4. Sum(Worth, {o}) = o.amount
  BY <1>1, <1>2, <1>3, SumEmpty, AmountType
<1> QED
  BY <1>1, <1>4, OutputSumIs DEF o

LEMMA TwoOutputs ==
  ASSUME NEW tx \in AllTxs, Len(tx.outputs) = 2
  PROVE  /\ CreatedBy(tx) = {tx.outputs[1], tx.outputs[2]}
         /\ OutputSum(tx) = tx.outputs[1].amount + tx.outputs[2].amount
<1> DEFINE o == tx.outputs[1]
           u == tx.outputs[2]
<1>1. CreatedBy(tx) = {o, u} /\ o \in AllOutputs /\ u \in AllOutputs
  <2> DEFINE outs == tx.outputs
  <2>1. outs \in Seq(AllOutputs)
    BY TxsAssumption
  <2>2. CreatedBy(tx) = {outs[i] : i \in DOMAIN outs}
    BY DEF CreatedBy, Range
  <2>3. Len(outs) = 2
    OBVIOUS
  <2> HIDE DEF outs
  <2>4. DOMAIN outs = {1, 2} /\ outs[1] \in AllOutputs /\ outs[2] \in AllOutputs
    <3>1. DOMAIN outs = 1..2
      BY <2>1, <2>3
    <3>2. 1..2 = {1, 2}
      OBVIOUS
    <3>3. \A i \in DOMAIN outs : outs[i] \in AllOutputs
      BY <2>1
    <3> QED
      BY <3>1, <3>2, <3>3
  <2>5. CreatedBy(tx) = {outs[1], outs[2]}
    BY <2>2, <2>4
  <2> QED
    BY <2>4, <2>5 DEF outs
<1>2. u # o
  BY TxsAssumption, OutputsAssumption
<1> HIDE DEF o, u
<1>3. Sum(Worth, {} \cup {o}) = Sum(Worth, {}) + Worth[o]
  <2>1. IsFiniteSet({}) /\ Worth[o] \in Int
    BY <1>1, AmountType, FS_EmptySet
  <2> QED
    BY <2>1, SumAdds
<1>4. Sum(Worth, {o} \cup {u}) = Sum(Worth, {o}) + Worth[u]
  <2>1. Worth[u] \in Int /\ Worth[o] \in Int /\ u \notin {o}
    BY <1>1, <1>2, AmountType
  <2>2. IsFiniteSet({o})
    BY FS_Singleton
  <2> QED
    BY <2>1, <2>2, SumAdds
<1>5. {} \cup {o} = {o} /\ {o} \cup {u} = {o, u}
  OBVIOUS
<1>6. Sum(Worth, {o, u}) = o.amount + u.amount
  BY <1>1, <1>3, <1>4, <1>5, SumEmpty, AmountType
<1> QED
  BY <1>1, <1>6, OutputSumIs DEF o, u

LEMMA PaymentWellMade ==
  ASSUME KeptOK, CopyOK, NEW order \in Orders, Affordable(order), NEW tx \in Payments(order)
  PROVE  WellMade(tx)
<1> DEFINE total  == order.amount + FlatFee
           sum    == SumAt(Taken(total))
           o      == tx.outputs[1]
           u      == tx.outputs[2]
<1>1. /\ order.amount \in Nat \ {0} /\ FlatFee \in Nat /\ total \in Nat
      /\ order.recipient \notin Range(MyKeys)
  <2>1. /\ Amounts \subseteq Nat \ {0} /\ Recipients \cap Range(MyKeys) = {}
        /\ FlatFee \in Nat
    BY WalletAssumption
  <2>2. order.amount \in Amounts /\ order.recipient \in Recipients
    BY DEF Orders
  <2>3. order.amount \in Nat \ {0}
    BY <2>1, <2>2
  <2> QED
    BY <2>1, <2>2, <2>3
<1>2. /\ tx \in AllTxs /\ tx.inputs \in Inputs(total)
      /\ Len(tx.outputs) = IF sum - total > 0 THEN 2 ELSE 1
      /\ o.amount = order.amount /\ o.pubkey = order.recipient
      /\ sum - total > 0 => u.amount = sum - total /\ u.pubkey = MyKeys[1]
  BY DEF Payments, CalculateFee, AllTxs
<1>3. /\ InputsDiffer(tx) /\ SignedByOwner(tx)
      /\ SpentBy(tx) = {OutputAt(p) : p \in Taken(total)}
  BY <1>2, PaymentInputs
<1>4. Taken(total) \in SUBSET Unmarked
  BY DEF Taken
<1>5. \A p \in SpentBy(tx) : p.pubkey \in Range(MyKeys)
  BY <1>3, <1>4, Places
<1>6. sum \in Nat /\ sum = Sum(Worth, SpentBy(tx)) /\ sum >= total
  <2>1. SumAt(Unmarked) >= total
    BY DEF Affordable, CalculateFee
  <2>2. sum >= total
    BY <1>1, <2>1, TakenSuffices
  <2> QED
    BY <1>3, <1>4, <2>2, SumAtIs
<1>7. MyKeys[1] \in Range(MyKeys)
  BY WalletAssumption DEF Range
<1> HIDE DEF total, sum, o, u
<1>8. CASE sum - total > 0
  <2>1. CreatedBy(tx) = {o, u} /\ OutputSum(tx) = o.amount + u.amount
    BY <1>2, <1>8, TwoOutputs DEF o, u
  <2>2. OutputSum(tx) + FlatFee = sum
    BY <1>1, <1>2, <1>6, <1>8, <2>1 DEF total
  <2> QED
    BY <1>1, <1>2, <1>3, <1>5, <1>6, <1>7, <1>8, <2>1, <2>2 DEF WellMade, Change, o
<1>9. CASE ~(sum - total > 0)
  <2>1. CreatedBy(tx) = {o} /\ OutputSum(tx) = o.amount
    BY <1>2, <1>9, OneOutput DEF o
  <2>2. OutputSum(tx) + FlatFee = sum
    BY <1>1, <1>2, <1>6, <1>9, <2>1 DEF total
  <2> QED
    BY <1>1, <1>2, <1>3, <1>5, <1>6, <2>1, <2>2 DEF WellMade, Change, o
<1> QED
  BY <1>8, <1>9

-----------------------------------------------------------------------------
(* The copy, the payments and the chain                                    *)

(* Whoever asks is answered about the key it asked for.                    *)
AskedOK ==
  \A t \in Tasks : pos[t].step = "ask" =>
    /\ reply # None /\ reply.answer = "utxos" => KeptApart(MyKeys[pos[t].key], reply.value)
    /\ \A i \in DOMAIN wire : wire[i].ask = "utxos" => wire[i].key = MyKeys[pos[t].key]

PaidOK == \A tx \in made : WellMade(tx)

(* What is on a chain was signed by the owners of what it spends, and the  *)
(* wallet's transactions had reached the network.                          *)
HistoryOK(chain) ==
  /\ \A tx \in Confirmed(chain) : SignedByOwner(tx)
  /\ Confirmed(chain) \cap Txs \subseteq given

PayInv == CopyOK /\ AskedOK /\ PaidOK /\ HistoryOK(blocks) /\ HistoryOK(disk.blocks)

(* The copy does not change, no answer comes, nobody begins to wait.       *)
LEMMA CopyStays ==
  ASSUME CopyOK, AskedOK, utxos' = utxos, reply' \in {reply, None},
         \A i \in DOMAIN wire' : wire'[i].ask = "utxos" =>
            \E j \in DOMAIN wire : wire[j] = wire'[i],
         \A t \in Tasks : pos'[t].step = "ask" => pos'[t] = pos[t]
  PROVE  CopyOK' /\ AskedOK'
<1>1. CopyOK'
  BY DEF CopyOK
<1>2. ASSUME NEW t \in Tasks, pos'[t].step = "ask"
      PROVE  /\ reply' # None /\ reply'.answer = "utxos" =>
                  KeptApart(MyKeys[pos'[t].key], reply'.value)
             /\ \A i \in DOMAIN wire' : wire'[i].ask = "utxos" =>
                  wire'[i].key = MyKeys[pos'[t].key]
  <2>1. pos'[t] = pos[t] /\ pos[t].step = "ask"
    BY <1>2
  <2>2. reply' # None /\ reply'.answer = "utxos" => KeptApart(MyKeys[pos'[t].key], reply'.value)
    BY <2>1 DEF AskedOK
  <2>3. ASSUME NEW i \in DOMAIN wire', wire'[i].ask = "utxos"
        PROVE  wire'[i].key = MyKeys[pos'[t].key]
    <3>1. PICK j \in DOMAIN wire : wire[j] = wire'[i]
      BY <2>3
    <3> QED
      BY <2>1, <2>3, <3>1 DEF AskedOK
  <2> QED
    BY <2>2, <2>3
<1> QED
  BY <1>1, <1>2 DEF AskedOK

LEMMA FetchUtxosCopies ==
  ASSUME WalletInv, CopyOK, AskedOK, FetchUtxos
  PROVE  CopyOK' /\ AskedOK'
<1> USE DEF WalletInv
<1>1. /\ wire # <<>> /\ Head(wire).ask = "utxos" /\ wire' = Tail(wire)
      /\ UNCHANGED <<vars, tcp, cli, coreVars, given, pos, link, faults>>
  BY DEF FetchUtxos, Handles
<1> DEFINE K == {o \in DOMAIN utxo_set : o.pubkey = Head(wire).key}
<1>2. PICK f \in Listings(K) :
        reply' = Answer("utxos", [i \in DOMAIN f |-> [marked |-> utxo_set[f[i]], output |-> f[i]]])
  BY DEF FetchUtxos
<1> DEFINE list == [i \in DOMAIN f |-> [marked |-> utxo_set[f[i]], output |-> f[i]]]
<1>3. KeptApart(Head(wire).key, list)
  <2>1. /\ \A i \in DOMAIN f : f[i] \in K
        /\ \A i, j \in DOMAIN f : f[i] = f[j] => i = j
    BY DEF Listings, Bijection, Injection, Surjection, IsInjective
  <2>2. DOMAIN list = DOMAIN f /\ \A i \in DOMAIN f : list[i].output = f[i]
    OBVIOUS
  <2>3. \A o \in K : o.pubkey = Head(wire).key
    OBVIOUS
  <2> HIDE DEF list, K
  <2> QED
    BY <2>1, <2>2, <2>3 DEF KeptApart
<1>4. reply'.value = list
  BY <1>2 DEF Answer
<1> HIDE DEF list
<1>5. CopyOK'
  BY <1>1 DEF CopyOK, coreVars
<1>6. ASSUME NEW t \in Tasks, pos'[t].step = "ask"
      PROVE  /\ KeptApart(MyKeys[pos'[t].key], reply'.value)
             /\ \A i \in DOMAIN wire' : wire'[i].ask = "utxos" =>
                  wire'[i].key = MyKeys[pos'[t].key]
  <2>1. pos' = pos
    BY <1>1
  <2>2. Head(wire).key = MyKeys[pos[t].key]
    BY <1>1, <1>6, <2>1, HeadOfWire DEF AskedOK
  <2>3. \A i \in DOMAIN wire' : wire'[i].ask = "utxos" => wire'[i].key = MyKeys[pos[t].key]
    BY <1>1, <1>6, <2>1, HeadOfWire DEF AskedOK
  <2> QED
    BY <1>3, <1>4, <2>1, <2>2, <2>3
<1> QED
  BY <1>5, <1>6 DEF AskedOK

LEMMA SubmitTransactionCopies ==
  ASSUME WalletInv, CopyOK, AskedOK, SubmitTransaction
  PROVE  CopyOK' /\ AskedOK'
<1> USE DEF WalletInv
<1> DEFINE tx == Head(wire).tx
           taken == tx \notin MempoolTxs /\ tx \in MempoolTxs'
<1>1. /\ wire # <<>> /\ wire' = Tail(wire)
      /\ UNCHANGED <<tcp, cli, coreVars, pos, link, faults>>
      /\ reply' = IF tcp THEN reply ELSE Answer("taken", taken)
  BY DEF SubmitTransaction, Handles
<1>2. Answer("taken", taken).answer = "taken"
  BY DEF Answer
<1> HIDE DEF tx, taken
<1>3. CopyOK'
  BY <1>1 DEF CopyOK, coreVars
<1>4. ASSUME NEW t \in Tasks, pos[t].step = "ask"
      PROVE  /\ reply' # None /\ reply'.answer = "utxos" =>
                  KeptApart(MyKeys[pos[t].key], reply'.value)
             /\ \A i \in DOMAIN wire' : wire'[i].ask = "utxos" =>
                  wire'[i].key = MyKeys[pos[t].key]
  BY <1>1, <1>2, <1>4, HeadOfWire DEF AskedOK
<1> QED
  BY <1>1, <1>3, <1>4 DEF AskedOK

LEMMA AskCopies ==
  ASSUME WalletInv, CopyOK, AskedOK, NEW t \in Tasks, Ask(t)
  PROVE  CopyOK' /\ AskedOK'
<1> USE DEF WalletInv
<1>1. /\ pos[t].step = "fetch" /\ Free
      /\ UNCHANGED <<tcp, cli, given, coreVars, reply, link, faults>>
  BY DEF Ask, Step
<1>2. Calm
  BY <1>1, FreeIsCalm
<1>3. \A u \in Tasks : pos[u].step # "ask"
  BY <1>1 DEF Free
<1>4. CopyOK'
  BY <1>1 DEF CopyOK, coreVars
<1>5. CASE link
  <2> DEFINE to  == [pos[t] EXCEPT !.step = "ask"]
             key == MyKeys[pos[t].key]
             u   == AskUtxos(key)
  <2>1. wire' = Append(wire, u) /\ Moves(t, to)
    BY <1>5 DEF Ask
  <2>2. to.key = pos[t].key /\ u.key = key /\ u \in Requests
    <3>1. \A S : pos[t] \in AtKey(S) => to.key = pos[t].key
      BY DEF AtKey
    <3>2. u.key = key /\ u \in Requests
      BY <1>1, AtAKey DEF AskUtxos, Requests
    <3> QED
      BY <1>1, <3>1, <3>2, AtAKey DEF Tasks
  <2> HIDE DEF to, u
  <2>3. pos'[t] = to /\ \A v \in Tasks : v # t => pos'[v] = pos[v]
    BY <2>1 DEF PlacesOK, Moves
  <2>4. MyKeys[pos'[t].key] = key
    BY <2>2, <2>3
  <2>5. \A i \in DOMAIN wire' : (i \in DOMAIN wire /\ wire'[i] = wire[i]) \/ wire'[i] = u
    BY <2>1, <2>2 DEF CallsOK
  <2>6. \A i \in DOMAIN wire' : wire'[i].ask = "utxos" => wire'[i].key = key
    <3> SUFFICES ASSUME NEW i \in DOMAIN wire', wire'[i].ask = "utxos"
                 PROVE  wire'[i].key = key
      OBVIOUS
    <3>1. wire'[i] = u
      BY <1>2, <2>5 DEF Calm
    <3> QED
      BY <2>2, <3>1
  <2>7. reply' = None
    BY <1>1, <1>2 DEF Calm
  <2> HIDE DEF key
  <2>8. \A v \in Tasks : pos'[v].step = "ask" => v = t
    BY <1>3, <2>3
  <2> QED
    BY <1>4, <2>4, <2>6, <2>7, <2>8 DEF AskedOK
<1>6. CASE ~link
  <2>1. Fetched(t, FALSE) /\ wire' = wire
    BY <1>6 DEF Ask
  <2>2. \A u \in Tasks : pos'[u].step # "ask"
    BY <1>1, <1>3, <2>1, FetchEnds
  <2> QED
    BY <1>4, <2>2 DEF AskedOK
<1> QED
  BY <1>5, <1>6

LEMMA TakeUtxosCopies ==
  ASSUME WalletInv, CopyOK, AskedOK, NEW t \in Tasks, TakeUtxos(t)
  PROVE  CopyOK' /\ AskedOK'
<1> USE DEF WalletInv
<1> DEFINE key == MyKeys[pos[t].key]
<1>1. /\ pos[t].step = "ask" /\ reply # None /\ reply' = None
      /\ utxos' = [utxos EXCEPT ![key] = reply.value]
      /\ wire' = wire
  BY DEF TakeUtxos, Step, Store
<1>2. reply.answer = "utxos"
  BY <1>1 DEF AnswersOK, PlacesOK, Tasks
<1>3. KeptApart(key, reply.value) /\ key \in Range(MyKeys)
  BY <1>1, <1>2, AtAKey DEF AskedOK
<1> HIDE DEF key
<1>4. CopyOK'
  <2> SUFFICES ASSUME NEW k \in Range(MyKeys) PROVE KeptApart(k, utxos'[k])
    BY DEF CopyOK, KeptApart
  <2>1. utxos'[k] = IF k = key THEN reply.value ELSE utxos[k]
    BY <1>1 DEF KeptOK
  <2> QED
    BY <1>3, <2>1 DEF CopyOK
<1>5. \A i \in DOMAIN wire : wire[i].ask # "utxos"
  BY <1>1 DEF AnswersOK
<1> QED
  BY <1>1, <1>4, <1>5 DEF AskedOK

(* Everybody else: no new request about the copy and no answer.            *)
LEMMA NextCopies ==
  ASSUME WalletInv, CopyOK, AskedOK, [WalletNext]_walletVars
  PROVE  CopyOK' /\ AskedOK'
<1> USE DEF WalletInv
<1> DEFINE Same  == UNCHANGED <<utxos, wire, reply>>
           Calls == \A i \in DOMAIN wire' : wire'[i].ask = "utxos" =>
                      \E j \in DOMAIN wire : wire[j] = wire'[i]
           Waits == \A t \in Tasks : pos'[t].step = "ask" => pos'[t] = pos[t]
<1>1. Same => Calls /\ utxos' = utxos /\ reply' \in {reply, None}
  OBVIOUS
<1>2. CASE pos' = pos /\ Same
  BY <1>1, <1>2, CopyStays
<1>3. CASE UNCHANGED walletVars \/ NodeStep \/ NodeSave
  <2>1. pos' = pos /\ Same
    BY <1>3 DEF walletVars, NodeStep, NodeSave, coreVars, callVars
  <2> QED
    BY <1>2, <2>1
<1>4. CASE NodeFault
  <2>1. pos' = pos /\ utxos' = utxos /\ wire' = <<>> /\ reply' \in {reply, None}
    BY <1>4 DEF NodeFault, coreVars
  <2>2. Calls
    BY <2>1
  <2> HIDE DEF Calls
  <2> QED
    BY <2>1, <2>2, CopyStays DEF Calls
<1>5. CASE \E order \in Orders : PayFromUi(order)
  <2>1. pos' = pos /\ Same
    BY <1>5 DEF PayFromUi, Creates, callVars
  <2> QED
    BY <1>2, <2>1
<1>6. CASE \E order \in Orders : Command(order)
  <2>1. PICK order \in Orders : Moves("pay", FetchFrom(1, order))
    BY <1>6 DEF Command
  <2>2. Same
    BY <1>6 DEF Command, coreVars, callVars
  <2>3. Waits
    BY <2>1 DEF PlacesOK, Moves, FetchFrom, Tasks
  <2> QED
    BY <1>1, <2>2, <2>3, CopyStays
<1>7. CASE PayFromCommand
  <2>1. PICK to \in {Gone, [step |-> "send"]} : Moves("pay", to)
    BY <1>7 DEF PayFromCommand
  <2>2. Same
    BY <1>7 DEF PayFromCommand, Creates, coreVars, callVars
  <2>3. to.step # "ask"
    BY DEF Gone
  <2>4. Waits
    BY <2>1, <2>3 DEF PlacesOK, Moves, Tasks
  <2> QED
    BY <1>1, <2>2, <2>4, CopyStays
<1>8. CASE UpdateTick
  <2>1. Moves("update", FetchFrom(1, NoOrder))
    BY <1>8 DEF UpdateTick
  <2>2. Same
    BY <1>8 DEF UpdateTick, coreVars, callVars
  <2>3. Waits
    BY <2>1 DEF PlacesOK, Moves, FetchFrom, Tasks
  <2> QED
    BY <1>1, <2>2, <2>3, CopyStays
<1>9. ASSUME NEW t \in Tasks, AskFails(t) PROVE CopyOK' /\ AskedOK'
  <2>1. pos[t].step = "ask" /\ Fetched(t, FALSE) /\ Same
    BY <1>9 DEF AskFails, Step, coreVars, callVars
  <2>2. Waits
    BY <2>1, FetchEnds
  <2> QED
    BY <1>1, <2>1, <2>2, CopyStays
<1>10. CASE SendTransaction
  <2>1. utxos' = utxos /\ reply' = reply
    BY <1>10 DEF SendTransaction
  <2>2. Waits
    <3>1. CASE Sent \/ SendFailed
      BY <3>1, SendEnds DEF Tasks
    <3>2. CASE Moves("pay", [step |-> "wait"])
      BY <3>2 DEF PlacesOK, Moves, Tasks
    <3> QED
      BY <1>10, <3>1, <3>2 DEF SendTransaction
  <2>3. Calls
    <3> DEFINE u == AskSubmit(Head(tx_queue))
    <3>1. wire' = Append(wire, u) \/ wire' = wire
      BY <1>10 DEF SendTransaction
    <3>2. u.ask = "submit"
      BY DEF AskSubmit
    <3> HIDE DEF u
    <3>3. \A i \in DOMAIN wire' : (i \in DOMAIN wire /\ wire'[i] = wire[i]) \/ wire'[i] = u
      BY <3>1 DEF CallsOK
    <3> QED
      BY <3>2, <3>3
  <2> HIDE DEF Calls, Waits
  <2> QED
    BY <2>1, <2>2, <2>3, CopyStays DEF Calls, Waits
<1>11. CASE TakeTaken \/ SubmitFails
  <2>1. /\ Sent \/ SendFailed
        /\ utxos' = utxos /\ wire' = wire /\ reply' \in {reply, None}
    BY <1>11 DEF TakeTaken, SubmitFails, coreVars, callVars
  <2>2. Waits
    BY <2>1, SendEnds DEF Tasks
  <2>3. Calls
    BY <2>1
  <2> HIDE DEF Calls, Waits
  <2> QED
    BY <2>1, <2>2, <2>3, CopyStays DEF Calls, Waits
<1> QED
  BY <1>3, <1>4, <1>5, <1>6, <1>7, <1>8, <1>9, <1>10, <1>11,
     FetchUtxosCopies, SubmitTransactionCopies, AskCopies, TakeUtxosCopies
  DEF WalletNext, Node, Fetch, Send

LEMMA NextPaid ==
  ASSUME WalletInv, CopyOK, PaidOK, [WalletNext]_walletVars
  PROVE  PaidOK'
<1> USE DEF WalletInv
<1>1. CASE made' = made
  BY <1>1 DEF PaidOK
<1>2. ASSUME NEW order \in Orders, Creates(order) PROVE PaidOK'
  <2>1. PICK tx \in Payments(order) : made' = made \cup {tx}
    BY <1>2 DEF Creates
  <2>2. WellMade(tx)
    BY <1>2, <2>1, PaymentWellMade DEF Creates
  <2> QED
    BY <2>1, <2>2 DEF PaidOK
<1>3. CASE PayFromCommand
  <2>1. CASE UNCHANGED coreVars
    BY <1>1, <2>1 DEF coreVars
  <2>2. CASE Creates(pos["pay"].order)
    <3>1. pos["pay"].step = "create"
      BY <1>3 DEF PayFromCommand, Step
    <3>2. pos["pay"].order \in Orders
      BY <3>1 DEF PlacesOK, Rest, Gone, AtKey
    <3> QED
      BY <1>2, <2>2, <3>2
  <2> QED
    BY <1>3, <2>1, <2>2 DEF PayFromCommand
<1>4. ASSUME NEW order \in Orders, PayFromUi(order) PROVE PaidOK'
  BY <1>2, <1>4 DEF PayFromUi
<1>5. ASSUME NEW order \in Orders, Command(order) PROVE made' = made
  BY <1>5 DEF Command, coreVars
<1>6. CASE UNCHANGED walletVars \/ Node \/ NodeStep \/ NodeSave \/ NodeFault \/ UpdateTick \/ Send
  BY <1>1, <1>6 DEF walletVars, Node, FetchUtxos, SubmitTransaction, NodeStep, NodeSave, NodeFault,
                    UpdateTick, Send, SendTransaction, TakeTaken, SubmitFails, coreVars
<1>7. ASSUME NEW t \in Tasks, Fetch(t) PROVE made' = made
  BY <1>7 DEF Fetch, Ask, TakeUtxos, AskFails, coreVars
<1> QED
  BY <1>1, <1>3, <1>4, <1>5, <1>6, <1>7 DEF WalletNext

LEMMA BlockIsSigned ==
  ASSUME NEW b \in Blocks, NEW h, NEW utxo, VerifyTransactions(b, h, utxo)
  PROVE  \A tx \in Range(b.transactions) : SignedByOwner(tx)
<1>1. b.transactions \in Seq(AllTxs) /\ b.transactions[1].inputs = <<>>
  BY VerifiedBlock
<1> SUFFICES ASSUME NEW k \in DOMAIN b.transactions PROVE SignedByOwner(b.transactions[k])
  BY DEF Range
<1>2. CASE k = 1
  BY <1>1, <1>2 DEF SignedByOwner
<1>3. CASE k # 1
  <2> SUFFICES ASSUME NEW i \in DOMAIN b.transactions[k].inputs
               PROVE  b.transactions[k].inputs[i].signature
                        = b.transactions[k].inputs[i].prev_tx_output_hash.pubkey
    BY DEF SignedByOwner
  <2>1. k \in 2..Len(b.transactions)
    BY <1>1, <1>3
  <2>2. <<k, i>> \in InputSlots(b)
    BY <2>1 DEF InputSlots
  <2>3. InputAt(b, <<k, i>>) = b.transactions[k].inputs[i]
    BY DEF InputAt
  <2> QED
    BY <2>2, <2>3 DEF VerifyTransactions
<1> QED
  BY <1>2, <1>3

LEMMA HistoryGrows ==
  ASSUME IInv, NEW b \in Minable, AddBlock(b), HistoryOK(blocks)
  PROVE  HistoryOK(blocks')
<1>1. /\ blocks' = Append(blocks, b) /\ b \in Blocks /\ blocks \in Seq(Blocks)
      /\ VerifyTransactions(b, Len(blocks), utxo_set)
  BY DEF AddBlock, Acceptable, IInv, TypeOK, Minable
<1>2. Confirmed(blocks') = Confirmed(blocks) \cup Range(b.transactions)
  <2>1. /\ DOMAIN blocks' = DOMAIN blocks \cup {Len(blocks) + 1}
        /\ blocks'[Len(blocks) + 1] = b /\ \A i \in DOMAIN blocks : blocks'[i] = blocks[i]
    BY <1>1
  <2> QED
    BY <2>1 DEF Confirmed
<1>3. \A tx \in Range(b.transactions) : SignedByOwner(tx)
  BY <1>1, BlockIsSigned
<1> QED
  BY <1>2, <1>3 DEF HistoryOK, Minable

LEMMA EmptyHistory == HistoryOK(<<>>)
BY DEF HistoryOK, Confirmed

LEMMA NextHistory ==
  ASSUME WalletInv, HistoryOK(blocks), HistoryOK(disk.blocks), [WalletNext]_walletVars
  PROVE  HistoryOK(blocks') /\ HistoryOK(disk'.blocks)
         /\ HistoryOK(blocks)' /\ HistoryOK(disk.blocks)'
<1> USE DEF WalletInv
<1>1. given \subseteq given'
  <2>1. CASE UNCHANGED walletVars \/ FetchUtxos \/ NodeStep \/ NodeSave \/ NodeFault
             \/ PayFromCommand \/ UpdateTick \/ Send
    BY <2>1 DEF walletVars, FetchUtxos, NodeStep, NodeSave, NodeFault, PayFromCommand, UpdateTick,
                Send, SendTransaction, TakeTaken, SubmitFails
  <2>2. CASE SubmitTransaction
    BY <2>2 DEF SubmitTransaction
  <2>3. ASSUME NEW order \in Orders, PayFromUi(order) \/ Command(order) PROVE given' = given
    BY <2>3 DEF PayFromUi, Command
  <2>4. ASSUME NEW t \in Tasks, Fetch(t) PROVE given' = given
    BY <2>4 DEF Fetch, Ask, TakeUtxos, AskFails
  <2> QED
    BY <2>1, <2>2, <2>3, <2>4 DEF WalletNext, Node
<1>2. \/ \E b \in Minable : AddBlock(b) /\ disk' = disk
      \/ blocks' = blocks /\ disk'.blocks = blocks
      \/ blocks' = disk.blocks /\ disk' = disk
      \/ blocks' = blocks /\ disk' = disk
  <2>1. CASE NodeStep
    BY <2>1 DEF NodeStep, AddBlock, Rebuild
  <2>2. CASE NodeSave \/ NodeFault
    BY <2>2 DEF NodeSave, NodeFault, Save, Restart
  <2>3. CASE SubmitTransaction
    BY <2>3 DEF SubmitTransaction, AddToMempool, vars
  <2>4. CASE UNCHANGED walletVars \/ FetchUtxos \/ PayFromCommand \/ UpdateTick \/ Send
    BY <2>4 DEF walletVars, vars, FetchUtxos, PayFromCommand, UpdateTick,
                Send, SendTransaction, TakeTaken, SubmitFails
  <2>5. ASSUME NEW order \in Orders, PayFromUi(order) \/ Command(order)
        PROVE  blocks' = blocks /\ disk' = disk
    BY <2>5 DEF PayFromUi, Command, vars
  <2>6. ASSUME NEW t \in Tasks, Fetch(t) PROVE blocks' = blocks /\ disk' = disk
    BY <2>6 DEF Fetch, Ask, TakeUtxos, AskFails, vars
  <2> QED
    BY <2>1, <2>2, <2>3, <2>4, <2>5, <2>6 DEF WalletNext, Node
<1>3. HistoryOK(blocks') /\ HistoryOK(disk'.blocks)
  BY <1>2, HistoryGrows
<1>4. HistoryOK(blocks)' /\ HistoryOK(disk.blocks)'
  BY <1>1, <1>3 DEF HistoryOK
<1> QED
  BY <1>3, <1>4

LEMMA InitPayInv == WalletInit => PayInv
<1> SUFFICES ASSUME WalletInit PROVE PayInv
  OBVIOUS
<1> USE DEF WalletInit
<1>1. CopyOK /\ AskedOK /\ PaidOK
  BY DEF CopyOK, KeptApart, AskedOK, PaidOK, Rest
<1>2. blocks = <<>> /\ disk.blocks = <<>>
  BY DEF Init, Absent
<1> QED
  BY <1>1, <1>2, EmptyHistory DEF PayInv

LEMMA NextPayInv == WalletInv /\ PayInv /\ [WalletNext]_walletVars => PayInv'
BY NextCopies, NextPaid, NextHistory DEF PayInv

-----------------------------------------------------------------------------
(* What the payments are worth                                             *)

LEMMA PaymentIsTaken ==
  ASSUME AmountsFit, WalletInv, PayInv, SupplyIsSubsidy
  PROVE  TakenUnlessGone
<1> USE DEF WalletInv, PayInv
<1> SUFFICES ASSUME NEW tx \in made, SpentBy(tx) \subseteq DOMAIN utxo_set
             PROVE  /\ InputsDiffer(tx) /\ ~Overspends(utxo_set, tx)
                    /\ \A i \in DOMAIN tx.inputs :
                         tx.inputs[i].signature = tx.inputs[i].prev_tx_output_hash.pubkey
  BY DEF TakenUnlessGone
<1>1. WellMade(tx) /\ tx \in AllTxs /\ FlatFee \in Nat
  BY WalletAssumption DEF PaidOK, KeptOK, AllTxs
<1>2. InputsDiffer(tx) /\ SignedByOwner(tx) /\ OutputSum(tx) + FlatFee = Sum(Worth, SpentBy(tx))
  BY <1>1 DEF WellMade
<1>3. Sum(Worth, DOMAIN utxo_set) < U64
  <2>1. UtxoIsUnspent /\ blocks \in Seq(Blocks)
    BY DEF IInv, TypeOK
  <2>2. Sum(Worth, DOMAIN utxo_set) = Sum(Subsidies, 1..Len(blocks)) /\ Len(blocks) \in Nat
    <3>1. SupplyOK(blocks)
      BY <2>1, SupplyAsSums
    <3>2. DOMAIN blocks = 1..Len(blocks) /\ Len(blocks) \in Nat
      BY <2>1
    <3> QED
      BY <2>1, <3>1, <3>2 DEF SupplyOK, UtxoIsUnspent
  <2> QED
    BY <2>2 DEF AmountsFit
<1>4. Sum(Worth, SpentBy(tx)) <= Sum(Worth, DOMAIN utxo_set)
  <2>1. IsFiniteSet(DOMAIN utxo_set) /\ DOMAIN utxo_set \subseteq AllOutputs
    BY UnspentFinite DEF IInv, TypeOK, UtxoIsUnspent
  <2>2. \A o \in DOMAIN utxo_set : Worth[o] \in Nat
    BY <2>1, AmountType
  <2> QED
    BY <2>1, <2>2, SumMonotone
<1>5. InputSum(utxo_set, tx) = Sum(Worth, SpentBy(tx))
  BY <1>1, <1>2, InputSumIs
<1>6. OutputSum(tx) \in Nat /\ Sum(Worth, SpentBy(tx)) \in Nat /\ Sum(Worth, DOMAIN utxo_set) \in Nat
  <2>1. \A o \in AllOutputs : Worth[o] \in Nat
    BY AmountType
  <2>2. IsFiniteSet(DOMAIN utxo_set) /\ DOMAIN utxo_set \subseteq AllOutputs
    BY UnspentFinite DEF IInv, TypeOK, UtxoIsUnspent
  <2>3. OutputSum(tx) \in Nat
    BY <1>1, <2>1, OutputSumIs, SumNat
  <2>4. Sum(Worth, SpentBy(tx)) \in Nat
    <3>1. IsFiniteSet(SpentBy(tx)) /\ SpentBy(tx) \subseteq AllOutputs
      BY <1>1, <1>2, InputSumIs
    <3>2. \A o \in SpentBy(tx) : Worth[o] \in Nat
      BY <2>1, <3>1
    <3> QED
      BY <3>1, <3>2, SumNat
  <2>5. Sum(Worth, DOMAIN utxo_set) \in Nat
    <3>1. \A o \in DOMAIN utxo_set : Worth[o] \in Nat
      BY <2>1, <2>2
    <3> QED
      BY <2>2, <3>1, SumNat
  <2> QED
    BY <2>3, <2>4, <2>5
<1> DEFINE in  == InputSum(utxo_set, tx)
           out == OutputSum(tx)
<1>7. in \in 0..(U64 - 1) /\ out \in 0..(U64 - 1) /\ in >= out
  <2>1. U64 \in Nat \ {0}
    BY NumbersAssumption
  <2> QED
    BY <1>1, <1>2, <1>3, <1>4, <1>5, <1>6, <2>1
<1> HIDE DEF in, out
<1>8. Wrap(in) = in /\ Wrap(out) = out
  BY <1>7, NotWrapped
<1>9. ~Overspends(utxo_set, tx)
  BY <1>7, <1>8 DEF Overspends, in, out
<1> QED
  BY <1>2, <1>9 DEF SignedByOwner

(* An amount is a sum of worths.                                           *)
LEMMA AmountIs ==
  ASSUME NEW S \in SUBSET AllOutputs, IsFiniteSet(S)
  PROVE  Amount(S) = Sum(Worth, S)
<1> DEFINE f == [o \in S |-> o.amount]
<1>1. Amount(S) = Sum(f, S)
  BY DEF Amount, MapThenSumSet, MapThenFoldSet, Sum
<1>2. \A o \in S : f[o] = Worth[o] /\ f[o] \in Int
  BY AmountType
<1> HIDE DEF f
<1> QED
  BY <1>1, <1>2, SumSame

(* What the payments on the chain cost.                                    *)
Spends(tx) == tx.outputs[1].amount + FlatFee
LEMMA CostIs ==
  ASSUME NEW M
  PROVE  MapThenSumSet(LAMBDA tx : tx.outputs[1].amount + FlatFee, M)
           = Sum([tx \in M |-> Spends(tx)], M)
BY DEF MapThenSumSet, MapThenFoldSet, Sum, Spends

(* One payment takes from the wallet what it pays and the fee.             *)
LEMMA PaymentCosts ==
  ASSUME NEW tx \in AllTxs, WellMade(tx)
  PROVE  /\ IsFiniteSet(SpentBy(tx)) /\ SpentBy(tx) \subseteq AllOutputs
         /\ IsFiniteSet(Change(tx)) /\ Change(tx) \subseteq AllOutputs
         /\ MineOf(CreatedBy(tx)) = Change(tx)
         /\ Sum(Worth, SpentBy(tx)) \in Int /\ Sum(Worth, Change(tx)) \in Int
         /\ Spends(tx) = Sum(Worth, SpentBy(tx)) - Sum(Worth, Change(tx))
<1> DEFINE o   == tx.outputs[1]
           all == [p \in SpentBy(tx) |-> TRUE]
<1>1. /\ InputsDiffer(tx) /\ OutputSum(tx) + FlatFee = Sum(Worth, SpentBy(tx))
      /\ o \in CreatedBy(tx) /\ o.pubkey \notin Range(MyKeys)
      /\ \A p \in Change(tx) : p.pubkey \in Range(MyKeys)
  BY DEF WellMade
<1>2. IsFiniteSet(SpentBy(tx)) /\ SpentBy(tx) \subseteq AllOutputs
  <2>1. SpentBy(tx) \subseteq DOMAIN all
    OBVIOUS
  <2> HIDE DEF all
  <2> QED
    BY <1>1, <2>1, InputSumIs
<1>3. /\ IsFiniteSet(CreatedBy(tx)) /\ CreatedBy(tx) \subseteq AllOutputs
      /\ OutputSum(tx) = Sum(Worth, CreatedBy(tx))
  BY OutputSumIs
<1>4. IsFiniteSet(Change(tx)) /\ Change(tx) \subseteq AllOutputs
  BY <1>3, FS_Subset DEF Change
<1>5. MineOf(CreatedBy(tx)) = Change(tx)
  BY <1>1 DEF MineOf, Change
<1>6. \A S \in SUBSET AllOutputs : IsFiniteSet(S) => Sum(Worth, S) \in Int
  <2> SUFFICES ASSUME NEW S \in SUBSET AllOutputs, IsFiniteSet(S) PROVE Sum(Worth, S) \in Int
    OBVIOUS
  <2>1. \A p \in S : Worth[p] \in Int
    BY AmountType
  <2> QED
    BY <2>1, SumRemoves
<1>7. Sum(Worth, CreatedBy(tx)) = Worth[o] + Sum(Worth, Change(tx))
  <2>1. \A p \in CreatedBy(tx) : Worth[p] \in Int
    BY <1>3, AmountType
  <2> QED
    BY <1>1, <1>3, <2>1, SumRemoves DEF Change
<1>8. Worth[o] = o.amount /\ o.amount \in Int
  BY <1>1, <1>3, AmountType
<1>9. FlatFee \in Int
  BY WalletAssumption
<1>10. Sum(Worth, SpentBy(tx)) \in Int /\ Sum(Worth, Change(tx)) \in Int
  BY <1>2, <1>4, <1>6
<1>11. Spends(tx) = o.amount + FlatFee
  BY DEF Spends
<1> HIDE DEF o
<1>12. Spends(tx) = Sum(Worth, SpentBy(tx)) - Sum(Worth, Change(tx))
  <2> DEFINE spent == Sum(Worth, SpentBy(tx))
             kept  == Sum(Worth, Change(tx))
             sum   == OutputSum(tx)
  <2>1. sum + FlatFee = spent /\ sum = o.amount + kept /\ spent \in Int /\ kept \in Int
    BY <1>1, <1>3, <1>7, <1>8, <1>10
  <2> HIDE DEF spent, kept, sum
  <2>2. o.amount + FlatFee = spent - kept
    BY <1>8, <1>9, <2>1
  <2> QED
    BY <1>11, <2>2 DEF spent, kept
<1> QED
  BY <1>2, <1>4, <1>5, <1>10, <1>12

LEMMA PaymentsAddUp ==
  ASSUME WalletInv, PayInv
  PROVE  PaysExactly
<1> USE DEF WalletInv, PayInv
<1> DEFINE C    == Confirmed(blocks)
           M    == made \cap C
           Inc  == MineOf(Incomes)
           keep == [tx \in M |-> Change(tx)]
           take == [tx \in M |-> SpentBy(tx)]
           Kept == UNION {keep[tx] : tx \in M}
           Gave == UNION {take[tx] : tx \in M}
           kept == [tx \in M |-> Sum(Worth, Change(tx))]
           gave == [tx \in M |-> Sum(Worth, SpentBy(tx))]
           cost == [tx \in M |-> Spends(tx)]
<1>1. /\ blocks \in Seq(Blocks) /\ ChainOK(blocks)
      /\ DOMAIN utxo_set = Unspent(blocks)
  BY DEF IInv, TypeOK, UtxoIsUnspent
<1>2. IsFiniteSet(C) /\ C \subseteq AllTxs /\ IsFiniteSet(M) /\ M \subseteq AllTxs
  BY <1>1, ConfirmedFinite, FS_Subset
<1>3. \A tx \in M : WellMade(tx)
  BY DEF PaidOK
<1>4. \A o \in AllOutputs : Worth[o] \in Int
  BY AmountType
(* An output of the wallet that was spent, the wallet has spent.           *)
<1>5. ASSUME NEW tx \in C, NEW o \in SpentBy(tx), o.pubkey \in Range(MyKeys)
      PROVE  tx \in M
  <2>1. PICK i \in DOMAIN tx.inputs : tx.inputs[i].prev_tx_output_hash = o
    BY DEF SpentBy
  <2>2. tx.inputs[i].signature \in Range(MyKeys)
    BY <1>5, <2>1 DEF HistoryOK, SignedByOwner
  <2>3. tx \in Txs
    BY <1>2, <2>2, WalletAssumption
  <2> QED
    BY <2>3 DEF HistoryOK, KeptOK
(* The wallet's coins on the chain.                                        *)
<1>6. MineOf(DOMAIN utxo_set) = (Inc \cup Kept) \ Gave
  <2>1. ASSUME NEW o \in MineOf(DOMAIN utxo_set) PROVE o \in (Inc \cup Kept) \ Gave
    <3>1. o \in Unspent(blocks) /\ o.pubkey \in Range(MyKeys)
      BY <1>1 DEF MineOf
    <3>2. PICK p \in Positions(blocks) : o \in CreatedBy(TxAt(blocks, p))
      BY <3>1, UnspentIsCreated
    <3>3. TxAt(blocks, p) \in C
      BY <1>1, TxAtType
    <3>4. o \in Inc \cup Kept
      <4>1. CASE TxAt(blocks, p) \in made
        <5>1. TxAt(blocks, p) \in M /\ WellMade(TxAt(blocks, p))
          BY <1>3, <3>3, <4>1
        <5>2. o \in Change(TxAt(blocks, p))
          BY <3>1, <3>2, <5>1 DEF WellMade, Change
        <5> QED
          BY <5>1, <5>2
      <4>2. CASE TxAt(blocks, p) \notin made
        <5>1. o \in Incomes
          BY <3>2, <3>3, <4>2 DEF Incomes
        <5> QED
          BY <3>1, <5>1 DEF MineOf
      <4> QED
        BY <4>1, <4>2
    <3>5. o \notin Gave
      <4> SUFFICES ASSUME NEW tx \in M, o \in SpentBy(tx) PROVE FALSE
        OBVIOUS
      <4>1. PICK q \in Positions(blocks) : tx = TxAt(blocks, q)
        BY ConfirmedAt
      <4> QED
        BY <1>1, <3>1, <4>1, SpentIsNotUnspent
    <3> QED
      BY <3>4, <3>5
  <2>2. ASSUME NEW o \in Inc \cup Kept, o \notin Gave PROVE o \in MineOf(DOMAIN utxo_set)
    <3>1. PICK tx \in C : o \in CreatedBy(tx)
      BY <2>2 DEF MineOf, Incomes, Change
    <3>2. o.pubkey \in Range(MyKeys)
      BY <1>3, <2>2 DEF MineOf, WellMade
    <3>3. PICK p \in Positions(blocks) : tx = TxAt(blocks, p)
      BY ConfirmedAt
    <3>4. \A q \in Positions(blocks) : o \notin SpentBy(TxAt(blocks, q))
      <4> SUFFICES ASSUME NEW q \in Positions(blocks), o \in SpentBy(TxAt(blocks, q)) PROVE FALSE
        OBVIOUS
      <4>1. TxAt(blocks, q) \in C
        BY <1>1, TxAtType
      <4>2. TxAt(blocks, q) \in M
        BY <1>5, <3>2, <4>1
      <4> QED
        BY <2>2, <4>2
    <3>5. o \in Unspent(blocks)
      BY <3>1, <3>3, <3>4 DEF Unspent
    <3> QED
      BY <1>1, <3>2, <3>5 DEF MineOf
  <2> QED
    BY <2>1, <2>2
(* What they gave away they had.                                           *)
<1>7. Gave \subseteq Inc \cup Kept
  <2> SUFFICES ASSUME NEW tx \in M, NEW o \in SpentBy(tx) PROVE o \in Inc \cup Kept
    OBVIOUS
  <2>1. PICK q \in Positions(blocks) : tx = TxAt(blocks, q)
    BY ConfirmedAt
  <2>2. PICK p \in Positions(blocks) : o \in CreatedBy(TxAt(blocks, p))
    BY <1>1, <2>1 DEF ChainOK, SpendsEarlier
  <2>3. TxAt(blocks, p) \in C /\ o.pubkey \in Range(MyKeys)
    BY <1>1, <1>3, TxAtType DEF WellMade
  <2>4. CASE TxAt(blocks, p) \in made
    <3>1. TxAt(blocks, p) \in M /\ WellMade(TxAt(blocks, p))
      BY <1>3, <2>3, <2>4
    <3>2. o \in Change(TxAt(blocks, p))
      BY <2>2, <2>3, <3>1 DEF WellMade, Change
    <3> QED
      BY <3>1, <3>2
  <2>5. CASE TxAt(blocks, p) \notin made
    <3>1. o \in Incomes
      BY <2>2, <2>3, <2>5 DEF Incomes
    <3> QED
      BY <2>3, <3>1 DEF MineOf
  <2> QED
    BY <2>4, <2>5
<1>8. Inc \cap Kept = {}
  <2> SUFFICES ASSUME NEW o \in Inc, NEW tx \in M, o \in Change(tx) PROVE FALSE
    OBVIOUS
  <2>1. PICK u \in C \ made : o \in CreatedBy(u)
    BY DEF MineOf, Incomes
  <2>2. o \in CreatedBy(tx) /\ tx # u /\ tx \in AllTxs /\ u \in AllTxs
    BY <1>2, <2>1 DEF Change
  <2> QED
    BY <2>1, <2>2, OutputsAssumption
<1>9. IsFiniteSet(Inc) /\ Inc \subseteq AllOutputs
  <2> DEFINE made_by == [tx \in C \ made |-> CreatedBy(tx)]
  <2>1. made_by \in Surjection(C \ made, Range(made_by))
    BY DEF Range, Surjection
  <2>2. IsFiniteSet(C \ made)
    BY <1>2, FS_Subset
  <2>3. IsFiniteSet(Range(made_by))
    <3> HIDE DEF made_by, C
    <3> QED
      BY <2>1, <2>2, FS_Surjection
  <2>4. \A T \in Range(made_by) : IsFiniteSet(T) /\ T \subseteq AllOutputs
    BY <1>2, OutputSumIs DEF Range
  <2>5. Incomes = UNION Range(made_by)
    BY DEF Incomes, Range
  <2>6. Inc \subseteq Incomes
    BY DEF MineOf
  <2> HIDE DEF made_by, C, Inc
  <2> QED
    <3>1. IsFiniteSet(Incomes) /\ Incomes \subseteq AllOutputs
      BY <2>3, <2>4, <2>5, FS_UNION
    <3> QED
      BY <2>6, <3>1, FS_Subset
(* The sums, payment by payment.                                           *)
<1>10. ASSUME NEW tx \in M
       PROVE  /\ IsFiniteSet(SpentBy(tx)) /\ SpentBy(tx) \subseteq AllOutputs
              /\ IsFiniteSet(Change(tx)) /\ Change(tx) \subseteq AllOutputs
              /\ Sum(Worth, SpentBy(tx)) \in Int /\ Sum(Worth, Change(tx)) \in Int
              /\ Spends(tx) = Sum(Worth, SpentBy(tx)) - Sum(Worth, Change(tx))
  BY <1>2, <1>3, PaymentCosts
<1>11. IsFiniteSet(Kept) /\ Sum(Worth, Kept) = Sum(kept, M)
  <2>1. \A tx \in M : IsFiniteSet(keep[tx]) /\ \A o \in keep[tx] : Worth[o] \in Int
    BY <1>4, <1>10
  <2>2. \A tx, u \in M : tx # u => keep[tx] \cap keep[u] = {}
    BY <1>2, OutputsAssumption DEF Change
  <2>3. \A tx \in M : kept[tx] = Sum(Worth, keep[tx])
    OBVIOUS
  <2>4. Kept = UNION {keep[tx] : tx \in M}
    OBVIOUS
  <2>5. IsFiniteSet(M)
    BY <1>2
  <2> HIDE DEF keep, kept, Kept, M
  <2>6. Family(M, keep, Worth, kept, Kept)
    BY <2>1, <2>2, <2>3, <2>4, <2>5 DEF Family
  <2> QED
    BY <2>6, SumFamily
<1>12. IsFiniteSet(Gave) /\ Sum(Worth, Gave) = Sum(gave, M)
  <2>1. \A tx \in M : IsFiniteSet(take[tx]) /\ \A o \in take[tx] : Worth[o] \in Int
    BY <1>4, <1>10
  <2>2. \A tx, u \in M : tx # u => take[tx] \cap take[u] = {}
    <3> SUFFICES ASSUME NEW tx \in M, NEW u \in M, tx # u
                 PROVE  SpentBy(tx) \cap SpentBy(u) = {}
      OBVIOUS
    <3>1. PICK p \in Positions(blocks) : tx = TxAt(blocks, p)
      BY ConfirmedAt
    <3>2. PICK q \in Positions(blocks) : u = TxAt(blocks, q)
      BY ConfirmedAt
    <3> QED
      BY <1>1, <3>1, <3>2 DEF ChainOK, SpendsOnce
  <2>3. \A tx \in M : gave[tx] = Sum(Worth, take[tx])
    OBVIOUS
  <2>4. Gave = UNION {take[tx] : tx \in M}
    OBVIOUS
  <2>5. IsFiniteSet(M)
    BY <1>2
  <2> HIDE DEF take, gave, Gave, M
  <2>6. Family(M, take, Worth, gave, Gave)
    BY <2>1, <2>2, <2>3, <2>4, <2>5 DEF Family
  <2> QED
    BY <2>6, SumFamily
<1>13. Kept \subseteq AllOutputs
  BY <1>10
<1>14. \A tx \in M : gave[tx] \in Int /\ kept[tx] \in Int /\ cost[tx] = gave[tx] - kept[tx]
  BY <1>10
<1>15. MineOf(DOMAIN utxo_set) \subseteq AllOutputs /\ IsFiniteSet(MineOf(DOMAIN utxo_set))
  BY <1>1, UnspentFinite, FS_Subset DEF MineOf, IInv, TypeOK
<1>16. Amount(MineOf(DOMAIN utxo_set)) = Sum(Worth, MineOf(DOMAIN utxo_set))
       /\ Amount(Inc) = Sum(Worth, Inc)
  <2> HIDE DEF Inc
  <2> QED
    BY <1>9, <1>15, AmountIs
<1>17. MapThenSumSet(LAMBDA tx : tx.outputs[1].amount + FlatFee, M) = Sum(cost, M)
  <2> HIDE DEF M
  <2> QED
    BY CostIs DEF cost
<1>18. PaysExactly <=>
         Amount(MineOf(DOMAIN utxo_set))
           = Amount(Inc) - MapThenSumSet(LAMBDA tx : tx.outputs[1].amount + FlatFee, M)
  BY DEF PaysExactly
<1> DEFINE A == MineOf(DOMAIN utxo_set)
           U == Inc \cup Kept
<1> HIDE DEF Inc, Kept, Gave, kept, gave, cost, keep, take, M, C
<1>19. Sum(cost, M) = Sum(gave, M) - Sum(kept, M)
  BY <1>2, <1>14, SumMinus
<1>20. IsFiniteSet(U) /\ \A o \in U : Worth[o] \in Int
  BY <1>4, <1>9, <1>11, <1>13, FS_Union
<1>21. Sum(Worth, U) = Sum(Worth, Inc) + Sum(Worth, Kept)
  BY <1>8, <1>9, <1>11, <1>20, SumUnion
<1>22. Sum(Worth, U \ Gave) = Sum(Worth, U) - Sum(Worth, Gave)
  BY <1>7, <1>20, SumDifference
<1>23. Sum(Worth, Inc) \in Int /\ Sum(Worth, Kept) \in Int /\ Sum(Worth, Gave) \in Int
  <2>1. \A o \in Inc : Worth[o] \in Int
    BY <1>4, <1>9
  <2>2. \A o \in Kept : Worth[o] \in Int
    BY <1>4, <1>13
  <2>3. \A o \in Gave : Worth[o] \in Int
    BY <1>7, <1>20
  <2>4. Sum(Worth, Inc) \in Int
    BY <1>9, <2>1, SumRemoves
  <2>5. Sum(Worth, Kept) \in Int
    BY <1>11, <2>2, SumRemoves
  <2>6. Sum(Worth, Gave) \in Int
    BY <1>12, <2>3, SumRemoves
  <2> QED
    BY <2>4, <2>5, <2>6
<1>24. A = U \ Gave
  BY <1>6
<1> HIDE DEF A, U
<1>25. Sum(Worth, A) = Sum(Worth, Inc) - Sum(cost, M)
  <2>1. Sum(Worth, A) = Sum(Worth, Inc) + Sum(Worth, Kept) - Sum(Worth, Gave)
    BY <1>21, <1>22, <1>23, <1>24
  <2>2. Sum(cost, M) = Sum(Worth, Gave) - Sum(Worth, Kept)
    BY <1>11, <1>12, <1>19
  <2> QED
    BY <1>23, <2>1, <2>2
<1> QED
  BY <1>16, <1>17, <1>18, <1>25 DEF A

-----------------------------------------------------------------------------
(* The theorems *)

LEMMA InitWalletInv == WalletInit => WalletInv
<1> SUFFICES ASSUME WalletInit PROVE WalletInv
  OBVIOUS
<1> USE DEF WalletInit
<1>1. IInv
  BY InitIInv
<1>2. KeptOK
  <2>1. <<>> \in Seq(Coins) /\ <<>> \in Seq(made)
    OBVIOUS
  <2> QED
    BY <2>1 DEF KeptOK
<1>3. PlacesOK
  BY DEF PlacesOK, Tasks, Rest
<1>4. CallsOK
  <2>1. <<tcp, cli>> \in Setups
    <3>1. PICK s \in Setups : tcp = s[1] /\ cli = s[2]
      OBVIOUS
    <3>2. s = <<s[1], s[2]>>
      BY <3>1, WalletAssumption
    <3> QED
      BY <3>1, <3>2
  <2>2. <<>> \in Seq(Requests)
    OBVIOUS
  <2>3. 0 \in 0..MaxFaults
    BY WalletAssumption
  <2> QED
    BY <2>1, <2>2, <2>3 DEF CallsOK
<1>5. AnswersOK
  BY DEF AnswersOK
<1> QED
  BY <1>1, <1>2, <1>3, <1>4, <1>5 DEF WalletInv

LEMMA NextWalletInv == WalletInv /\ [WalletNext]_walletVars => WalletInv'
<1> SUFFICES ASSUME WalletInv, [WalletNext]_walletVars PROVE WalletInv'
  OBVIOUS
<1>1. IInv'
  BY NodeMoves, NextIInv DEF WalletInv
<1> SUFFICES ClientInv'
  BY <1>1 DEF WalletInv, ClientInv
<1>2. ClientInv
  BY DEF WalletInv, ClientInv
<1>3. CASE UNCHANGED walletVars
  BY <1>2, <1>3, ClientStays DEF walletVars
<1>4. CASE Node
  BY <1>4, FetchUtxosKeeps, SubmitTransactionKeeps DEF Node
<1>5. CASE NodeStep \/ NodeSave
  BY <1>2, <1>5, ClientStays DEF NodeStep, NodeSave
<1>6. CASE NodeFault
  BY <1>6, NodeFaultKeeps
<1>7. CASE \E order \in Orders : PayFromUi(order) \/ Command(order)
  BY <1>7, PayFromUiKeeps, CommandKeeps
<1>8. CASE PayFromCommand \/ UpdateTick
  BY <1>8, PayFromCommandKeeps, UpdateTickKeeps
<1>9. CASE \E t \in Tasks : Fetch(t)
  BY <1>9, AskKeeps, TakeUtxosKeeps, AskFailsKeeps DEF Fetch
<1>10. CASE Send
  BY <1>10, SendTransactionKeeps, TakeTakenKeeps, SubmitFailsKeeps DEF Send
<1> QED
  BY <1>3, <1>4, <1>5, <1>6, <1>7, <1>8, <1>9, <1>10 DEF WalletNext

(* wallet/src/core.rs:158-174, tasks.rs: both tasks share one connection,  *)
(* and answers, requests and the connection itself are lost: an answer is  *)
(* never taken for another question, and what waits the wallet has made.   *)
THEOREM WalletTypes == WalletSpec => []WalletTypeOK
<1>1. WalletInv => WalletTypeOK
  BY WalletInvTypes
<1> QED
  BY <1>1, InitWalletInv, NextWalletInv, PTL DEF WalletSpec

(* node/src/grpc/wallet_api.rs:21-93: the node that serves a wallet is a   *)
(* node of Blockchain, so all that is proved of that holds of it.          *)
THEOREM WalletNodeIsNode == WalletSpec => Spec
<1>1. WalletInit => Init
  BY DEF WalletInit
<1> QED
  BY <1>1, InitWalletInv, NextWalletInv, NodeMoves, PTL DEF WalletSpec, Spec

(* wallet/src/core.rs:266-343: the inductive invariant of the payments.    *)
(* The copy holds outputs of the key it is kept under, each once, however  *)
(* old it is; so a payment spends different outputs of the wallet, signed  *)
(* with their keys, and keeps all it does not pay but the fee.             *)
THEOREM PaymentsInvariant == WalletSpec => [](WalletInv /\ PayInv)
BY InitWalletInv, NextWalletInv, InitPayInv, NextPayInv, PTL DEF WalletSpec

(* wallet/src/core.rs:266-343: whatever happened to the node since the     *)
(* copy was fetched, a payment all of whose inputs are still there is one  *)
(* the node and every block can take.  The supply bounds what a payment    *)
(* can spend, so nothing wraps.                                            *)
THEOREM PaymentsAreGood == AmountsFit => (WalletSpec => []TakenUnlessGone)
<1> SUFFICES ASSUME AmountsFit PROVE WalletSpec => []TakenUnlessGone
  OBVIOUS
<1>1. WalletSpec => []SupplyIsSubsidy
  BY WalletNodeIsNode, SupplyCorrect
<1>2. WalletInv /\ PayInv /\ SupplyIsSubsidy => TakenUnlessGone
  BY PaymentIsTaken
<1> QED
  BY <1>1, <1>2, PaymentsInvariant, PTL

(* wallet/src/core.rs:266-343: through blocks, stale copies, lost answers  *)
(* and restarts of the node, the wallet's coins are its incomes less what  *)
(* its confirmed payments pay and one fee for each.                        *)
THEOREM WalletPaysExactly == WalletSpec => []PaysExactly
BY PaymentsAddUp, PaymentsInvariant, PTL
=============================================================================
