---------------------------- MODULE GossipProofs ----------------------------
(***************************************************************************)
(* Theorems about Gossip.                                                  *)
(***************************************************************************)
EXTENDS Gossip, ReplicaProofs

(* The parts of the inductive invariant.  Chains:                          *)
ChainsOK ==
  /\ chain \in [Node -> Seq(Blocks)] /\ pool \in [Node -> SUBSET Txs]
  /\ found \subseteq Items /\ faults \in 0..MaxFaults /\ renewing \in [Node -> BOOLEAN]

(* Whom a node is connected to, and what it asks them:                     *)
NodesOK ==
  /\ status \in [Node -> {"down", "starting", "up"}]
  /\ nodes \in [Node -> SUBSET Node] /\ \A n \in Node : n \notin nodes[n]
  /\ sync \in [Node -> Sync] /\ \A n \in Node : sync[n].todo \subseteq nodes[n]
  /\ joining \in [Node -> SUBSET Node] /\ \A n \in Node : joining[n] \subseteq nodes[n]

(* The streams, of which both ends are at nodes that are connected:        *)
LinksOK ==
  /\ subscribers \in [Node -> SUBSET Node] /\ \A n \in Node : n \notin subscribers[n]
  /\ listens \in [Node -> SUBSET Node] /\ \A n \in Node : listens[n] \subseteq nodes[n]
  /\ stream \in [Node -> [Node -> Seq(Items)]]
  /\ \A n, p \in Node : stream[n][p] # <<>> => n \in listens[p]

Pairs(S) == [Node -> [Node -> S]]

(* What there is room for on the way, and what forward tasks have left:    *)
RoomOK ==
  /\ unsent \in Pairs(0..2) /\ removing \in Pairs(Nat)
  /\ \A n, p \in Node :
       Len(stream[n][p]) <= Capacity /\ (n \in listens[p] => unsent[n][p] = 0)

SendingOK == sending \in [Node -> [Node -> Broadcast \cup {None}]]

(* A node that is not up yet has nothing to do with the others but what    *)
(* its first synchronization needs, and one that is down not even this.    *)
QuietOK ==
  \A n \in Node : ~Up(n) =>
    /\ subscribers[n] = {} /\ listens[n] = {} /\ joining[n] = {}
    /\ \A s \in Node : sending[n][s] = None
    /\ status[n] = "down" => nodes[n] = {} /\ sync[n] = Idle

GossipInv == ChainsOK /\ NodesOK /\ LinksOK /\ SendingOK /\ QuietOK

LEMMA GossipInvTypes == GossipInv /\ RoomOK => GossipTypeOK
BY DEF GossipInv, RoomOK, Pairs, ChainsOK, NodesOK, LinksOK, SendingOK, QuietOK, GossipTypeOK, Up

-----------------------------------------------------------------------------
(* Chains *)

Grows   == \E n \in Node : \E b \in Blocks : Extends(n, b) /\ Adds(n, b)
Shrinks == \E n \in Node : LeavesSaved(n)

LEMMA AddsTypes ==
  ASSUME ChainsOK, NEW n \in Node, NEW b \in Blocks, Adds(n, b)
  PROVE  chain' \in [Node -> Seq(Blocks)] /\ pool' \in [Node -> SUBSET Txs]
BY DEF ChainsOK, Adds

LEMMA LeavesSavedTypes ==
  ASSUME ChainsOK, NEW n \in Node, LeavesSaved(n)
  PROVE  chain' \in [Node -> Seq(Blocks)]
<1>1. PICK k \in 0..Len(chain[n]) : chain' = [chain EXCEPT ![n] = SubSeq(@, 1, k)]
  BY DEF LeavesSaved
<1>2. SubSeq(chain[n], 1, k) \in Seq(Blocks)
  BY DEF ChainsOK
<1> QED
  BY <1>1, <1>2 DEF ChainsOK

(* What a node is sent when it synchronizes are blocks.                    *)
LEMMA MissingBlocks ==
  ASSUME NEW S, NEW theirs \in Seq(S), NEW have \in Nat, NEW need \in Nat
  PROVE  Missing(theirs, have, need) \in Seq(S)
<1> DEFINE k == Min({have + need, Len(theirs)})
<1>1. Len(theirs) \in Nat
  OBVIOUS
<1>2. k \in Nat /\ k <= Len(theirs)
  <2>1. \E x \in {have + need, Len(theirs)} : \A y \in {have + need, Len(theirs)} : x <= y
    BY <1>1
  <2>2. /\ k \in {have + need, Len(theirs)}
        /\ \A y \in {have + need, Len(theirs)} : k <= y
    BY <2>1 DEF Min
  <2> QED
    BY <1>1, <2>2
<1> HIDE DEF k
<1>3. SubSeq(theirs, have + 1, k) \in Seq(S)
  BY <1>2
<1> QED
  BY <1>3 DEF Missing, k

LEMMA FailsOrFinishes ==
  ASSUME GossipInv, NEW n \in Node, Fails(n) \/ Finishes(n), sync[n].at # "idle",
         UNCHANGED <<linkVars, sending, renewing, found, faults>>
  PROVE  GossipInv'
<1>1. Idle \in Sync /\ Idle.todo = {}
  BY DEF Idle, Sync
<1>2. status[n] # "down"
  BY DEF GossipInv, QuietOK, NodesOK, Idle, Up
<1> USE DEF linkVars, chainVars
<1>3. ChainsOK'
  BY LeavesSavedTypes DEF GossipInv, ChainsOK, Fails, Finishes
<1>4. CASE Finishes(n)
  <2>1. NodesOK'
    BY <1>1, <1>4 DEF GossipInv, NodesOK, Finishes, Up
  <2>2. LinksOK' /\ SendingOK'
    BY <1>4 DEF GossipInv, LinksOK, SendingOK, Finishes
  <2>3. QuietOK'
    BY <1>4 DEF GossipInv, QuietOK, NodesOK, Finishes, Up
  <2> QED
    BY <1>3, <2>1, <2>2, <2>3 DEF GossipInv
<1>5. CASE Fails(n) /\ Up(n)
  <2>1. NodesOK'
    BY <1>1, <1>5 DEF GossipInv, NodesOK, Fails
  <2>2. LinksOK' /\ SendingOK'
    BY <1>5 DEF GossipInv, LinksOK, SendingOK, Fails
  <2>3. QuietOK'
    BY <1>5 DEF GossipInv, QuietOK, NodesOK, Fails, Up
  <2> QED
    BY <1>3, <2>1, <2>2, <2>3 DEF GossipInv
<1>6. CASE Fails(n) /\ ~Up(n)
  <2>1. NodesOK'
    BY <1>1, <1>6 DEF GossipInv, NodesOK, QuietOK, Fails
  <2>2. listens[n] = {} /\ \A p \in Node : p # n => nodes'[p] = nodes[p]
    BY <1>6 DEF GossipInv, QuietOK, NodesOK, Fails
  <2>3. \A p \in Node : listens[p] \subseteq nodes'[p]
    BY <2>2 DEF GossipInv, LinksOK
  <2>4. LinksOK'
    BY <2>3 DEF GossipInv, LinksOK
  <2>5. SendingOK' 
    BY DEF GossipInv, SendingOK
  <2>6. QuietOK'
    BY <1>6 DEF GossipInv, QuietOK, NodesOK, Fails, Up
  <2> QED
    BY <1>3, <2>1, <2>4, <2>5, <2>6 DEF GossipInv
<1> QED
  BY <1>4, <1>5, <1>6

-----------------------------------------------------------------------------
(* Broadcasting *)

LEMMA BroadcastsTypes ==
  ASSUME SendingOK, NEW n \in Node, NEW item \in Items, NEW source \in Node,
         subscribers[n] \subseteq Node, Broadcasts(n, item, source)
  PROVE  /\ SendingOK'
         /\ \A p \in Node, s \in Node : p # n => sending'[p][s] = sending[p][s]
<1> DEFINE hand == IF subscribers[n] \ {source} = {} THEN None
                   ELSE [item |-> item, left |-> subscribers[n] \ {source}, at |-> None]
<1>1. hand \in Broadcast \cup {None}
  BY DEF Broadcast
<1>2. sending' = [sending EXCEPT ![n][source] = hand]
  BY DEF Broadcasts
<1> HIDE DEF hand
<1> QED
  BY <1>1, <1>2 DEF SendingOK

LEMMA SubmitKeeps ==
  ASSUME GossipInv, NEW n \in Node, NEW item \in Items, Submit(n, item)
  PROVE  GossipInv'
<1> USE DEF linkVars, taskVars
<1>1. ChainsOK'
  <2>1. CASE item \in Blocks /\ Adds(n, item)
    BY <2>1, AddsTypes DEF GossipInv, ChainsOK, Submit
  <2>2. CASE item \in Txs /\ Queues(n, item)
    BY <2>2 DEF GossipInv, ChainsOK, Submit, Queues
  <2> QED
    BY <2>1, <2>2 DEF Submit
<1>2. NodesOK' /\ LinksOK'
  BY DEF GossipInv, NodesOK, LinksOK, Submit
<1>3. subscribers[n] \subseteq Node
  BY DEF GossipInv, LinksOK
<1>4. SendingOK' /\ \A p \in Node, s \in Node : p # n => sending'[p][s] = sending[p][s]
  BY <1>3, BroadcastsTypes DEF GossipInv, Submit
<1>5. QuietOK'
  BY <1>4 DEF GossipInv, QuietOK, Submit, Up
<1> QED
  BY <1>1, <1>2, <1>4, <1>5 DEF GossipInv

LEMMA SendKeeps ==
  ASSUME GossipInv, NEW n \in Node, NEW source \in Node, NEW p \in Node,
         Send(n, source, p)
  PROVE  GossipInv'
<1> USE DEF chainVars, taskVars
<1> DEFINE hand == sending[n][source]
           new  == IF hand.left = {p} THEN None ELSE [hand EXCEPT !.left = @ \ {p}, !.at = None]
<1>1. hand \in Broadcast
  BY DEF GossipInv, SendingOK, Send
<1>2. new \in Broadcast \cup {None}
  BY <1>1 DEF Broadcast
<1>3. sending' = [sending EXCEPT ![n][source] = new]
  BY DEF Send
<1>4. hand.item \in Items
  BY <1>1 DEF Broadcast
<1>5. Up(n)
  BY DEF GossipInv, QuietOK, Send
<1>6. LinksOK'
  <2>1. CASE UNCHANGED stream
    BY <2>1 DEF GossipInv, LinksOK, NodesOK, Send
  <2>2. CASE /\ n \in listens[p]
             /\ stream' = [stream EXCEPT ![n][p] = Append(@, hand.item)]
    <3>1. Append(stream[n][p], hand.item) \in Seq(Items)
      BY <1>4 DEF GossipInv, LinksOK
    <3> HIDE DEF hand
    <3> QED
      BY <2>2, <3>1 DEF GossipInv, LinksOK, Send
  <2> QED
    BY <2>1, <2>2 DEF Send
<1> HIDE DEF hand, new
<1>7. ChainsOK' /\ NodesOK'
  BY DEF GossipInv, ChainsOK, NodesOK, Send
<1>8. SendingOK'
  BY <1>2, <1>3 DEF GossipInv, SendingOK
<1>9. QuietOK'
  BY <1>3, <1>5 DEF GossipInv, QuietOK, SendingOK, Send, Up
<1> QED
  BY <1>6, <1>7, <1>8, <1>9 DEF GossipInv

LEMMA WaitsKeeps ==
  ASSUME GossipInv, NEW n \in Node, NEW source \in Node, NEW p \in Node,
         WaitsForRoom(n, source, p)
  PROVE  GossipInv'
<1> USE DEF chainVars, taskVars, linkVars
<1> DEFINE new == [sending[n][source] EXCEPT !.at = p]
<1>1. sending[n][source] \in Broadcast
  BY DEF GossipInv, SendingOK, WaitsForRoom
<1>2. new \in Broadcast /\ sending' = [sending EXCEPT ![n][source] = new]
  BY <1>1 DEF Broadcast, WaitsForRoom
<1> HIDE DEF new
<1>3. SendingOK'
  BY <1>2 DEF GossipInv, SendingOK
<1>4. Up(n)
  BY DEF GossipInv, QuietOK, WaitsForRoom
<1>5. ChainsOK' /\ NodesOK' /\ LinksOK'
  BY DEF GossipInv, ChainsOK, NodesOK, LinksOK, WaitsForRoom
<1>6. QuietOK'
  BY <1>2, <1>4 DEF GossipInv, QuietOK, SendingOK, WaitsForRoom, Up
<1> QED
  BY <1>3, <1>5, <1>6 DEF GossipInv

LEMMA RemoveKeeps ==
  ASSUME GossipInv, NEW n \in Node, NEW p \in Node, RemoveSubscriber(n, p)
  PROVE  GossipInv'
<1> USE DEF chainVars, taskVars
<1>1. ChainsOK' /\ NodesOK' /\ SendingOK'
  BY DEF GossipInv, ChainsOK, NodesOK, SendingOK, RemoveSubscriber
<1>2. LinksOK'
  BY DEF GossipInv, LinksOK, RemoveSubscriber
<1>3. QuietOK'
  BY DEF GossipInv, QuietOK, LinksOK, RemoveSubscriber, Up
<1> QED
  BY <1>1, <1>2, <1>3 DEF GossipInv

-----------------------------------------------------------------------------
(* Listening *)

LEMMA StopsListeningTypes ==
  ASSUME GossipInv, NEW p \in Node, NEW n \in Node, NEW items,
         StopsListening(p, n, items), UNCHANGED nodes
  PROVE  /\ LinksOK' /\ UNCHANGED subscribers
         /\ \A q \in Node : listens'[q] \subseteq listens[q]
<1>1. <<>> \in Seq(Items)
  OBVIOUS
<1>2. stream' \in [Node -> [Node -> Seq(Items)]]
  BY <1>1 DEF GossipInv, LinksOK, StopsListening
<1>3. \A a, q \in Node : stream'[a][q] # <<>> => a \in listens'[q]
  BY DEF GossipInv, LinksOK, StopsListening
<1>4. listens' \in [Node -> SUBSET Node] /\ \A q \in Node : listens'[q] \subseteq listens[q]
  BY DEF GossipInv, LinksOK, StopsListening
<1> QED
  BY <1>2, <1>3, <1>4 DEF GossipInv, LinksOK, StopsListening

LEMMA ListenKeeps ==
  ASSUME GossipInv, NEW p \in Node, NEW n \in Node, Listen(p, n)
  PROVE  GossipInv'
<1> USE DEF chainVars, taskVars
<1> DEFINE item == Head(stream[n][p])
<1>1. item \in Items /\ Tail(stream[n][p]) \in Seq(Items)
  BY DEF GossipInv, LinksOK, Listen
<1>2. NodesOK'
  BY DEF GossipInv, NodesOK, Listen
<1>3. Up(p)
  BY DEF GossipInv, QuietOK, Listen
<1>4. CASE StopsListening(p, n, Tail(stream[n][p])) /\ UNCHANGED <<chainVars, sending>>
  <2>1. LinksOK' /\ QuietOK'
    BY <1>4, StopsListeningTypes DEF GossipInv, QuietOK, Listen, Up
  <2> QED
    BY <1>2, <1>4, <2>1 DEF GossipInv, ChainsOK, SendingOK, Listen
<1>5. ASSUME Receives(p, n) PROVE LinksOK'
  BY <1>1, <1>5 DEF GossipInv, LinksOK, Listen, Receives
<1>6. CASE Receives(p, n) /\ UNCHANGED <<chainVars, sending>>
  BY <1>2, <1>5, <1>6 DEF GossipInv, ChainsOK, SendingOK, QuietOK, Listen, Receives, Up
<1>7. CASE /\ Receives(p, n) /\ Broadcasts(p, item, n)
           /\ \/ item \in Blocks /\ Adds(p, item)
              \/ item \in Txs /\ Queues(p, item)
  <2>1. ChainsOK'
    <3>1. CASE item \in Blocks /\ Adds(p, item)
      BY <3>1, AddsTypes DEF GossipInv, ChainsOK, Listen
    <3>2. CASE item \in Txs /\ Queues(p, item)
      BY <3>2 DEF GossipInv, ChainsOK, Listen, Queues
    <3> QED
      BY <1>7, <3>1, <3>2
  <2>2. subscribers[p] \subseteq Node
    BY DEF GossipInv, LinksOK
  <2>3. SendingOK' /\ \A q \in Node, s \in Node : q # p => sending'[q][s] = sending[q][s]
    BY <1>1, <1>7, <2>2, BroadcastsTypes DEF GossipInv
  <2>4. QuietOK'
    BY <1>3, <1>7, <2>3 DEF GossipInv, QuietOK, Listen, Receives, Up
  <2> QED
    BY <1>2, <1>5, <1>7, <2>1, <2>3, <2>4 DEF GossipInv
<1> QED
  BY <1>4, <1>6, <1>7 DEF Listen

LEMMA EndsKeep ==
  ASSUME GossipInv, NEW p \in Node, NEW n \in Node,
         EndOfStream(p, n) \/ LoseConnection(p, n)
  PROVE  GossipInv'
<1> USE DEF chainVars, taskVars
<1>1. /\ \E items : StopsListening(p, n, items)
      /\ faults' \in 0..MaxFaults
      /\ UNCHANGED <<status, chainVars, nodes, sending, taskVars, found>>
  BY GossipAssumption DEF GossipInv, ChainsOK, EndOfStream, LoseConnection
<1>2. /\ LinksOK' /\ UNCHANGED subscribers
      /\ \A q \in Node : listens'[q] \subseteq listens[q]
  BY <1>1, StopsListeningTypes
<1>3. ChainsOK' /\ NodesOK' /\ SendingOK'
  BY <1>1 DEF GossipInv, ChainsOK, NodesOK, SendingOK
<1>4. QuietOK'
  BY <1>1, <1>2 DEF GossipInv, QuietOK, Up
<1> QED
  BY <1>2, <1>3, <1>4 DEF GossipInv

-----------------------------------------------------------------------------
(* Subscribing *)

LEMMA SubscribesTypes ==
  ASSUME GossipInv, NEW p \in Node, NEW n \in Node, n # p, Subscribes(p, n),
         nodes' \in [Node -> SUBSET Node], \A q \in Node : nodes[q] \subseteq nodes'[q],
         n \in nodes'[p]
  PROVE  /\ LinksOK'
         /\ \A q \in Node : q # n => subscribers'[q] = subscribers[q]
         /\ \A q \in Node : q # p => listens'[q] = listens[q]
<1>1. subscribers' \in [Node -> SUBSET Node] /\ \A q \in Node : q \notin subscribers'[q]
  BY DEF GossipInv, LinksOK, Subscribes
<1>2. listens' \in [Node -> SUBSET Node] /\ \A q \in Node : listens'[q] \subseteq nodes'[q]
  BY DEF GossipInv, LinksOK, Subscribes
<1>3. \A a, q \in Node : stream'[a][q] # <<>> => a \in listens'[q]
  BY DEF GossipInv, LinksOK, Subscribes
<1> QED
  BY <1>1, <1>2, <1>3 DEF GossipInv, LinksOK, Subscribes

LEMMA SubscribeToNodeKeeps ==
  ASSUME GossipInv, NEW p \in Node, NEW n \in Node, SubscribeToNode(p, n)
  PROVE  GossipInv'
<1> USE DEF chainVars, linkVars
<1>1. n \in nodes[p] /\ n # p /\ Up(p)
  BY DEF GossipInv, NodesOK, SubscribeToNode
<1>2. ChainsOK' /\ NodesOK' /\ SendingOK'
  <2>1. ChainsOK' /\ SendingOK'
    BY DEF GossipInv, ChainsOK, SendingOK, SubscribeToNode
  <2>2. joining' \in [Node -> SUBSET Node] /\ \A q \in Node : joining'[q] \subseteq joining[q]
    BY DEF GossipInv, NodesOK, SubscribeToNode
  <2>3. NodesOK'
    BY <2>2 DEF GossipInv, NodesOK, SubscribeToNode
  <2> QED
    BY <2>1, <2>3
<1>3. CASE Up(n) /\ Subscribes(p, n)
  <2>1. nodes' = nodes /\ nodes \in [Node -> SUBSET Node]
    BY DEF GossipInv, NodesOK, SubscribeToNode
  <2>2. /\ LinksOK'
        /\ \A q \in Node : q # n => subscribers'[q] = subscribers[q]
        /\ \A q \in Node : q # p => listens'[q] = listens[q]
    BY <1>1, <1>3, <2>1, SubscribesTypes
  <2>3. QuietOK'
    BY <1>1, <1>3, <2>2 DEF GossipInv, QuietOK, NodesOK, SubscribeToNode, Up
  <2> QED
    BY <1>2, <2>2, <2>3 DEF GossipInv
<1>4. CASE joining' = [joining EXCEPT ![p] = {}] /\ UNCHANGED linkVars
  <2>1. LinksOK' /\ QuietOK'
    BY <1>1, <1>4 DEF GossipInv, LinksOK, QuietOK, NodesOK, SubscribeToNode, Up
  <2> QED
    BY <1>2, <2>1 DEF GossipInv
<1> QED
  BY <1>3, <1>4 DEF SubscribeToNode

LEMMA SubscribeToSubscriberKeeps ==
  ASSUME GossipInv, NEW p \in Node, NEW n \in Node, SubscribeToSubscriber(p, n)
  PROVE  GossipInv'
<1> USE DEF chainVars, linkVars
<1>1. n # p /\ Up(p)
  BY DEF GossipInv, LinksOK, SubscribeToSubscriber
<1>2. CASE Up(n) /\ Subscribes(p, n) /\ AddNode(p, n) /\ UNCHANGED renewing
  <2>1. /\ nodes' \in [Node -> SUBSET Node] /\ \A q \in Node : nodes[q] \subseteq nodes'[q]
        /\ n \in nodes'[p] /\ \A q \in Node : q # p => nodes'[q] = nodes[q]
    BY <1>2 DEF GossipInv, NodesOK, AddNode
  <2>2. /\ LinksOK'
        /\ \A q \in Node : q # n => subscribers'[q] = subscribers[q]
        /\ \A q \in Node : q # p => listens'[q] = listens[q]
    BY <1>1, <1>2, <2>1, SubscribesTypes
  <2>3. ChainsOK' /\ SendingOK'
    BY <1>2 DEF GossipInv, ChainsOK, SendingOK, SubscribeToSubscriber
  <2>4. NodesOK'
    BY <1>1, <1>2, <2>1 DEF GossipInv, NodesOK, AddNode, SubscribeToSubscriber
  <2>5. QuietOK'
    BY <1>1, <1>2, <2>1, <2>2 DEF GossipInv, QuietOK, SubscribeToSubscriber, Up
  <2> QED
    BY <2>2, <2>3, <2>4, <2>5 DEF GossipInv
<1>3. CASE renewing' = [renewing EXCEPT ![p] = FALSE] /\ UNCHANGED <<linkVars, nodes>>
  <2>1. ChainsOK' /\ NodesOK' /\ SendingOK'
    BY <1>3 DEF GossipInv, ChainsOK, NodesOK, SendingOK, SubscribeToSubscriber
  <2>2. LinksOK' /\ QuietOK'
    BY <1>3 DEF GossipInv, LinksOK, QuietOK, SubscribeToSubscriber, Up
  <2> QED
    BY <2>1, <2>2 DEF GossipInv
<1> QED
  BY <1>2, <1>3 DEF SubscribeToSubscriber

-----------------------------------------------------------------------------
(* Synchronizing *)

LEMMA SyncTickKeeps ==
  ASSUME GossipInv, NEW n \in Node, SyncTick(n)
  PROVE  GossipInv'
<1> USE DEF chainVars, linkVars
<1> DEFINE new == [Idle EXCEPT !.at = "ask", !.todo = nodes[n]]
<1>1. new \in Sync /\ new.todo = nodes[n]
  <2>1. [Idle EXCEPT !.at = "ask"] \in Sync
    <3>1. <<>> \in Seq(Blocks)
      OBVIOUS
    <3> QED
      BY <3>1 DEF Idle, Sync
  <2>2. nodes[n] \subseteq Node /\ new = [[Idle EXCEPT !.at = "ask"] EXCEPT !.todo = nodes[n]]
    BY DEF GossipInv, NodesOK, Idle
  <2> QED
    BY <2>1, <2>2 DEF Sync
<1>2. sync' = [sync EXCEPT ![n] = new]
  BY DEF SyncTick
<1> HIDE DEF new
<1>3. ChainsOK' /\ LinksOK' /\ SendingOK'
  BY DEF GossipInv, ChainsOK, LinksOK, SendingOK, SyncTick
<1>4. NodesOK'
  BY <1>1, <1>2 DEF GossipInv, NodesOK, SyncTick
<1>5. QuietOK'
  BY <1>2 DEF GossipInv, QuietOK, NodesOK, SyncTick, Up
<1> QED
  BY <1>3, <1>4, <1>5 DEF GossipInv

(* The record of a synchronization changes while it is under way.          *)
LEMMA SyncStep ==
  ASSUME GossipInv, NEW n \in Node, NEW new \in Sync, new.todo \subseteq sync[n].todo,
         sync[n].at # "idle", sync' = [sync EXCEPT ![n] = new],
         UNCHANGED <<status, nodes, linkVars, sending, joining>>
  PROVE  NodesOK' /\ LinksOK' /\ SendingOK' /\ QuietOK'
<1> USE DEF linkVars
<1>1. LinksOK' /\ SendingOK'
  BY DEF GossipInv, LinksOK, SendingOK
<1>2. NodesOK'
  BY DEF GossipInv, NodesOK
<1>3. status[n] # "down"
  BY DEF GossipInv, QuietOK, Idle, Up
<1>4. QuietOK'
  BY <1>3 DEF GossipInv, QuietOK, Up
<1> QED
  BY <1>1, <1>2, <1>4

LEMMA AskDifferenceKeeps ==
  ASSUME GossipInv, NEW n \in Node, NEW p \in Node, AskDifference(n, p)
  PROVE  GossipInv'
<1> DEFINE longer == Len(chain[p]) - Len(chain[n])
           asked  == [sync[n] EXCEPT !.todo = @ \ {p}]
           took   == [asked EXCEPT !.best = p, !.count = longer]
           new    == IF Up(p) /\ longer > asked.count THEN took ELSE asked
<1>1. sync[n] \in Sync /\ sync[n].at # "idle"
  BY DEF GossipInv, NodesOK, AskDifference
<1>2. asked \in Sync /\ asked.todo \subseteq sync[n].todo /\ asked.count \in Nat
  BY <1>1 DEF Sync
<1>3. longer \in Int
  BY DEF GossipInv, ChainsOK
<1> HIDE DEF longer, asked
<1>4. longer > asked.count => took \in Sync /\ took.todo = asked.todo
  <2>1. [asked EXCEPT !.best = p] \in Sync /\ [asked EXCEPT !.best = p].todo = asked.todo
    BY <1>2 DEF Sync
  <2>2. took = [[asked EXCEPT !.best = p] EXCEPT !.count = longer]
    BY <1>2 DEF Sync
  <2>3. longer > asked.count => longer \in Nat
    BY <1>2, <1>3
  <2> QED
    BY <2>1, <2>2, <2>3 DEF Sync
<1>5. new \in Sync /\ new.todo \subseteq sync[n].todo
  BY <1>2, <1>4
<1>6. sync' = [sync EXCEPT ![n] = new]
  BY DEF AskDifference, longer, asked
<1> HIDE DEF new
<1>7. NodesOK' /\ LinksOK' /\ SendingOK' /\ QuietOK'
  BY <1>1, <1>5, <1>6, SyncStep DEF AskDifference
<1>8. ChainsOK'
  BY DEF GossipInv, ChainsOK, AskDifference, chainVars
<1> QED
  BY <1>7, <1>8 DEF GossipInv

LEMMA FetchBlocksKeeps ==
  ASSUME GossipInv, NEW n \in Node, FetchBlocks(n)
  PROVE  GossipInv'
<1> DEFINE p   == sync[n].best
           got == Missing(chain[p], Len(chain[n]), sync[n].count)
           new == [[sync[n] EXCEPT !.at = "fetch"] EXCEPT !.got = got]
<1>1. sync[n] \in Sync /\ sync[n].at # "idle"
  BY DEF GossipInv, NodesOK, FetchBlocks
<1>2. CASE Finishes(n) \/ Fails(n)
  BY <1>1, <1>2, FailsOrFinishes DEF FetchBlocks
<1>3. CASE /\ p # None /\ sync' = [sync EXCEPT ![n].at = "fetch", ![n].got = got]
           /\ UNCHANGED <<status, chainVars, nodes, joining>>
  <2>1. p \in Node /\ sync[n].count \in Nat
    BY <1>1, <1>3 DEF Sync
  <2>2. chain[p] \in Seq(Blocks) /\ Len(chain[n]) \in Nat
    BY <2>1 DEF GossipInv, ChainsOK
  <2>3. got \in Seq(Blocks)
    BY <2>1, <2>2, MissingBlocks
  <2>4. sync' = [sync EXCEPT ![n] = new]
    BY <1>3 DEF GossipInv, NodesOK
  <2> HIDE DEF got, p
  <2>5. [sync[n] EXCEPT !.at = "fetch"] \in Sync
    BY <1>1 DEF Sync
  <2>6. new \in Sync /\ new.todo = sync[n].todo
    BY <1>1, <2>3, <2>5 DEF Sync
  <2> HIDE DEF new
  <2>7. NodesOK' /\ LinksOK' /\ SendingOK' /\ QuietOK'
    BY <1>1, <1>3, <2>4, <2>6, SyncStep DEF FetchBlocks
  <2>8. ChainsOK'
    BY <1>3 DEF GossipInv, ChainsOK, FetchBlocks, chainVars
  <2> QED
    BY <2>7, <2>8 DEF GossipInv
<1> QED
  BY <1>2, <1>3 DEF FetchBlocks, NoneLonger

LEMMA AddFetchedKeeps ==
  ASSUME GossipInv, NEW n \in Node, AddFetched(n)
  PROVE  GossipInv'
<1> DEFINE b   == Head(sync[n].got)
           new == [sync[n] EXCEPT !.got = Tail(@)]
<1>1. sync[n] \in Sync /\ sync[n].at # "idle" /\ sync[n].got # <<>>
  BY DEF GossipInv, NodesOK, AddFetched
<1>2. sync[n].got \in Seq(Blocks)
  BY <1>1 DEF Sync
<1>3. b \in Blocks /\ Tail(sync[n].got) \in Seq(Blocks)
  BY <1>1, <1>2
<1>4. CASE Fails(n)
  BY <1>1, <1>4, FailsOrFinishes DEF AddFetched
<1>5. CASE /\ Adds(n, b) /\ sync' = [sync EXCEPT ![n].got = Tail(@)]
           /\ UNCHANGED <<status, nodes, joining>>
  <2>1. sync' = [sync EXCEPT ![n] = new]
    BY <1>5 DEF GossipInv, NodesOK
  <2>2. new \in Sync /\ new.todo = sync[n].todo
    BY <1>1, <1>3 DEF Sync
  <2> HIDE DEF new, b
  <2>3. NodesOK' /\ LinksOK' /\ SendingOK' /\ QuietOK'
    BY <1>1, <1>5, <2>1, <2>2, SyncStep DEF AddFetched
  <2>4. ChainsOK'
    BY <1>3, <1>5, AddsTypes DEF GossipInv, ChainsOK, AddFetched
  <2> QED
    BY <2>3, <2>4 DEF GossipInv
<1> QED
  BY <1>4, <1>5 DEF AddFetched

LEMMA FetchEndsKeeps ==
  ASSUME GossipInv, NEW n \in Node, FetchEnds(n)
  PROVE  GossipInv'
BY FailsOrFinishes DEF FetchEnds

-----------------------------------------------------------------------------
(* Starting and failing *)

LEMMA StartKeeps ==
  ASSUME GossipInv, NEW n \in Node, Start(n)
  PROVE  GossipInv'
<1> USE DEF chainVars, linkVars
<1> DEFINE known == {p \in UNION {nodes[s] : s \in Seeds[n]} : Up(p)}
           peers == (Seeds[n] \cup known) \ {n}
           new   == [Idle EXCEPT !.at = "ask", !.todo = peers]
<1>1. Seeds[n] \subseteq Node /\ status[n] = "down"
  BY GossipAssumption DEF Start
<1>2. known \subseteq Node
  BY <1>1 DEF GossipInv, NodesOK
<1>3. peers \subseteq Node /\ n \notin peers /\ nodes' = [nodes EXCEPT ![n] = peers]
  BY <1>1, <1>2 DEF Start
<1> HIDE DEF known, peers
<1>4. nodes' \in [Node -> SUBSET Node] /\ nodes'[n] = peers /\ \A q \in Node : n # q => nodes'[q] = nodes[q]
  BY <1>3 DEF GossipInv, NodesOK
<1>5. sync[n] = Idle /\ Idle.todo = {} /\ listens[n] = {} /\ joining[n] = {} /\ ~Up(n)
  BY <1>1 DEF GossipInv, QuietOK, Idle, Up
<1>6. new \in Sync /\ new.todo = peers
  <2>1. [Idle EXCEPT !.at = "ask"] \in Sync
    <3>1. <<>> \in Seq(Blocks)
      OBVIOUS
    <3> QED
      BY <3>1 DEF Idle, Sync
  <2>2. new = [[Idle EXCEPT !.at = "ask"] EXCEPT !.todo = peers]
    BY DEF Idle
  <2> QED
    BY <1>3, <2>1, <2>2 DEF Sync
<1>7. /\ status' \in [Node -> {"down", "starting", "up"}] /\ status'[n] # "down"
      /\ \A q \in Node : q # n => status'[q] = status[q]
  BY DEF GossipInv, NodesOK, Start
<1>8. sync' = sync \/ sync' = [sync EXCEPT ![n] = new]
  BY <1>4 DEF Start
<1> HIDE DEF new
<1>9. /\ sync' \in [Node -> Sync] /\ sync'[n].todo \subseteq peers
      /\ \A q \in Node : q # n => sync'[q] = sync[q]
  BY <1>5, <1>6, <1>8 DEF GossipInv, NodesOK
<1>10. ChainsOK' /\ SendingOK'
  BY DEF GossipInv, ChainsOK, SendingOK, Start
<1>11. NodesOK'
  BY <1>3, <1>4, <1>5, <1>7, <1>9 DEF GossipInv, NodesOK, Start
<1>12. LinksOK'
  BY <1>4, <1>5 DEF GossipInv, LinksOK, Start
<1>13. QuietOK'
  BY <1>4, <1>5, <1>7, <1>9 DEF GossipInv, QuietOK, Start, Up
<1> QED
  BY <1>10, <1>11, <1>12, <1>13 DEF GossipInv

LEMMA CrashKeeps ==
  ASSUME GossipInv, NEW n \in Node, Crash(n)
  PROVE  GossipInv'
<1>1. Idle \in Sync /\ Idle.todo = {} /\ <<>> \in Seq(Blocks) /\ <<>> \in Seq(Items)
  <2>1. <<>> \in Seq(Blocks) /\ <<>> \in Seq(Items)
    OBVIOUS
  <2> QED
    BY <2>1 DEF Idle, Sync
<1>2. ChainsOK'
  <2>1. chain' \in [Node -> Seq(Blocks)]
    BY LeavesSavedTypes DEF GossipInv, Crash
  <2>2. faults' \in 0..MaxFaults
    BY GossipAssumption DEF GossipInv, ChainsOK, Crash
  <2> QED
    BY <2>1, <2>2 DEF GossipInv, ChainsOK, Crash
<1>3. NodesOK'
  <2>1. status' \in [Node -> {"down", "starting", "up"}]
    BY DEF GossipInv, NodesOK, Crash
  <2>2. nodes' \in [Node -> SUBSET Node] /\ \A q \in Node : q \notin nodes'[q]
    BY DEF GossipInv, NodesOK, Crash
  <2>3. sync' \in [Node -> Sync] /\ \A q \in Node : sync'[q].todo \subseteq nodes'[q]
    BY <1>1 DEF GossipInv, NodesOK, Crash
  <2>4. joining' \in [Node -> SUBSET Node] /\ \A q \in Node : joining'[q] \subseteq nodes'[q]
    BY DEF GossipInv, NodesOK, Crash
  <2> QED
    BY <2>1, <2>2, <2>3, <2>4 DEF NodesOK
<1>4. LinksOK'
  <2>1. subscribers' \in [Node -> SUBSET Node] /\ \A q \in Node : q \notin subscribers'[q]
    BY DEF GossipInv, LinksOK, Crash
  <2>2. listens' \in [Node -> SUBSET Node] /\ \A q \in Node : listens'[q] \subseteq nodes'[q]
    BY DEF GossipInv, LinksOK, NodesOK, Crash
  <2>3. stream' \in [Node -> [Node -> Seq(Items)]]
    BY <1>1 DEF GossipInv, LinksOK, Crash
  <2>4. \A a, q \in Node : stream'[a][q] # <<>> => a \in listens'[q]
    BY DEF GossipInv, LinksOK, Crash
  <2> QED
    BY <2>1, <2>2, <2>3, <2>4 DEF LinksOK
<1>5. SendingOK'
  BY DEF GossipInv, SendingOK, Crash
<1>6. QuietOK'
  <2> SUFFICES ASSUME NEW q \in Node, ~Up(q)'
               PROVE  /\ subscribers'[q] = {} /\ listens'[q] = {} /\ joining'[q] = {}
                      /\ \A s \in Node : sending'[q][s] = None
                      /\ status'[q] = "down" => nodes'[q] = {} /\ sync'[q] = Idle
    BY DEF QuietOK
  <2>1. CASE q = n
    BY <2>1 DEF GossipInv, LinksOK, NodesOK, SendingOK, Crash
  <2>2. CASE q # n
    <3>1. ~Up(q) /\ status'[q] = status[q]
      BY <2>2 DEF GossipInv, NodesOK, Crash, Up
    <3>2. listens'[q] \subseteq listens[q]
      BY <2>2 DEF Crash
    <3> QED
      BY <2>2, <3>1, <3>2 DEF GossipInv, QuietOK, Crash
  <2> QED
    BY <2>1, <2>2
<1> QED
  BY <1>2, <1>3, <1>4, <1>5, <1>6 DEF GossipInv

-----------------------------------------------------------------------------
(* The invariant *)

LEMMA InitGossipInv == Init => GossipInv
<1> SUFFICES ASSUME Init PROVE GossipInv
  OBVIOUS
<1>1. <<>> \in Seq(Blocks) /\ <<>> \in Seq(Items)
  OBVIOUS
<1>2. Idle \in Sync /\ Idle.todo = {}
  BY <1>1 DEF Idle, Sync
<1>3. ChainsOK
  BY <1>1, GossipAssumption DEF Init, ChainsOK
<1>4. NodesOK
  BY <1>2 DEF Init, NodesOK
<1>5. LinksOK /\ SendingOK
  BY <1>1 DEF Init, LinksOK, SendingOK
<1>6. QuietOK
  BY DEF Init, QuietOK
<1> QED
  BY <1>3, <1>4, <1>5, <1>6 DEF GossipInv

LEMMA StutterGossipInv ==
  ASSUME GossipInv, UNCHANGED vars
  PROVE  GossipInv'
BY DEF vars, chainVars, linkVars, taskVars, GossipInv, ChainsOK, NodesOK, LinksOK,
       SendingOK, QuietOK, Up

LEMMA NextGossipInv ==
  ASSUME GossipInv, [Next]_vars
  PROVE  GossipInv'
<1>1. CASE UNCHANGED vars
  BY <1>1, StutterGossipInv
<1>2. CASE Next
  <2>1. PICK n \in Node :
          \/ Start(n) \/ Crash(n) \/ JoinsSome(n) \/ RenewsSome(n) \/ Synchronizes(n)
          \/ \E item \in Items : Submit(n, item)
          \/ \E p \in Node :
               \/ Sends(n, p) \/ RemoveSubscriber(n, p)
               \/ Listen(n, p) \/ EndOfStream(n, p) \/ LoseConnection(n, p)
    BY <1>2 DEF Next
  <2>2. CASE Start(n) \/ Crash(n)
    BY <2>2, StartKeeps, CrashKeeps
  <2>3. CASE JoinsSome(n) \/ RenewsSome(n)
    BY <2>3, SubscribeToNodeKeeps, SubscribeToSubscriberKeeps DEF JoinsSome, RenewsSome
  <2>4. CASE Synchronizes(n)
    BY <2>4, SyncTickKeeps, AskDifferenceKeeps, FetchBlocksKeeps, AddFetchedKeeps, FetchEndsKeeps
       DEF Synchronizes
  <2>5. ASSUME NEW item \in Items, Submit(n, item) PROVE GossipInv'
    BY <2>5, SubmitKeeps
  <2>6. ASSUME NEW p \in Node, Sends(n, p) \/ RemoveSubscriber(n, p) PROVE GossipInv'
    BY <2>6, SendKeeps, WaitsKeeps, RemoveKeeps DEF Sends
  <2>7. ASSUME NEW p \in Node, Listen(n, p) \/ EndOfStream(n, p) \/ LoseConnection(n, p)
        PROVE  GossipInv'
    BY <2>7, ListenKeeps, EndsKeep
  <2> QED
    BY <2>1, <2>2, <2>3, <2>4, <2>5, <2>6, <2>7
<1> QED
  BY <1>1, <1>2

-----------------------------------------------------------------------------
(* Room.  A step that does something with the stream from n to p leaves    *)
(* all the others alone.                                                   *)

Elsewhere(n, p) ==
  \A a, q \in Node : ~(a = n /\ q = p) =>
    /\ stream'[a][q] = stream[a][q] /\ unsent'[a][q] = unsent[a][q]
    /\ a \in listens'[q] => a \in listens[q]
Counts(u, r) == u \in Pairs(0..2) /\ r \in Pairs(Nat)

LEMMA RoomElsewhere ==
  ASSUME RoomOK, NEW n \in Node, NEW p \in Node, Counts(unsent', removing'), Elsewhere(n, p),
         Len(stream'[n][p]) <= Capacity, n \in listens'[p] => unsent'[n][p] = 0
  PROVE  RoomOK'
<1>1. ASSUME NEW a \in Node, NEW q \in Node
      PROVE  Len(stream'[a][q]) <= Capacity /\ (a \in listens'[q] => unsent'[a][q] = 0)
  <2>1. CASE a = n /\ q = p
    BY <2>1
  <2>2. CASE ~(a = n /\ q = p)
    BY <2>2 DEF RoomOK, Elsewhere
  <2> QED
    BY <2>1, <2>2
<1> QED
  BY <1>1 DEF RoomOK, Counts

(* Functions of two nodes, changed for two.                                *)
LEMMA PairValue ==
  ASSUME NEW S, NEW f \in Pairs(S), NEW n \in Node, NEW p \in Node
  PROVE  f[n][p] \in S
BY DEF Pairs

Changed(f, n, p, x) == [f EXCEPT ![n][p] = x]

LEMMA PairChanges ==
  ASSUME NEW S, NEW f \in Pairs(S), NEW n \in Node, NEW p \in Node, NEW x \in S
  PROVE  /\ Changed(f, n, p, x) \in Pairs(S)
         /\ \A a, q \in Node :
              Changed(f, n, p, x)[a][q] = IF a = n /\ q = p THEN x ELSE f[a][q]
BY DEF Pairs, Changed

LEMMA RoomPairs ==
  ASSUME GossipInv, RoomOK
  PROVE  stream \in Pairs(Seq(Items)) /\ unsent \in Pairs(0..2) /\ removing \in Pairs(Nat)
BY DEF GossipInv, LinksOK, Pairs, RoomOK

LEMMA StreamChanges ==
  ASSUME GossipInv, RoomOK, NEW n \in Node, NEW p \in Node, NEW s \in Seq(Items)
  PROVE  \A a, q \in Node :
           Changed(stream, n, p, s)[a][q] = IF a = n /\ q = p THEN s ELSE stream[a][q]
BY PairChanges, RoomPairs

LEMMA RoomTypes ==
  ASSUME GossipInv, RoomOK
  PROVE  /\ stream \in Pairs(Seq(Items)) /\ unsent \in Pairs(0..2) /\ removing \in Pairs(Nat)
         /\ listens \in [Node -> SUBSET Node]
         /\ \A n, p \in Node :
              /\ Len(stream[n][p]) <= Capacity /\ (n \in listens[p] => unsent[n][p] = 0)
              /\ stream[n][p] \in Seq(Items) /\ unsent[n][p] \in 0..2 /\ removing[n][p] \in Nat
<1>1. stream \in Pairs(Seq(Items)) /\ listens \in [Node -> SUBSET Node]
  BY DEF GossipInv, LinksOK, Pairs
<1>2. unsent \in Pairs(0..2) /\ removing \in Pairs(Nat)
  BY DEF RoomOK
<1>3. \A n, p \in Node :
        stream[n][p] \in Seq(Items) /\ unsent[n][p] \in 0..2 /\ removing[n][p] \in Nat
  BY <1>1, <1>2, PairValue
<1> QED
  BY <1>1, <1>2, <1>3 DEF RoomOK

LEMMA SendRoom ==
  ASSUME GossipInv, RoomOK, NEW n \in Node, NEW source \in Node, NEW p \in Node,
         Send(n, source, p)
  PROVE  RoomOK'
<1> DEFINE hand == sending[n][source]
           more == Append(stream[n][p], hand.item)
<1>1. UNCHANGED <<listens, removing>>
  BY DEF Send
<1>2. hand.item \in Items
  BY DEF GossipInv, SendingOK, Broadcast, Send
<1> HIDE DEF hand
<1>3. CASE UNCHANGED <<stream, unsent>>
  BY <1>1, <1>3 DEF RoomOK
<1>4. CASE /\ n \in listens[p] /\ HasRoom(n, p)
           /\ stream' = [stream EXCEPT ![n][p] = more] /\ UNCHANGED unsent
  <2>1. more \in Seq(Items) /\ Len(more) = Len(stream[n][p]) + 1 /\ Len(stream[n][p]) \in Nat
    BY <1>2, RoomTypes
  <2>2. Len(more) <= Capacity
    BY <1>4, <2>1, GossipAssumption DEF HasRoom
  <2> HIDE DEF more
  <2>3. \A a, q \in Node : stream'[a][q] = IF a = n /\ q = p THEN more ELSE stream[a][q]
    <3>1. stream' = Changed(stream, n, p, more)
      BY <1>4 DEF Changed
    <3>2. more \in Seq(Items)
      BY <2>1
    <3> QED
      BY <3>1, <3>2, StreamChanges
  <2>4. Elsewhere(n, p) /\ Len(stream'[n][p]) <= Capacity
    BY <1>1, <1>4, <2>2, <2>3 DEF Elsewhere
  <2>5. Counts(unsent', removing') /\ (n \in listens'[p] => unsent'[n][p] = 0)
    BY <1>1, <1>4, RoomTypes DEF Counts
  <2> QED
    BY <2>4, <2>5, RoomElsewhere
<1>5. CASE /\ n \notin listens[p] /\ HasRoom(n, p) /\ UNCHANGED stream
           /\ unsent' = [unsent EXCEPT ![n][p] = unsent[n][p] + 1]
  <2> DEFINE k == unsent[n][p] + 1
  <2>1. k \in 0..2
    <3>1. unsent[n][p] \in 0..2
      BY RoomTypes
    <3>2. unsent[n][p] < 2
      BY <1>5 DEF HasRoom
    <3> QED
      BY <3>1, <3>2
  <2>2. unsent' = Changed(unsent, n, p, k)
    BY <1>5 DEF Changed
  <2> HIDE DEF k
  <2>3. /\ unsent' \in Pairs(0..2)
        /\ \A a, q \in Node : unsent'[a][q] = IF a = n /\ q = p THEN k ELSE unsent[a][q]
    BY <2>1, <2>2, PairChanges, RoomPairs
  <2>4. Counts(unsent', removing') /\ Elsewhere(n, p)
    BY <1>1, <1>5, <2>3, RoomTypes DEF Counts, Elsewhere
  <2>5. Len(stream'[n][p]) <= Capacity /\ n \notin listens'[p]
    BY <1>1, <1>5, RoomTypes
  <2> QED
    BY <2>4, <2>5, RoomElsewhere
<1> QED
  BY <1>3, <1>4, <1>5 DEF Send, hand

LEMMA RemoveRoom ==
  ASSUME GossipInv, RoomOK, NEW n \in Node, NEW p \in Node, RemoveSubscriber(n, p)
  PROVE  RoomOK'
<1>1. UNCHANGED <<listens, stream>> /\ Len(stream'[n][p]) <= Capacity
  BY RoomTypes DEF RemoveSubscriber
<1>2. CASE /\ unsent[n][p] > 0 /\ unsent' = [unsent EXCEPT ![n][p] = unsent[n][p] - 1]
           /\ UNCHANGED removing
  <2> DEFINE k == unsent[n][p] - 1
  <2>1. k \in 0..2 /\ n \notin listens[p]
    BY <1>2, RoomTypes
  <2>2. unsent' = Changed(unsent, n, p, k)
    BY <1>2 DEF Changed
  <2> HIDE DEF k
  <2>3. /\ unsent' \in Pairs(0..2)
        /\ \A a, q \in Node : unsent'[a][q] = IF a = n /\ q = p THEN k ELSE unsent[a][q]
    BY <2>1, <2>2, PairChanges, RoomPairs
  <2>4. Counts(unsent', removing') /\ Elsewhere(n, p)
    BY <1>1, <1>2, <2>3, RoomTypes DEF Counts, Elsewhere
  <2> QED
    BY <1>1, <2>1, <2>4, RoomElsewhere
<1>3. CASE /\ removing[n][p] > 0 /\ removing' = [removing EXCEPT ![n][p] = removing[n][p] - 1]
           /\ UNCHANGED unsent
  <2> DEFINE k == removing[n][p] - 1
  <2>1. k \in Nat
    BY <1>3, RoomTypes
  <2>2. removing' = Changed(removing, n, p, k)
    BY <1>3 DEF Changed
  <2> HIDE DEF k
  <2>3. Counts(unsent', removing')
    <3>1. removing' \in Pairs(Nat)
      BY <2>1, <2>2, PairChanges, RoomPairs
    <3> QED
      BY <1>3, <3>1, RoomPairs DEF Counts
  <2>4. Elsewhere(n, p) /\ (n \in listens'[p] => unsent'[n][p] = 0)
    BY <1>1, <1>3, RoomTypes DEF Elsewhere
  <2> QED
    BY <1>1, <2>3, <2>4, RoomElsewhere
<1> QED
  BY <1>2, <1>3 DEF RemoveSubscriber

LEMMA StopsRoom ==
  ASSUME GossipInv, RoomOK, NEW p \in Node, NEW n \in Node, NEW items,
         StopsListening(p, n, items)
  PROVE  RoomOK'
<1>1. PICK k \in 0..2 : unsent' = Changed(unsent, n, p, k)
  BY DEF StopsListening, Changed
<1>2. /\ unsent' \in Pairs(0..2)
      /\ \A a, q \in Node : unsent'[a][q] = IF a = n /\ q = p THEN k ELSE unsent[a][q]
  BY <1>1, PairChanges, RoomPairs
<1>3. \A a, q \in Node : stream'[a][q] = IF a = n /\ q = p THEN <<>> ELSE stream[a][q]
  <2> DEFINE nothing == <<>>
  <2>1. nothing \in Seq(Items) /\ stream' = Changed(stream, n, p, nothing)
    BY DEF StopsListening, Changed
  <2> HIDE DEF nothing
  <2>2. \A a, q \in Node : stream'[a][q] = IF a = n /\ q = p THEN nothing ELSE stream[a][q]
    BY <2>1, StreamChanges
  <2> QED
    BY <2>2 DEF nothing
<1>4. n \notin listens'[p] /\ \A q \in Node : listens'[q] \subseteq listens[q]
  BY RoomTypes DEF StopsListening
<1>5. Len(stream'[n][p]) <= Capacity
  BY <1>3, GossipAssumption
<1>6. Counts(unsent', removing')
  BY <1>2, RoomTypes DEF Counts, StopsListening
<1>7. Elsewhere(n, p)
  BY <1>2, <1>3, <1>4 DEF Elsewhere
<1> QED
  BY <1>4, <1>5, <1>6, <1>7, RoomElsewhere

LEMMA ListenRoom ==
  ASSUME GossipInv, RoomOK, NEW p \in Node, NEW n \in Node, Listen(p, n)
  PROVE  RoomOK'
<1>1. CASE StopsListening(p, n, Tail(stream[n][p]))
  BY <1>1, StopsRoom
<1>2. CASE Receives(p, n)
  <2> DEFINE old  == stream[n][p]
             rest == Tail(old)
  <2>1. old \in Seq(Items) /\ old # <<>> /\ Len(old) <= Capacity
    BY RoomTypes DEF Listen
  <2>2. UNCHANGED <<listens, unsent, removing>> /\ stream' = Changed(stream, n, p, rest)
    BY <1>2 DEF Receives, Changed
  <2> HIDE DEF old
  <2>3. rest \in Seq(Items) /\ Len(rest) = Len(old) - 1 /\ Len(old) \in Nat
    BY <2>1
  <2>4. Len(rest) <= Capacity
    BY <2>1, <2>3, GossipAssumption
  <2> HIDE DEF rest
  <2>5. \A a, q \in Node : stream'[a][q] = IF a = n /\ q = p THEN rest ELSE stream[a][q]
    BY <2>2, <2>3, StreamChanges
  <2>6. Counts(unsent', removing') /\ (n \in listens'[p] => unsent'[n][p] = 0)
    BY <2>2, RoomTypes DEF Counts
  <2>7. Elsewhere(n, p) /\ Len(stream'[n][p]) <= Capacity
    BY <2>2, <2>4, <2>5 DEF Elsewhere
  <2> QED
    BY <2>6, <2>7, RoomElsewhere
<1> QED
  BY <1>1, <1>2 DEF Listen

LEMMA SubscribesRoom ==
  ASSUME GossipInv, RoomOK, NEW p \in Node, NEW n \in Node, Subscribes(p, n)
  PROVE  RoomOK'
<1> DEFINE k == removing[n][p] + unsent[n][p]
<1>1. /\ UNCHANGED stream /\ unsent' = Changed(unsent, n, p, 0)
      /\ removing' = Changed(removing, n, p, k)
  BY DEF Subscribes, Changed
<1>2. 0 \in 0..2 /\ k \in Nat
  <2>1. removing[n][p] \in Nat /\ unsent[n][p] \in Nat
    BY RoomTypes
  <2> QED
    BY <2>1
<1> HIDE DEF k
<1>3. /\ unsent' \in Pairs(0..2)
      /\ \A a, q \in Node : unsent'[a][q] = IF a = n /\ q = p THEN 0 ELSE unsent[a][q]
  BY <1>1, <1>2, PairChanges, RoomPairs
<1>4. Counts(unsent', removing')
  <2>1. removing' \in Pairs(Nat)
    BY <1>1, <1>2, PairChanges, RoomPairs
  <2> QED
    BY <1>3, <2>1 DEF Counts
<1>5. \A a, q \in Node : ~(a = n /\ q = p) => (a \in listens'[q] => a \in listens[q])
  BY RoomTypes DEF Subscribes
<1>6. Elsewhere(n, p)
  BY <1>1, <1>3, <1>5 DEF Elsewhere
<1>7. Len(stream'[n][p]) <= Capacity /\ unsent'[n][p] = 0
  BY <1>1, <1>3, RoomTypes
<1> QED
  BY <1>4, <1>6, <1>7, RoomElsewhere

LEMMA CrashRoom ==
  ASSUME GossipInv, RoomOK, NEW n \in Node, Crash(n)
  PROVE  RoomOK'
<1>1. PICK left \in [Node -> 0..2] :
        unsent' = [a \in Node |-> [q \in Node |->
          IF a = n THEN 0 ELSE IF q = n /\ a \in listens[n] THEN left[a] ELSE unsent[a][q]]]
  BY DEF Crash
<1>2. listens' = [q \in Node |-> IF q = n THEN {} ELSE listens[q] \ {n}]
  BY DEF Crash
<1>3. stream' = [a \in Node |-> [q \in Node |-> IF n \in {a, q} THEN <<>> ELSE stream[a][q]]]
  BY DEF Crash
<1>4. unsent' \in Pairs(0..2)
  <2>1. ASSUME NEW a \in Node, NEW q \in Node PROVE unsent'[a][q] \in 0..2
    BY <1>1, RoomTypes
  <2> QED
    BY <1>1, <2>1 DEF Pairs
<1>5. ASSUME NEW a \in Node, NEW q \in Node
      PROVE  Len(stream'[a][q]) <= Capacity /\ (a \in listens'[q] => unsent'[a][q] = 0)
  <2>1. stream'[a][q] = <<>> \/ stream'[a][q] = stream[a][q]
    BY <1>3
  <2>2. a \in listens'[q] => a \in listens[q] /\ q # n /\ a # n
    BY <1>2
  <2>3. q # n /\ a # n => unsent'[a][q] = unsent[a][q]
    BY <1>1
  <2> QED
    BY <2>1, <2>2, <2>3, RoomTypes, GossipAssumption
<1>6. removing' \in Pairs(Nat)
  <2>1. removing' = [removing EXCEPT ![n] = [q \in Node |-> 0]] /\ removing \in Pairs(Nat)
    BY RoomTypes DEF Crash
  <2> QED
    BY <2>1 DEF Pairs
<1> QED
  BY <1>4, <1>5, <1>6 DEF RoomOK

LEMMA NextRoom ==
  ASSUME GossipInv, RoomOK, [Next]_vars
  PROVE  RoomOK'
<1> USE DEF linkVars
<1>1. ASSUME UNCHANGED <<listens, stream, unsent, removing>> PROVE RoomOK'
  BY <1>1 DEF RoomOK
<1>2. CASE UNCHANGED vars
  BY <1>1, <1>2 DEF vars
<1>3. ASSUME NEW n \in Node, Start(n) \/ Synchronizes(n) \/ \E item \in Items : Submit(n, item)
      PROVE  RoomOK'
  BY <1>1, <1>3 DEF Start, Synchronizes, SyncTick, FetchBlocks, AddFetched, FetchEnds,
                    AskDifference, Submit
<1>4. ASSUME NEW n \in Node, JoinsSome(n) \/ RenewsSome(n)
      PROVE  RoomOK'
  BY <1>1, <1>4, SubscribesRoom DEF JoinsSome, RenewsSome, SubscribeToNode, SubscribeToSubscriber
<1>5. ASSUME NEW n \in Node, NEW p \in Node, Sends(n, p) PROVE RoomOK'
  BY <1>1, <1>5, SendRoom DEF Sends, WaitsForRoom
<1>6. ASSUME NEW n \in Node, NEW p \in Node, EndOfStream(n, p) \/ LoseConnection(n, p)
      PROVE  RoomOK'
  BY <1>6, StopsRoom DEF EndOfStream, LoseConnection
<1> QED
  BY <1>2, <1>3, <1>4, <1>5, <1>6, CrashRoom, RemoveRoom, ListenRoom DEF Next

(* In every network of gRPC nodes, with any seeds, crashes and lost        *)
(* connections: a node listens to, joins and asks only nodes it is         *)
(* connected to, which are not itself, a stream that holds items has a     *)
(* listener and room for them, no more than two items are left to a        *)
(* forward task, and nothing of a node that ended is left (broadcast,      *)
(* subscribe_for_new_items).                                               *)
THEOREM GossipTypes == FairSpec => []GossipTypeOK
<1>1. Init => GossipInv /\ RoomOK
  <2>1. ASSUME Init PROVE RoomOK
    BY <2>1, GossipAssumption DEF Init, RoomOK, Pairs
  <2> QED
    BY <2>1, InitGossipInv
<1>2. GossipInv /\ RoomOK /\ [Next]_vars => GossipInv' /\ RoomOK'
  BY NextGossipInv, NextRoom
<1>3. GossipInv /\ RoomOK => GossipTypeOK
  BY GossipInvTypes
<1> QED
  BY <1>1, <1>2, <1>3, PTL DEF FairSpec

-----------------------------------------------------------------------------
(* Agreement.  What nodes hold, pass on and fetch has been submitted, and  *)
(* their chains are linked.                                                *)

Sent     == \A n, s \in Node : sending[n][s] # None => sending[n][s].item \in found
OnTheWay == stream \in Pairs(Seq(found))
Fetched  == \A n \in Node : sync[n].got \in Seq(Mined)
AgreeInv == GossipInv /\ Replicated /\ Sent /\ OnTheWay /\ Fetched

LEMMA PairSubset ==
  ASSUME NEW S, NEW T, S \subseteq T, NEW f \in Pairs(S)
  PROVE  f \in Pairs(T)
BY DEF Pairs

LEMMA SeqSubset ==
  ASSUME NEW S, NEW T, S \subseteq T
  PROVE  Seq(S) \subseteq Seq(T)
OBVIOUS

(* Submissions, which leave all this where it is.                          *)
LEMMA FoundAgrees ==
  ASSUME AgreeInv, found \subseteq found'
  PROVE  /\ UNCHANGED chain => Replicated'
         /\ UNCHANGED sending => Sent'
         /\ UNCHANGED stream => OnTheWay'
         /\ UNCHANGED sync => Fetched'
<1>1. UNCHANGED chain => Replicated'
  BY FoundReplicated DEF AgreeInv
<1>2. UNCHANGED sending => Sent'
  BY DEF AgreeInv, Sent
<1>3. UNCHANGED stream => OnTheWay'
  <2>1. Seq(found) \subseteq Seq(found')
    BY SeqSubset
  <2> QED
    BY <2>1, PairSubset DEF AgreeInv, OnTheWay
<1>4. UNCHANGED sync => Fetched'
  BY MinedSeqs DEF AgreeInv, Fetched
<1> QED
  BY <1>1, <1>2, <1>3, <1>4

LEMMA BroadcastsAgrees ==
  ASSUME AgreeInv, found \subseteq found', NEW n \in Node, NEW source \in Node,
         NEW item \in found', Broadcasts(n, item, source)
  PROVE  Sent'
<1> DEFINE hand == IF subscribers[n] \ {source} = {} THEN None
                   ELSE [item |-> item, left |-> subscribers[n] \ {source}, at |-> None]
<1>1. sending' = [sending EXCEPT ![n][source] = hand]
  BY DEF Broadcasts
<1>2. hand # None => hand.item = item
  OBVIOUS
<1> HIDE DEF hand
<1>3. \A a, s \in Node : sending'[a][s] = IF a = n /\ s = source THEN hand ELSE sending[a][s]
  BY <1>1 DEF AgreeInv, GossipInv, SendingOK
<1> QED
  BY <1>2, <1>3 DEF AgreeInv, Sent

(* add_block of a block that comes from a client, a peer or an answer.     *)
LEMMA AddsAgrees ==
  ASSUME AgreeInv, found \subseteq found', NEW n \in Node, NEW b \in Blocks, b \in found',
         Extends(n, b), Adds(n, b)
  PROVE  Replicated'
<1>1. b \in Mined'
  BY DEF Mined
<1> QED
  BY <1>1, AddsReplicated DEF AgreeInv

LEMMA SubmitAgrees ==
  ASSUME AgreeInv, NEW n \in Node, NEW item \in Items, Submit(n, item)
  PROVE  Replicated' /\ Sent' /\ OnTheWay' /\ Fetched'
<1>1. item \in found' /\ found \subseteq found' /\ UNCHANGED <<stream, sync>>
  BY DEF Submit, linkVars, taskVars
<1>2. Replicated'
  <2>1. CASE item \in Blocks /\ Extends(n, item) /\ Adds(n, item)
    BY <1>1, <2>1, AddsAgrees
  <2>2. CASE Queues(n, item)
    BY <1>1, <2>2, FoundAgrees DEF Queues
  <2> QED
    BY <2>1, <2>2 DEF Submit
<1>3. Sent'
  BY <1>1, BroadcastsAgrees DEF Submit
<1> QED
  BY <1>1, <1>2, <1>3, FoundAgrees

LEMMA SendsAgrees ==
  ASSUME AgreeInv, NEW n \in Node, NEW source \in Node, NEW p \in Node,
         Send(n, source, p) \/ WaitsForRoom(n, source, p)
  PROVE  Replicated' /\ Sent' /\ OnTheWay' /\ Fetched'
<1> DEFINE hand == sending[n][source]
<1>1. found \subseteq found' /\ UNCHANGED <<found, chain, sync>>
  BY DEF Send, WaitsForRoom, chainVars, taskVars
<1>2. hand # None /\ hand.item \in found /\ hand \in Broadcast
  BY DEF AgreeInv, Sent, Send, WaitsForRoom, GossipInv, SendingOK
<1>3. Sent'
  <2>1. PICK next \in {None, [hand EXCEPT !.left = @ \ {p}, !.at = None], [hand EXCEPT !.at = p]} :
          sending' = [sending EXCEPT ![n][source] = next]
    BY <1>2 DEF Send, WaitsForRoom, AgreeInv, GossipInv, SendingOK
  <2>2. next # None => next.item = hand.item
    BY <1>2 DEF Broadcast
  <2>3. \A a, s \in Node : sending'[a][s] = IF a = n /\ s = source THEN next ELSE sending[a][s]
    BY <2>1 DEF AgreeInv, GossipInv, SendingOK
  <2> QED
    BY <1>1, <1>2, <2>2, <2>3 DEF AgreeInv, Sent
<1>4. OnTheWay'
  <2>1. CASE UNCHANGED stream
    BY <1>1, <2>1, FoundAgrees
  <2>2. CASE stream' = [stream EXCEPT ![n][p] = Append(stream[n][p], hand.item)]
    <3> DEFINE more == Append(stream[n][p], hand.item)
    <3>1. stream' = Changed(stream, n, p, more)
      BY <2>2 DEF Changed
    <3>2. stream[n][p] \in Seq(found)
      BY PairValue DEF AgreeInv, OnTheWay
    <3>3. more \in Seq(found)
      BY <1>2, <3>2
    <3> HIDE DEF more
    <3>4. stream' \in Pairs(Seq(found))
      BY <3>1, <3>3, PairChanges DEF AgreeInv, OnTheWay
    <3> QED
      BY <1>1, <3>4 DEF OnTheWay
  <2> QED
    BY <2>1, <2>2 DEF Send, WaitsForRoom, linkVars
<1> QED
  BY <1>1, <1>3, <1>4, FoundAgrees

LEMMA StopsAgrees ==
  ASSUME AgreeInv, UNCHANGED found, NEW p \in Node, NEW n \in Node, NEW rest \in Seq(found),
         stream' = [stream EXCEPT ![n][p] = rest]
  PROVE  OnTheWay'
<1> DEFINE S == Seq(found)
<1>1. stream' = Changed(stream, n, p, rest)
  BY DEF Changed
<1>2. stream \in Pairs(S) /\ rest \in S
  BY DEF AgreeInv, OnTheWay
<1>3. S' = S
  OBVIOUS
<1> HIDE DEF S
<1>4. Changed(stream, n, p, rest) \in Pairs(S)
  BY <1>2, PairChanges
<1> QED
  BY <1>1, <1>3, <1>4 DEF OnTheWay, S

LEMMA ListenAgrees ==
  ASSUME AgreeInv, NEW p \in Node, NEW n \in Node, Listen(p, n)
  PROVE  Replicated' /\ Sent' /\ OnTheWay' /\ Fetched'
<1> DEFINE old  == stream[n][p]
           item == Head(old)
<1>1. UNCHANGED <<found, sync>> /\ found \subseteq found'
  BY DEF Listen, taskVars
<1>2. old \in Seq(found) /\ old # <<>>
  BY PairValue DEF AgreeInv, OnTheWay, Listen
<1>3. item \in found' /\ Tail(old) \in Seq(found) /\ <<>> \in Seq(found)
  BY <1>1, <1>2
<1>4. stream' = [stream EXCEPT ![n][p] = Tail(old)] \/ stream' = [stream EXCEPT ![n][p] = <<>>]
  BY DEF Listen, Receives, StopsListening
<1>5. \/ UNCHANGED <<chain, sending>>
      \/ /\ Broadcasts(p, item, n)
         /\ \/ item \in Blocks /\ Extends(p, item) /\ Adds(p, item)
            \/ Queues(p, item)
  BY DEF Listen, Known, chainVars
<1> HIDE DEF old, item
<1>6. OnTheWay'
  BY <1>1, <1>3, <1>4, StopsAgrees DEF old
<1>7. Replicated'
  BY <1>1, <1>3, <1>5, AddsAgrees, FoundAgrees DEF Queues
<1>8. Sent'
  BY <1>1, <1>3, <1>5, BroadcastsAgrees, FoundAgrees
<1> QED
  BY <1>1, <1>6, <1>7, <1>8, FoundAgrees

LEMMA IdleFetched == Idle.got \in Seq(Mined)
BY DEF Idle

(* What a synchronization fetches is part of a chain.                      *)
LEMMA FetchedChanges ==
  ASSUME AgreeInv, UNCHANGED found, NEW n \in Node, NEW s, s.got \in Seq(Mined),
         sync' = [sync EXCEPT ![n] = s]
  PROVE  Fetched'
<1>1. sync \in [Node -> Sync]
  BY DEF AgreeInv, GossipInv, NodesOK
<1>2. \A p \in Node : sync'[p] = IF p = n THEN s ELSE sync[p]
  BY <1>1
<1>3. Mined' = Mined
  BY DEF Mined
<1> QED
  BY <1>2, <1>3 DEF AgreeInv, Fetched

LEMMA EndsAgrees ==
  ASSUME AgreeInv, UNCHANGED <<found, stream, sending>>, NEW n \in Node, Fails(n) \/ Finishes(n)
  PROVE  Replicated' /\ Sent' /\ OnTheWay' /\ Fetched'
<1>1. found \subseteq found'
  OBVIOUS
<1>2. Fetched'
  BY FetchedChanges, IdleFetched DEF Fails, Finishes
<1>3. Replicated'
  BY <1>1, FoundAgrees, LeavesSavedReplicated DEF AgreeInv, Fails, Finishes, chainVars
<1> QED
  BY <1>1, <1>2, <1>3, FoundAgrees

LEMMA SyncAgrees ==
  ASSUME AgreeInv, NEW n \in Node, Synchronizes(n)
  PROVE  Replicated' /\ Sent' /\ OnTheWay' /\ Fetched'
<1>1. UNCHANGED <<found, stream, sending>> /\ found \subseteq found'
  BY DEF Synchronizes, SyncTick, AskDifference, FetchBlocks, AddFetched, FetchEnds, linkVars
<1>2. sync[n] \in Sync /\ sync[n].got \in Seq(Mined) /\ sync \in [Node -> Sync]
  BY DEF AgreeInv, GossipInv, NodesOK, Fetched
<1>3. CASE SyncTick(n) \/ \E p \in Node : AskDifference(n, p)
  <2>1. UNCHANGED chain
    BY <1>3 DEF SyncTick, AskDifference, chainVars
  <2>2. CASE SyncTick(n)
    <3>1. sync' = [sync EXCEPT ![n] = [Idle EXCEPT !.at = "ask", !.todo = nodes[n]]]
      BY <2>2 DEF SyncTick
    <3>2. [Idle EXCEPT !.at = "ask", !.todo = nodes[n]].got \in Seq(Mined)
      BY DEF Idle
    <3> QED
      BY <1>1, <2>1, <3>1, <3>2, FetchedChanges, FoundAgrees
  <2>3. ASSUME NEW p \in Node, AskDifference(n, p) PROVE Fetched'
    <3>1. \A q \in Node : sync'[q].got = sync[q].got
      BY <1>2, <2>3 DEF AskDifference, Sync
    <3>2. Mined' = Mined
      BY <1>1 DEF Mined
    <3> QED
      BY <3>1, <3>2 DEF AgreeInv, Fetched
  <2> QED
    BY <1>1, <1>3, <2>1, <2>2, <2>3, FoundAgrees
<1>4. CASE Fails(n) \/ Finishes(n)
  BY <1>1, <1>4, EndsAgrees
<1>5. CASE FetchBlocks(n) /\ ~(Fails(n) \/ Finishes(n))
  <2> DEFINE p    == sync[n].best
             have == Len(chain[n])
             got  == Missing(chain[p], have, sync[n].count)
  <2>1. /\ p # None /\ UNCHANGED chain
        /\ sync' = [sync EXCEPT ![n].at = "fetch", ![n].got = got]
    BY <1>5 DEF FetchBlocks, NoneLonger, chainVars
  <2>2. chain[p] \in Seq(Mined) /\ have \in Nat /\ sync[n].count \in Nat
    <3>1. p \in Node /\ sync[n].count \in Nat
      BY <1>2, <2>1 DEF Sync
    <3>2. chain[p] \in Seq(Mined) /\ chain[n] \in Seq(Mined)
      BY <3>1 DEF AgreeInv, Replicated
    <3> QED
      BY <3>1, <3>2
  <2> HIDE DEF have
  <2>3. got \in Seq(Mined)
    BY <2>2, MissingBlocks
  <2> HIDE DEF got
  <2>4. sync' = [sync EXCEPT ![n] = [sync[n] EXCEPT !.at = "fetch", !.got = got]]
    BY <1>2, <2>1
  <2>5. [sync[n] EXCEPT !.at = "fetch", !.got = got].got = got
    BY <1>2 DEF Sync
  <2>6. Fetched'
    BY <1>1, <2>3, <2>4, <2>5, FetchedChanges
  <2> QED
    BY <1>1, <2>1, <2>6, FoundAgrees
<1>6. CASE AddFetched(n) /\ ~(Fails(n) \/ Finishes(n))
  <2> DEFINE b == Head(sync[n].got)
  <2>1. /\ sync[n].got # <<>> /\ Extends(n, b) /\ Adds(n, b)
        /\ sync' = [sync EXCEPT ![n].got = Tail(sync[n].got)]
    BY <1>2, <1>6 DEF AddFetched
  <2>2. b \in Mined /\ Tail(sync[n].got) \in Seq(Mined)
    BY <1>2, <2>1
  <2> HIDE DEF b
  <2>3. Replicated'
    BY <1>1, <2>1, <2>2, AddsAgrees DEF Mined
  <2>4. sync' = [sync EXCEPT ![n] = [sync[n] EXCEPT !.got = Tail(sync[n].got)]]
    BY <1>2, <2>1
  <2>5. [sync[n] EXCEPT !.got = Tail(sync[n].got)].got = Tail(sync[n].got)
    BY <1>2 DEF Sync
  <2>6. Fetched'
    BY <1>1, <2>2, <2>4, <2>5, FetchedChanges
  <2> QED
    BY <1>1, <2>3, <2>6, FoundAgrees
<1> QED
  BY <1>3, <1>4, <1>5, <1>6 DEF Synchronizes, FetchEnds

LEMMA CrashAgrees ==
  ASSUME AgreeInv, NEW n \in Node, Crash(n)
  PROVE  Replicated' /\ Sent' /\ OnTheWay' /\ Fetched'
<1>1. UNCHANGED found /\ found \subseteq found'
  BY DEF Crash
<1>2. Replicated'
  BY <1>1, LeavesSavedReplicated DEF AgreeInv, Crash
<1>3. Sent'
  <2>1. sending' = [sending EXCEPT ![n] = [s \in Node |-> None]]
    BY DEF Crash
  <2>2. \A a, s \in Node : sending'[a][s] \in {None, sending[a][s]}
    BY <2>1 DEF AgreeInv, GossipInv, SendingOK
  <2> QED
    BY <1>1, <2>2 DEF AgreeInv, Sent
<1>4. OnTheWay'
  <2>1. stream' = [a \in Node |-> [q \in Node |-> IF n \in {a, q} THEN <<>> ELSE stream[a][q]]]
    BY DEF Crash
  <2>2. ASSUME NEW a \in Node, NEW q \in Node PROVE stream[a][q] \in Seq(found)
    BY PairValue DEF AgreeInv, OnTheWay
  <2>3. <<>> \in Seq(found)
    OBVIOUS
  <2> QED
    BY <1>1, <2>1, <2>2, <2>3 DEF OnTheWay, Pairs
<1>5. Fetched'
  BY <1>1, FetchedChanges, IdleFetched DEF Crash
<1> QED
  BY <1>2, <1>3, <1>4, <1>5

LEMMA NextAgrees ==
  ASSUME AgreeInv, [Next]_vars
  PROVE  AgreeInv'
<1>1. GossipInv'
  BY NextGossipInv DEF AgreeInv
<1> DEFINE Agreed == Replicated /\ Sent /\ OnTheWay /\ Fetched
<1>2. ASSUME UNCHANGED <<found, chain, sending, stream, sync>> PROVE Agreed'
  BY <1>2, FoundAgrees
<1>3. ASSUME UNCHANGED vars PROVE Agreed'
  BY <1>2, <1>3 DEF vars, chainVars, linkVars, taskVars
<1>4. ASSUME Next PROVE Agreed'
  <2>1. PICK n \in Node :
          \/ Start(n) \/ Crash(n) \/ JoinsSome(n) \/ RenewsSome(n) \/ Synchronizes(n)
          \/ \E item \in Items : Submit(n, item)
          \/ \E p \in Node :
               \/ Sends(n, p) \/ RemoveSubscriber(n, p)
               \/ Listen(n, p) \/ EndOfStream(n, p) \/ LoseConnection(n, p)
    BY <1>4 DEF Next
  <2>2. CASE Start(n)
    <3>1. UNCHANGED <<found, chain, sending, stream>> /\ found \subseteq found'
      BY <2>2 DEF Start, chainVars, linkVars
    <3>2. Fetched'
      <4>1. CASE sync' = [sync EXCEPT ![n] = [Idle EXCEPT !.at = "ask", !.todo = nodes'[n]]]
        <5>1. [Idle EXCEPT !.at = "ask", !.todo = nodes'[n]].got \in Seq(Mined)
          BY DEF Idle
        <5> QED
          BY <3>1, <4>1, <5>1, FetchedChanges
      <4>2. CASE UNCHANGED sync
        BY <3>1, <4>2, FoundAgrees
      <4> QED
        BY <2>2, <4>1, <4>2 DEF Start
    <3> QED
      BY <3>1, <3>2, FoundAgrees
  <2>3. CASE JoinsSome(n) \/ RenewsSome(n)
    BY <1>2, <2>3 DEF JoinsSome, RenewsSome, SubscribeToNode, SubscribeToSubscriber, Subscribes,
                      chainVars, linkVars
  <2>4. ASSUME NEW item \in Items, Submit(n, item) PROVE Agreed'
    BY <2>4, SubmitAgrees
  <2>5. ASSUME NEW p \in Node, Sends(n, p) PROVE Agreed'
    BY <2>5, SendsAgrees DEF Sends
  <2>6. ASSUME NEW p \in Node, RemoveSubscriber(n, p) PROVE Agreed'
    BY <1>2, <2>6 DEF RemoveSubscriber, chainVars, taskVars
  <2>7. ASSUME NEW p \in Node, EndOfStream(n, p) \/ LoseConnection(n, p) PROVE Agreed'
    <3>1. UNCHANGED <<found, chain, sending, sync>> /\ found \subseteq found'
      BY <2>7 DEF EndOfStream, LoseConnection, chainVars, taskVars
    <3>2. stream' = [stream EXCEPT ![p][n] = <<>>] /\ <<>> \in Seq(found)
      BY <2>7 DEF EndOfStream, LoseConnection, StopsListening
    <3>3. OnTheWay'
      BY <3>1, <3>2, StopsAgrees
    <3> QED
      BY <3>1, <3>3, FoundAgrees
  <2>8. CASE Synchronizes(n)
    BY <2>8, SyncAgrees
  <2>9. CASE Crash(n)
    BY <2>9, CrashAgrees
  <2>10. ASSUME NEW p \in Node, Listen(n, p) PROVE Agreed'
    BY <2>10, ListenAgrees
  <2> HIDE DEF Agreed
  <2> QED
    BY <2>1, <2>2, <2>3, <2>4, <2>5, <2>6, <2>7, <2>8, <2>9, <2>10
<1>5. Agreed'
  BY <1>3, <1>4
<1> QED
  BY <1>1, <1>5 DEF AgreeInv

(* In every network of gRPC nodes, with any clients, crashes that go back  *)
(* to an older save, lost connections and blocks that come from a listener *)
(* in the middle of a synchronization: nodes disagree only where two       *)
(* clients have submitted different blocks on the same predecessor         *)
(* (add_block, fetch_missing_blocks).                                      *)
THEOREM GossipAgreement == FairSpec => []OnlyMinersFork
<1>1. Init => AgreeInv
  <2> SUFFICES ASSUME Init PROVE AgreeInv
    OBVIOUS
  <2>1. GossipInv
    BY InitGossipInv
  <2>2. Replicated /\ Sent
    BY DEF Init, Replicated, Linked, Sent
  <2>3. OnTheWay
    BY DEF Init, OnTheWay, Pairs
  <2>4. Fetched
    BY IdleFetched DEF Init, Fetched
  <2> QED
    BY <2>1, <2>2, <2>3, <2>4 DEF AgreeInv
<1>2. AgreeInv /\ [Next]_vars => AgreeInv'
  BY NextAgrees
<1>3. AgreeInv => OnlyMinersFork
  BY ForksAreMined DEF AgreeInv
<1> QED
  BY <1>1, <1>2, <1>3, PTL DEF FairSpec
=============================================================================
