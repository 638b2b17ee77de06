------------------------------- MODULE Gossip -------------------------------
(***************************************************************************)
(* The network of gRPC nodes (node/src/grpc_node.rs, node/src/grpc/*.rs).  *)
(*                                                                         *)
(* A node connects to its seeds and to the nodes these know, downloads the *)
(* longest chain it finds, and subscribes to the new blocks and            *)
(* transactions of every node it is connected to.  What it accepts, from a *)
(* client or from a stream, it broadcasts to its subscribers, one after    *)
(* the other.  Two periodic tasks run beside this: one synchronizes the    *)
(* chain with the longest among the peers, one subscribes to subscribers.  *)
(*                                                                         *)
(* On its way an item passes a channel of one, the forward task and a      *)
(* channel and buffers of the connection.  While a stream has a listener   *)
(* all these are one queue with room for Capacity items; when it has ended *)
(* only the first two count.  Module Streams takes them apart.             *)
(***************************************************************************)
EXTENDS Replica

CONSTANTS
  Seeds,      \* for each node, those named on its command line
  Capacity,   \* how many items there is room for between two nodes
  MaxFaults,  \* bound on the crashes and lost connections
  Syncing     \* bound on the nodes whose synchronization timer fires

VARIABLES
  status,     \* "down", "starting" (no server yet) or "up"
  nodes,      \* peers.nodes: for each node, those it is connected to
  subscribers,\* peers.subscribers
  listens,    \* for each node, those whose stream it has a listener for
  stream,     \* stream[n][p]: items from n to p not received yet
  unsent,     \* unsent[n][p]: items left to the forward task of an ended stream
  removing,   \* removing[n][p]: those left to the tasks of replaced streams
  sending,    \* sending[n][s]: the broadcast at n of an item from s, or None
  sync,       \* the synchronization at each node
  joining,    \* nodes that subscribe_to_nodes has still to subscribe to
  renewing,   \* does subscribe_to_subscribers still run?
  faults

linkVars  == <<subscribers, listens, stream, unsent, removing>>
taskVars  == <<sync, joining, renewing>>
vars == <<status, chainVars, nodes, linkVars, sending, taskVars, found, faults>>

ASSUME GossipAssumption ==
  /\ Seeds \in [Node -> SUBSET Node] /\ \A n \in Node : n \notin Seeds[n]
  /\ Capacity \in Nat /\ Capacity >= 3
  /\ MaxFaults \in Nat /\ Syncing \subseteq Node

Up(n) == status[n] = "up"

(* The handler of a submission broadcasts with the blockchain locked.      *)
Free(n) == sending[n][n] = None

-----------------------------------------------------------------------------
(* Broadcasting *)

(* Mutant of Broadcasts: only the source is not skipped.                   *)
SendsBack(n, item, source) ==
  LET targets == subscribers[n] \cap {source}
  IN  sending' = [sending EXCEPT ![n][source] =
        IF targets = {} THEN None ELSE [item |-> item, left |-> targets, at |-> None]]

(* A broadcast goes to the subscribers there are, but not to the source.   *)
Broadcasts(n, item, source) ==
  LET targets == subscribers[n] \ {source}
  IN  sending' = [sending EXCEPT ![n][source] =
        IF targets = {} THEN None ELSE [item |-> item, left |-> targets, at |-> None]]

(* A client submits a block or a transaction; what is refused changes      *)
(* nothing.  A block is found once, from transactions of the mempool. *)
Submit(n, item) ==
  /\ Up(n) /\ Free(n) /\ item \notin found
  /\ \/ item \in Blocks /\ Body[item] \subseteq pool[n] /\ Extends(n, item) /\ Adds(n, item)
     \/ item \in Txs \ pool[n] /\ Spendable(n, item) /\ Queues(n, item)
  /\ Broadcasts(n, item, n)
  /\ found' = found \cup {item}
  /\ UNCHANGED <<status, nodes, linkVars, taskVars, faults>>

(* Where the next item for a subscriber has to wait: nobody reads any      *)
(* more, the forward task has one item in hand and the channel another.    *)
HasRoom(n, p) ==
  IF n \in listens[p] THEN Len(stream[n][p]) < Capacity ELSE unsent[n][p] < 2

(* The item enters the channel of the next subscriber.                     *)
Send(n, source, p) ==
  LET hand == sending[n][source]
  IN  /\ hand # None /\ p \in hand.left /\ hand.at \in {None, p}
      /\ IF p \notin subscribers[n] THEN UNCHANGED <<stream, unsent>>
         ELSE /\ HasRoom(n, p)
              /\ IF n \in listens[p]
                 THEN stream' = [stream EXCEPT ![n][p] = Append(@, hand.item)] /\ UNCHANGED unsent
                 ELSE unsent' = [unsent EXCEPT ![n][p] = @ + 1] /\ UNCHANGED stream
      /\ sending' = [sending EXCEPT ![n][source] =
           IF hand.left = {p} THEN None ELSE [hand EXCEPT !.left = @ \ {p}, !.at = None]]
      /\ UNCHANGED <<status, chainVars, nodes, subscribers, listens, removing, taskVars, found, faults>>

(* Or it waits for room, with the shard of the subscriber locked.          *)
WaitsForRoom(n, source, p) ==
  LET hand == sending[n][source]
  IN  /\ hand # None /\ p \in hand.left \cap subscribers[n] /\ hand.at = None /\ ~HasRoom(n, p)
      /\ sending' = [sending EXCEPT ![n][source].at = p]
      /\ UNCHANGED <<status, chainVars, nodes, linkVars, taskVars, found, faults>>

(* Nobody waits with the shard locked in which n has its subscriber p.     *)
ShardFree(n, p) == \A s \in Node : sending[n][s] # None => sending[n][s].at # p

(* A forward task that cannot pass on an item removes its subscriber, by   *)
(* its address, whoever has subscribed with it meanwhile.                  *)
RemoveSubscriber(n, p) ==
  /\ ShardFree(n, p)
  /\ \/ /\ unsent[n][p] > 0
        /\ unsent' = [unsent EXCEPT ![n][p] = @ - 1] /\ UNCHANGED removing
     \/ /\ removing[n][p] > 0
        /\ removing' = [removing EXCEPT ![n][p] = @ - 1] /\ UNCHANGED unsent
  /\ subscribers' = [subscribers EXCEPT ![n] = @ \ {p}]
  /\ UNCHANGED <<status, chainVars, nodes, listens, stream, sending, taskVars, found, faults>>

-----------------------------------------------------------------------------
(* Listening *)

(* The listener is gone.  Of the items on their way to it the last may not *)
(* have passed the forward task yet.                                       *)
StopsListening(p, n, items) ==
  /\ listens' = [listens EXCEPT ![p] = @ \ {n}]
  /\ stream' = [stream EXCEPT ![n][p] = <<>>]
  /\ \E k \in 0..2 : k <= Len(items) /\ unsent' = [unsent EXCEPT ![n][p] = k]
  /\ UNCHANGED <<subscribers, removing>>

Receives(p, n) ==
  stream' = [stream EXCEPT ![n][p] = Tail(@)] /\ UNCHANGED <<subscribers, listens, unsent, removing>>

(* Mutant of Known: what is in the mempool is accepted once more.          *)
KnownBlock(n, item) == item \in Blocks /\ ~Extends(n, item)

(* Refused without closing the connection.                                 *)
Known(n, item) ==
  \/ item \in Blocks /\ ~Extends(n, item)
  \/ item \in pool[n]

(* The listener takes the next item, once it has broadcast the one before. *)
(* Any other reason to refuse a transaction ends the listener.             *)
Listen(p, n) ==
  /\ n \in listens[p] /\ stream[n][p] # <<>> /\ Free(p) /\ sending[p][n] = None
  /\ LET item == Head(stream[n][p])
     IN  \/ /\ Known(p, item)
            /\ Receives(p, n) /\ UNCHANGED <<chainVars, sending>>
         \/ /\ ~Known(p, item) /\ item \in Txs /\ ~Spendable(p, item)
            /\ StopsListening(p, n, Tail(stream[n][p])) /\ UNCHANGED <<chainVars, sending>>
         \/ /\ ~Known(p, item)
            /\ \/ item \in Blocks /\ Adds(p, item)
               \/ item \in Txs /\ Spendable(p, item) /\ Queues(p, item)
            /\ Receives(p, n) /\ Broadcasts(p, item, n)
  /\ UNCHANGED <<status, nodes, taskVars, found, faults>>

(* The sender's side has dropped the channel: the stream ends.             *)
EndOfStream(p, n) ==
  /\ n \in listens[p] /\ p \notin subscribers[n] /\ stream[n][p] = <<>>
  /\ StopsListening(p, n, <<>>)
  /\ UNCHANGED <<status, chainVars, nodes, sending, taskVars, found, faults>>

(* create_subscription, and subscribe_for_new_items at the other node: a   *)
(* new channel replaces the one the subscriber had, whose task goes on.    *)
Subscribes(p, n) ==
  /\ ShardFree(n, p)
  /\ subscribers' = [subscribers EXCEPT ![n] = @ \cup {p}]
  /\ listens' = [listens EXCEPT ![p] = @ \cup {n}]
  /\ unsent' = [unsent EXCEPT ![n][p] = 0]
  /\ removing' = [removing EXCEPT ![n][p] = @ + unsent[n][p]]
  /\ UNCHANGED stream

(* subscribe_to_nodes gives up at the first that does not answer.          *)
SubscribeToNode(p, n) ==
  /\ Up(p) /\ n \in joining[p]
  /\ IF Up(n)
     THEN Subscribes(p, n) /\ joining' = [joining EXCEPT ![p] = @ \ {n}]
     ELSE joining' = [joining EXCEPT ![p] = {}] /\ UNCHANGED linkVars
  /\ UNCHANGED <<status, chainVars, nodes, sending, sync, renewing, found, faults>>

(* Mutant of AddNode: the new connection is not remembered.                *)
ForgetNode(p, n) == UNCHANGED nodes
AddNode(p, n) == nodes' = [nodes EXCEPT ![p] = @ \cup {n}]

(* subscribe_to_subscribers: one it is connected to is left alone; one     *)
(* that does not answer ends the task.                                     *)
SubscribeToSubscriber(p, n) ==
  /\ Up(p) /\ renewing[p] /\ n \in subscribers[p] \ nodes[p]
  /\ IF Up(n)
     THEN Subscribes(p, n) /\ AddNode(p, n) /\ UNCHANGED renewing
     ELSE renewing' = [renewing EXCEPT ![p] = FALSE] /\ UNCHANGED <<linkVars, nodes>>
  /\ UNCHANGED <<status, chainVars, sending, sync, joining, found, faults>>

-----------------------------------------------------------------------------
(* Synchronizing *)

Idle == [at |-> "idle", todo |-> {}, best |-> None, count |-> 0, got |-> <<>>]

(* At a start the first synchronization comes before everything else; the  *)
(* tasks start when it has succeeded, and the program ends when it fails.  *)
Finishes(n) ==
  /\ sync' = [sync EXCEPT ![n] = Idle]
  /\ status' = [status EXCEPT ![n] = "up"]
  /\ joining' = IF Up(n) THEN joining ELSE [joining EXCEPT ![n] = nodes[n]]
  /\ UNCHANGED <<chainVars, nodes>>
Fails(n) ==
  /\ sync' = [sync EXCEPT ![n] = Idle]
  /\ IF Up(n) THEN UNCHANGED <<status, chain, nodes>>
     ELSE /\ status' = [status EXCEPT ![n] = "down"] /\ LeavesSaved(n)
          /\ nodes'  = [nodes EXCEPT ![n] = {}]
  /\ UNCHANGED <<pool, joining>>

(* Mutant of NoneLonger: that there is nothing to fetch is an error.       *)
NoneLongerFails(n) == Fails(n)
NoneLonger(n)      == Finishes(n)

SyncTick(n) ==
  /\ n \in Syncing /\ Up(n) /\ sync[n].at = "idle" /\ nodes[n] # {}
  /\ sync' = [sync EXCEPT ![n] = [Idle EXCEPT !.at = "ask", !.todo = nodes[n]]]
  /\ UNCHANGED <<status, chainVars, nodes, linkVars, sending, joining, renewing, found, faults>>

(* ask_difference: how many blocks the other has more.  A node that does   *)
(* not answer is passed over; among the longest the first asked is kept.   *)
AskDifference(n, p) ==
  LET longer == Len(chain[p]) - Len(chain[n])
      asked  == [sync[n] EXCEPT !.todo = @ \ {p}]
  IN  /\ sync[n].at = "ask" /\ p \in sync[n].todo /\ Free(n) /\ (Up(p) => Free(p))
      /\ sync' = [sync EXCEPT ![n] =
           IF Up(p) /\ longer > asked.count
           THEN [asked EXCEPT !.best = p, !.count = longer] ELSE asked]
      /\ UNCHANGED <<status, chainVars, nodes, linkVars, sending, joining, renewing, found, faults>>

(* Mutant of Missing: the first missing block is left out.                 *)
MissingFromNext(theirs, have, need) == SubSeq(theirs, have + 2, Min({have + 1 + need, Len(theirs)}))
Missing(theirs, have, need) == SubSeq(theirs, have + 1, Min({have + need, Len(theirs)}))

(* fetch_missing_blocks: the height is read once more; the other answers   *)
(* with what it has at the moment.                                         *)
FetchBlocks(n) ==
  /\ sync[n].at = "ask" /\ sync[n].todo = {} /\ Free(n)
  /\ LET p == sync[n].best
         got == Missing(chain[p], Len(chain[n]), sync[n].count)
     IN  IF p = None THEN NoneLonger(n)
         ELSE IF ~Up(p) THEN Fails(n)
         ELSE /\ Free(p)
              /\ sync' = [sync EXCEPT ![n].at = "fetch", ![n].got = got]
              /\ UNCHANGED <<status, chainVars, nodes, joining>>
  /\ UNCHANGED <<linkVars, sending, renewing, found, faults>>

(* One block of the answer.  Blocks may have been added in between.        *)
AddFetched(n) ==
  /\ sync[n].at = "fetch" /\ sync[n].got # <<>> /\ Free(n)
  /\ LET b == Head(sync[n].got)
     IN  IF Extends(n, b)
         THEN /\ Adds(n, b) /\ sync' = [sync EXCEPT ![n].got = Tail(@)]
              /\ UNCHANGED <<status, nodes, joining>>
         ELSE Fails(n)
  /\ UNCHANGED <<linkVars, sending, renewing, found, faults>>

(* All blocks are there, or the stream broke with the other node.          *)
FetchEnds(n) ==
  /\ sync[n].at = "fetch"
  /\ \/ sync[n].got = <<>> /\ Free(n) /\ Finishes(n)
     \/ ~Up(sync[n].best) /\ Fails(n)
  /\ UNCHANGED <<linkVars, sending, renewing, found, faults>>

-----------------------------------------------------------------------------
(* Starting and failing *)

(* All seeds must answer; of the nodes they know those that do are added.  *)
Start(n) ==
  /\ status[n] = "down" /\ \A s \in Seeds[n] : Up(s)
  /\ LET known == {p \in UNION {nodes[s] : s \in Seeds[n]} : Up(p)}
     IN  nodes' = [nodes EXCEPT ![n] = (Seeds[n] \cup known) \ {n}]
  /\ IF Seeds[n] = {}
     THEN status' = [status EXCEPT ![n] = "up"] /\ UNCHANGED sync
     ELSE /\ status' = [status EXCEPT ![n] = "starting"]
          /\ sync' = [sync EXCEPT ![n] = [Idle EXCEPT !.at = "ask", !.todo = nodes'[n]]]
  /\ UNCHANGED <<chainVars, linkVars, sending, joining, renewing, found, faults>>

(* Everything in memory is lost, and every connection.                     *)
Crash(n) ==
  /\ status[n] # "down" /\ faults < MaxFaults
  /\ LeavesSaved(n)
  /\ pool' = [pool EXCEPT ![n] = {}]
  /\ status' = [status EXCEPT ![n] = "down"]
  /\ nodes' = [nodes EXCEPT ![n] = {}]
  /\ subscribers' = [subscribers EXCEPT ![n] = {}]
  /\ removing' = [removing EXCEPT ![n] = [p \in Node |-> 0]]
  /\ \E left \in [Node -> 0..2] :
       /\ \A q \in Node : left[q] <= Len(stream[q][n])
       /\ unsent' = [q \in Node |-> [p \in Node |->
            IF q = n THEN 0 ELSE IF p = n /\ q \in listens[n] THEN left[q] ELSE unsent[q][p]]]
  /\ listens' = [p \in Node |-> IF p = n THEN {} ELSE listens[p] \ {n}]
  /\ stream' = [p \in Node |-> [q \in Node |-> IF n \in {p, q} THEN <<>> ELSE stream[p][q]]]
  /\ sending' = [sending EXCEPT ![n] = [s \in Node |-> None]]
  /\ sync' = [sync EXCEPT ![n] = Idle]
  /\ joining' = [joining EXCEPT ![n] = {}]
  /\ renewing' = [renewing EXCEPT ![n] = TRUE]
  /\ faults' = faults + 1 /\ UNCHANGED found

(* The connection under the stream is lost, and what was on its way.  A    *)
(* client connects again by itself when it makes its next call.            *)
LoseConnection(p, n) ==
  /\ n \in listens[p] /\ faults < MaxFaults
  /\ StopsListening(p, n, stream[n][p])
  /\ faults' = faults + 1
  /\ UNCHANGED <<status, chainVars, nodes, sending, taskVars, found>>

-----------------------------------------------------------------------------
Init ==
  /\ status = [n \in Node |-> "down"] /\ chain = [n \in Node |-> <<>>]
  /\ pool = [n \in Node |-> {}] /\ nodes = [n \in Node |-> {}]
  /\ subscribers = [n \in Node |-> {}] /\ listens = [n \in Node |-> {}]
  /\ stream = [n \in Node |-> [p \in Node |-> <<>>]]
  /\ unsent = [n \in Node |-> [p \in Node |-> 0]] /\ removing = unsent
  /\ sending = [n \in Node |-> [s \in Node |-> None]]
  /\ sync = [n \in Node |-> Idle] /\ joining = [n \in Node |-> {}]
  /\ renewing = [n \in Node |-> TRUE] /\ found = {} /\ faults = 0

Sends(n, source) == \E p \in Node : Send(n, source, p) \/ WaitsForRoom(n, source, p)
JoinsSome(n)     == \E p \in Node : SubscribeToNode(n, p)
RenewsSome(n)    == \E p \in Node : SubscribeToSubscriber(n, p)
Synchronizes(n)  ==
  \/ SyncTick(n) \/ FetchBlocks(n) \/ AddFetched(n) \/ FetchEnds(n)
  \/ \E p \in Node : AskDifference(n, p)

Next ==
  \E n \in Node :
    \/ Start(n) \/ Crash(n) \/ JoinsSome(n) \/ RenewsSome(n) \/ Synchronizes(n)
    \/ \E item \in Items : Submit(n, item)
    \/ \E p \in Node :
         \/ Sends(n, p) \/ RemoveSubscriber(n, p)
         \/ Listen(n, p) \/ EndOfStream(n, p) \/ LoseConnection(n, p)

(* A program that ended is started again (compose.yaml), the timers keep   *)
(* firing, and every task that can run does; a broadcast that waits for    *)
(* room can not.  Nobody has to submit, and nothing has to fail.           *)
Fairness ==
  \A n \in Node :
    /\ WF_vars(Start(n)) /\ WF_vars(JoinsSome(n)) /\ WF_vars(RenewsSome(n))
    /\ WF_vars(Synchronizes(n))
    /\ \A p \in Node :
         /\ WF_vars(Sends(n, p)) /\ WF_vars(RemoveSubscriber(n, p))
         /\ WF_vars(Listen(n, p)) /\ WF_vars(EndOfStream(n, p))

FairSpec == Init /\ [][Next]_vars /\ Fairness

-----------------------------------------------------------------------------
(* Properties *)

Broadcast == [item : Items, left : SUBSET Node, at : Node \cup {None}]
Sync == [at : {"idle", "ask", "fetch"}, todo : SUBSET Node, best : Node \cup {None},
         count : Nat, got : Seq(Blocks)]

(* Types; a node listens only to nodes it is connected to, which are not   *)
(* itself (populate_connections, subscribe_to_subscribers), a stream that  *)
(* holds items has a listener and room for them, one that has a listener   *)
(* has not failed, and a node that is down holds nothing.                  *)
GossipTypeOK ==
  /\ status \in [Node -> {"down", "starting", "up"}]
  /\ chain \in [Node -> Seq(Blocks)] /\ pool \in [Node -> SUBSET Txs]
  /\ nodes \in [Node -> SUBSET Node] /\ \A n \in Node : n \notin nodes[n]
  /\ subscribers \in [Node -> SUBSET Node]
  /\ unsent \in [Node -> [Node -> 0..2]] /\ removing \in [Node -> [Node -> Nat]]
  /\ \A n \in Node : listens[n] \cup joining[n] \cup sync[n].todo \subseteq nodes[n]
  /\ \A n, p \in Node :
       /\ stream[n][p] \in Seq(Items) /\ Len(stream[n][p]) <= Capacity
       /\ stream[n][p] # <<>> => n \in listens[p]
       /\ n \in listens[p] => unsent[n][p] = 0
  /\ sending \in [Node -> [Node -> Broadcast \cup {None}]]
  /\ sync \in [Node -> Sync] /\ renewing \in [Node -> BOOLEAN]
  /\ \A n \in Node : status[n] = "down" =>
       /\ nodes[n] = {} /\ subscribers[n] = {} /\ sync[n] = Idle
       /\ \A s \in Node : sending[n][s] = None
  /\ found \subseteq Items /\ faults \in 0..MaxFaults

(* A broadcast that waits for room and a forward task that waits to remove *)
(* the subscriber keep each other waiting until the program ends.  Module  *)
(* Streams has the finding.                                                *)
Jammed(n) ==
  \E s, p \in Node :
    /\ sending[n][s] # None /\ sending[n][s].at = p
    /\ n \notin listens[p] /\ unsent[n][p] = 2

Behind(n, p) == Up(n) /\ Up(p) /\ p \in nodes[n] /\ Len(chain[n]) < Len(chain[p])

(* Without forks, a node that is connected to one with a longer chain      *)
(* catches up, whatever was lost on the streams and whatever these bring   *)
(* while it synchronizes; a jam is the only thing that can keep it from it *)
(* (synchronize_blockchain, broadcast).                                    *)
CatchesUp ==
  \A n \in Syncing, p \in Node : Behind(n, p) ~> ~Behind(n, p) \/ \E q \in Node : Jammed(q)

(* Flooding ends, in cycles of subscriptions too: at some time nothing is  *)
(* broadcast or on its way any more (create_subscription, broadcast).      *)
Quiesces == <>[](\A n, p \in Node : sending[n][p] = None /\ stream[n][p] = <<>>)

(* A transaction that one node holds gets to all the others, or these know *)
(* of a block that confirms it: on some path nobody skips it or refuses it *)
(* (broadcast, create_subscription).                                       *)
TxSpreads ==
  \A tx \in Txs : (\E n \in Node : tx \in pool[n]) ~>
                   (\A n \in Node : tx \in pool[n] \cup Confirmed(n))

(* A node that ended comes up again: its seeds answer at some time, and    *)
(* the first synchronization succeeds, unless a jam keeps a seed from      *)
(* answering (main of grpc_node.rs, ask_difference).                       *)
ComesUp ==
  \A n \in Node : status[n] = "down" ~> Up(n) \/ \E q \in Node : Jammed(q)

(* A node that runs beside a node it is connected to listens to it again   *)
(* when the connection was lost.                                           *)
LostIsRenewed ==
  \A n, p \in Node :
    Up(n) /\ Up(p) /\ p \in nodes[n] ~> p \in listens[n] \/ ~(Up(n) /\ Up(p))
=============================================================================
