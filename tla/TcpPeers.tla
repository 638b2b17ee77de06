------------------------------ MODULE TcpPeers ------------------------------
(***************************************************************************)
(* The network of TCP nodes (node/src/main.rs, peers.rs, handler.rs).      *)
(*                                                                         *)
(* A node opens connections to its seeds and to the nodes these know,      *)
(* downloads the longest chain once, and then sends Subscribe on each of   *)
(* them.  The other node connects back, answers SubscribeAck on the new    *)
(* connection and keeps that one.  So two nodes share two connections,     *)
(* each of which carries blocks and transactions one way: what the client  *)
(* end writes, a handler at the server end reads, in order.  An entry of   *)
(* peers.nodes also names the connection the other node sends on: what     *)
(* came in there is not sent back.                                         *)
(*                                                                         *)
(* A handler keeps the blockchain locked while it broadcasts, and socket   *)
(* buffers are taken to be large enough, so a broadcast is one step.       *)
(***************************************************************************)
EXTENDS Replica

CONSTANTS
  Seeds,      \* for each node, the sequence of those on its command line
  Lines,      \* bound on the connections from one node to another at a time
  MaxFaults   \* bound on the crashes

VARIABLES
  status,     \* "down", "starting" (no listener yet) or "up"
  nodes,      \* nodes[n][p]: None or [line, skip], lines of n to p and of p to n
  wire,       \* wire[n][p][i]: line i from n to p, None or [msgs, open, read]
  sync,       \* the synchronization at each node that is starting
  joining,    \* nodes that subscribe_to_nodes has still to subscribe to
  spread,     \* those of them accepted in a whole network since the last crash
  faults

tcpVars == <<status, chainVars, nodes, wire, sync, joining, found, spread, faults>>

Line  == [msgs : Seq(Items \cup {"subscribe", "ack"}), open : BOOLEAN, read : BOOLEAN]
Entry == [line : Lines, skip : Lines \cup {None}]

ASSUME TcpAssumption ==
  /\ Seeds \in [Node -> Seq(Node)] /\ \A n \in Node : n \notin Range(Seeds[n])
  /\ Lines # {} /\ Lines \subseteq Nat /\ MaxFaults \in Nat
  /\ None \notin Line /\ None \notin Entry
  /\ "subscribe" \notin Items /\ "ack" \notin Items   \* kinds of messages

Up(n)       == status[n] = "up"
Knows(n, p) == nodes[n][p] # None
Known(n)    == {p \in Node : Knows(n, p)}

-----------------------------------------------------------------------------
(* Connections *)

(* A connection is over when the client has dropped its end and the        *)
(* handler has returned.  LeavesOpen is a mutant of Dropped.               *)
Kept(line) == IF line.open \/ line.read THEN line ELSE None
LeavesOpen(line) == line
Dropped(line)  == Kept([line EXCEPT !.open = FALSE])
Returned(line) == Kept([line EXCEPT !.read = FALSE, !.msgs = <<>>])
Opened(msgs)   == [msgs |-> msgs, open |-> TRUE, read |-> TRUE]

Unused(w, n, p) == CHOOSE i \in Lines : w[n][p][i] = None
HasUnused(n, p) == \E i \in Lines : wire[n][p][i] = None   \* a bound

Reads(n, p, i)  == wire[n][p][i] # None /\ wire[n][p][i].read
Speaks(n, p)    == Knows(n, p) /\ Reads(n, p, nodes[n][p].line)

(* Mutant of Targets: whoever has a connection to skip is skipped.         *)
TargetsUnasked(n, from, i) == {p \in Known(n) : nodes[n][p].skip = None}

(* Whom the handler of line i from a node sends to; a client is None.      *)
Targets(n, from, i) == {p \in Known(n) : ~(p = from /\ nodes[n][p].skip = i)}

(* What is written to a connection nobody reads is lost; when the write    *)
(* fails the node is removed, after the others have been served.           *)
Broadcasts(n, item, from, i) ==
  \E failed \in SUBSET {p \in Targets(n, from, i) : ~Speaks(n, p)} :
    LET served == {p \in Targets(n, from, i) : Speaks(n, p)}
        line(p, j) == wire[n][p][j]
        rest(w)    == IF from = None THEN w ELSE [w EXCEPT ![from][n][i].msgs = Tail(@)]
    IN  /\ nodes' = [nodes EXCEPT ![n] = [p \in Node |-> IF p \in failed THEN None ELSE @[p]]]
        /\ wire' = rest([wire EXCEPT ![n] = [p \in Node |-> [j \in Lines |->
             IF ~Knows(n, p) \/ j # nodes[n][p].line THEN line(p, j)
             ELSE IF p \in served THEN [line(p, j) EXCEPT !.msgs = Append(@, item)]
             ELSE IF p \in failed THEN Dropped(line(p, j)) ELSE line(p, j)]]])

-----------------------------------------------------------------------------
(* Clients *)

(* Every node sends to every other, on one connection, and nobody is still *)
(* joining.                                                                *)
Settled(n, p) ==
  /\ Speaks(n, p)
  /\ \A i \in Lines : wire[n][p][i] # None =>
       /\ wire[n][p][i].msgs # <<>> => i = nodes[n][p].line
       /\ Range(wire[n][p][i].msgs) \subseteq Items
Whole == \A n \in Node : Up(n) /\ joining[n] = {} /\ \A p \in Node \ {n} : Settled(n, p)

(* What was accepted then, on top of what everybody has or will have.      *)
Reaches(b) == b = None \/ b \in spread \/ \A n \in Node : b \in Range(chain[n])
BuildsOn(item) == IF item \in Blocks THEN Prev[item] ELSE Coin[item]
NoteSpread(item) ==
  spread' = IF Whole /\ Reaches(BuildsOn(item)) THEN spread \cup {item} ELSE spread

(* A miner: from transactions of the mempool, each block once.             *)
SubmitTemplate(n, b) ==
  /\ Up(n) /\ b \notin found /\ Body[b] \subseteq pool[n] /\ Extends(n, b)
  /\ Adds(n, b) /\ Broadcasts(n, b, None, 0)
  /\ found' = found \cup {b} /\ NoteSpread(b)
  /\ UNCHANGED <<status, sync, joining, faults>>

(* A wallet: what is refused is broadcast as well.                         *)
SubmitTransaction(n, tx) ==
  /\ Up(n) /\ tx \notin found
  /\ Broadcasts(n, tx, None, 0)
  /\ IF tx \notin pool[n] /\ Spendable(n, tx)
     THEN Queues(n, tx) /\ NoteSpread(tx)
     ELSE UNCHANGED <<chainVars, spread>>
  /\ found' = found \cup {tx}
  /\ UNCHANGED <<status, sync, joining, faults>>

-----------------------------------------------------------------------------
(* The handler of line i from p at node n *)

Next1(p, n, i) == Head(wire[p][n][i].msgs)
HasNext(p, n, i) == Up(n) /\ Reads(p, n, i) /\ wire[p][n][i].msgs # <<>>
Takes(p, n, i)   == wire' = [wire EXCEPT ![p][n][i].msgs = Tail(@)] /\ UNCHANGED nodes
Returns(p, n, i) == wire' = [wire EXCEPT ![p][n][i] = Returned(@)] /\ UNCHANGED nodes

(* It connects back, or gives up when that fails.  The entry there was is  *)
(* replaced; a subscribe_to_nodes that runs meanwhile may see a new one.   *)
HandleSubscribe(p, n, i) ==
  /\ HasNext(p, n, i) /\ Next1(p, n, i) = "subscribe"
  /\ IF Up(p)
     THEN LET old == [wire EXCEPT ![p][n][i].msgs = Tail(@),
                                  ![n][p] = [j \in Lines |->
                        IF Knows(n, p) /\ j = nodes[n][p].line THEN Dropped(@[j]) ELSE @[j]]]
              j == Unused(old, n, p)
          IN  /\ HasUnused(n, p)
              /\ wire' = [old EXCEPT ![n][p][j] = Opened(<<"ack">>)]
              /\ nodes' = [nodes EXCEPT ![n][p] = [line |-> j, skip |-> i]]
              /\ joining' \in {joining, [joining EXCEPT ![n] =
                   IF @ = {} \/ Knows(n, p) THEN @ ELSE @ \cup {p}]}
     ELSE Returns(p, n, i) /\ UNCHANGED joining
  /\ UNCHANGED <<status, chainVars, sync, found, spread, faults>>

HandleSubscribeAck(p, n, i) ==
  /\ HasNext(p, n, i) /\ Next1(p, n, i) = "ack"
  /\ wire' = [wire EXCEPT ![p][n][i].msgs = Tail(@)]
  /\ nodes' = IF Knows(n, p) THEN [nodes EXCEPT ![n][p].skip = i] ELSE nodes
  /\ UNCHANGED <<status, chainVars, sync, joining, found, spread, faults>>

(* Mutant of Ignored: a transaction of the mempool is accepted again.      *)
IgnoredBlocks(n, item) == item \in Blocks /\ ~Extends(n, item)
Ignored(n, item) == IF item \in Blocks THEN ~Extends(n, item) ELSE item \in pool[n]

(* NewBlock and NewTransaction.  A transaction that is refused, and not    *)
(* because it waits already, ends the handler.                             *)
HandleItem(p, n, i) ==
  /\ HasNext(p, n, i) /\ Next1(p, n, i) \in Items
  /\ LET item == Next1(p, n, i)
     IN  \/ Ignored(n, item) /\ Takes(p, n, i) /\ UNCHANGED chainVars
         \/ /\ ~Ignored(n, item) /\ item \in Txs /\ ~Spendable(n, item)
            /\ Returns(p, n, i) /\ UNCHANGED chainVars
         \/ /\ ~Ignored(n, item)
            /\ \/ item \in Blocks /\ Adds(n, item)
               \/ item \in Txs /\ Spendable(n, item) /\ Queues(n, item)
            /\ Broadcasts(n, item, p, i)
  /\ UNCHANGED <<status, sync, joining, found, spread, faults>>

(* The client end is gone, and everything has been read.                   *)
HandleEnd(p, n, i) ==
  /\ Reads(p, n, i) /\ ~wire[p][n][i].open /\ wire[p][n][i].msgs = <<>>
  /\ Returns(p, n, i)
  /\ UNCHANGED <<status, chainVars, sync, joining, found, spread, faults>>

-----------------------------------------------------------------------------
(* Starting *)

Idle == [todo |-> {}, best |-> None, need |-> 0, have |-> 0]

(* Whatever fails during the start ends the program.                       *)
Closes(n) ==
  /\ status' = [status EXCEPT ![n] = "down"]
  /\ nodes' = [nodes EXCEPT ![n] = [p \in Node |-> None]]
  /\ wire' = [wire EXCEPT ![n] = [p \in Node |-> [i \in Lines |->
       IF @[p][i] = None THEN None ELSE Dropped(@[p][i])]]]
  /\ sync' = [sync EXCEPT ![n] = Idle]
  /\ joining' = [joining EXCEPT ![n] = {}]

(* A seed that is known already is not asked whom it knows.  AskAll is a   *)
(* mutant of Ask: a node that comes back connects to itself.               *)
AskAll(n, others, s) == IF s \in others THEN others ELSE others \cup Known(s) \cup {s}
Ask(n, others, s) == IF s \in others THEN others ELSE others \cup (Known(s) \ {n}) \cup {s}

(* populate_connections, and the chain is loaded.  All must answer.        *)
Populate(n) ==
  LET all  == FoldLeft(LAMBDA others, s : Ask(n, others, s), {}, Seeds[n])
      new(p) == Unused(wire, n, p)
  IN  /\ status[n] = "down"
      /\ \A p \in all : Up(p) /\ HasUnused(n, p)
      /\ status' = [status EXCEPT ![n] = "starting"]
      /\ nodes' = [nodes EXCEPT ![n] = [p \in Node |->
           IF p \in all THEN [line |-> new(p), skip |-> None] ELSE None]]
      /\ wire' = [wire EXCEPT ![n] = [p \in Node |-> [i \in Lines |->
           IF p \in all /\ i = new(p) THEN Opened(<<>>) ELSE @[p][i]]]]
      /\ sync' = [sync EXCEPT ![n] = [Idle EXCEPT !.todo = all]]
      /\ UNCHANGED <<chainVars, joining, found, spread, faults>>

Starting(n) == status[n] = "starting"

(* find_longest_chain_node; of the longest the first asked is kept.        *)
AskDifference(n, p) ==
  LET longer == Len(chain[p]) - Len(chain[n])
      asked  == [sync[n] EXCEPT !.todo = @ \ {p}]
  IN  /\ Starting(n) /\ p \in sync[n].todo
      /\ IF ~Speaks(n, p) THEN Closes(n)
         ELSE /\ sync' = [sync EXCEPT ![n] =
                   IF longer > asked.need
                   THEN [asked EXCEPT !.best = p, !.need = longer, !.have = Len(chain[n])]
                   ELSE asked]
              /\ UNCHANGED <<status, nodes, wire, joining>>
      /\ UNCHANGED <<chainVars, found, spread, faults>>

Asked(n) == Starting(n) /\ sync[n].todo = {}

(* One round of synchronize_blockchain.                                    *)
FetchBlock(n) ==
  LET p == sync[n].best
      i == Len(chain[n]) + 1
  IN  /\ Asked(n) /\ p # None /\ Len(chain[n]) < sync[n].have + sync[n].need
      /\ IF Speaks(n, p) /\ i <= Len(chain[p]) /\ Extends(n, chain[p][i])
         THEN Adds(n, chain[p][i]) /\ UNCHANGED <<status, nodes, wire, sync, joining>>
         ELSE Closes(n) /\ UNCHANGED chainVars
      /\ UNCHANGED <<found, spread, faults>>

(* The listener is bound, and the task subscribe_to_nodes starts.          *)
Listens(n) ==
  /\ Asked(n) /\ Len(chain[n]) >= sync[n].have + sync[n].need
  /\ status' = [status EXCEPT ![n] = "up"]
  /\ sync' = [sync EXCEPT ![n] = Idle]
  /\ joining' = [joining EXCEPT ![n] = Known(n)]
  /\ UNCHANGED <<chainVars, nodes, wire, found, spread, faults>>

(* When a write fails the task gives up; one that nobody reads is lost.    *)
SubscribeToNode(n, p) ==
  /\ Up(n) /\ p \in joining[n]
  /\ IF Speaks(n, p)
     THEN /\ wire' = [wire EXCEPT ![n][p][nodes[n][p].line].msgs = Append(@, "subscribe")]
          /\ joining' = [joining EXCEPT ![n] = @ \ {p}]
     ELSE joining' \in {[joining EXCEPT ![n] = @ \ {p}], [joining EXCEPT ![n] = {}]} /\ UNCHANGED wire
  /\ UNCHANGED <<status, chainVars, nodes, sync, found, spread, faults>>

(* Everything in memory is lost; of what was written to a node, some first *)
(* part arrives.                                                           *)
Crash(n) ==
  /\ status[n] # "down" /\ faults < MaxFaults
  /\ status' = [status EXCEPT ![n] = "down"]
  /\ LeavesSaved(n) /\ pool' = [pool EXCEPT ![n] = {}]
  /\ nodes' = [nodes EXCEPT ![n] = [p \in Node |-> None]]
  /\ \E keep \in [Node -> 0..Cardinality(Items)] :
       wire' = [p \in Node |-> [q \in Node |-> [i \in Lines |->
         LET line == wire[p][q][i]
         IN  IF line = None THEN None
             ELSE IF p = n
             THEN Dropped([line EXCEPT !.msgs = SubSeq(@, 1, Min({keep[q], Len(@)}))])
             ELSE IF q = n THEN Returned(line) ELSE line]]]
  /\ sync' = [sync EXCEPT ![n] = Idle]
  /\ joining' = [joining EXCEPT ![n] = {}]
  /\ spread' = {}
  /\ faults' = faults + 1 /\ UNCHANGED found

-----------------------------------------------------------------------------
TcpInit ==
  /\ status = [n \in Node |-> "down"] /\ chain = [n \in Node |-> <<>>]
  /\ pool = [n \in Node |-> {}] /\ nodes = [n \in Node |-> [p \in Node |-> None]]
  /\ wire = [n \in Node |-> [p \in Node |-> [i \in Lines |-> None]]]
  /\ sync = [n \in Node |-> Idle] /\ joining = [n \in Node |-> {}]
  /\ found = {} /\ spread = {} /\ faults = 0

Synchronizes(n) ==
  \/ FetchBlock(n) \/ Listens(n)
  \/ \E p \in Node : AskDifference(n, p)
Joins(n) == \E p \in Node : SubscribeToNode(n, p)
Handles(p, n, i) ==
  \/ HandleSubscribe(p, n, i) \/ HandleSubscribeAck(p, n, i)
  \/ HandleItem(p, n, i) \/ HandleEnd(p, n, i)

TcpNext ==
  \E n \in Node :
    \/ Populate(n) \/ Synchronizes(n) \/ Joins(n) \/ Crash(n)
    \/ \E b \in Blocks : SubmitTemplate(n, b)
    \/ \E tx \in Txs : SubmitTransaction(n, tx)
    \/ \E p \in Node, i \in Lines : Handles(p, n, i)

(* A program that ended is started again (compose_tcp.yaml), and every     *)
(* task that can run does.                                                 *)
TcpFairness ==
  \A n \in Node :
    /\ WF_tcpVars(Populate(n)) /\ WF_tcpVars(Synchronizes(n)) /\ WF_tcpVars(Joins(n))
    /\ \A p \in Node, i \in Lines : WF_tcpVars(Handles(p, n, i))

TcpSpec == TcpInit /\ [][TcpNext]_tcpVars /\ TcpFairness

-----------------------------------------------------------------------------
(* Properties *)

(* Types; an entry of peers.nodes has the client end of an open            *)
(* connection, no other connection is open, a node that is not up reads    *)
(* nothing and one that is down has no entries: replacing and removing     *)
(* entries leaks no connection (Peers::add, broadcast).                    *)
TcpTypeOK ==
  /\ status \in [Node -> {"down", "starting", "up"}]
  /\ chain \in [Node -> Seq(Blocks)] /\ pool \in [Node -> SUBSET Txs]
  /\ nodes \in [Node -> [Node -> Entry \cup {None}]]
  /\ wire \in [Node -> [Node -> [Lines -> Line \cup {None}]]]
  /\ \A n, p \in Node : \A i \in Lines :
       LET line == wire[n][p][i]
       IN  /\ (line # None /\ line.open) <=> (Knows(n, p) /\ nodes[n][p].line = i)
           /\ line # None => n # p /\ (line.read => Up(p))
  /\ \A n \in Node : status[n] = "down" => Known(n) = {}
  /\ found \subseteq Items /\ spread \subseteq found /\ faults \in 0..MaxFaults

(* What is accepted in a whole network gets to every node, in spite of     *)
(* blocks and transactions that overtake each other on their ways, unless  *)
(* the network breaks or miners fork (broadcast, update_skip_addr).        *)
Has(n, item) == item \in Range(chain[n]) \cup pool[n] \cup Confirmed(n)
Spreads == []<>(Whole => Forked \/ \A n \in Node, item \in spread : Has(n, item))

(* Flooding ends, though two nodes send to each other (Peers::broadcast).  *)
Calms == <>[](\A n, p \in Node : \A i \in Lines : wire[n][p][i] # None => wire[n][p][i].msgs = <<>>)

(* When nobody crashes any more, all nodes come up and stay up, if no two  *)
(* were down for each other, unless what one has saved is on a fork        *)
(* (populate_connections, main).                                           *)
StartsAgain == <>[](Forked \/ \A n \in Node : Up(n))
=============================================================================
