------------------------------ MODULE Streams -------------------------------
(***************************************************************************)
(* How an item travels between gRPC nodes, and what waits for what on its  *)
(* way (node/src/grpc/node_api.rs, peers.rs, miner_api.rs, wallet_api.rs); *)
(* module Gossip has what the items do to the chains.                      *)
(*                                                                         *)
(* For each subscriber there are a channel of one item, a forward task     *)
(* that takes items out of it, and a stream with room for Window items     *)
(* (its channel of one, and the buffers of the connection); at the other   *)
(* end a listener has one item in hand.  A submission keeps the blockchain *)
(* locked while it broadcasts; a listener does not.  Every broadcast keeps *)
(* the shard of peers.subscribers locked, for reading, whose subscriber it *)
(* is sending to; to remove a subscriber its shard is locked for writing.  *)
(* Subscribers are taken to be in shards of their own.                     *)
(***************************************************************************)
EXTENDS Integers, FiniteSets, SequencesExt

CONSTANTS
  Node,
  Subscribed, \* for each node, those that have subscribed to it
  Clients,    \* the nodes that clients submit to
  MaxItems,   \* how many blocks and transactions they submit
  Window,
  MaxFaults,  \* bound on the connections that are lost
  None

VARIABLES
  known,      \* the items each node has taken
  asked,      \* submissions that wait for the lock, as sets of items
  submitting, \* the broadcast of a submission, which holds the lock, or None
  listener,   \* listener[p][n] of p for items from n: [at, item, left] or None
  subscribers,
  channel,    \* channel[n][p]
  forward,    \* forward[n][p]: what the task has taken, or None
  failed,     \* the forward tasks that are about to remove their subscriber
  stream,     \* stream[n][p]
  at,         \* for each broadcast (at a node, of a source) whom it sends to
  faults

taskVars   == <<known, asked, submitting, listener, at>>
streamVars == <<subscribers, channel, forward, failed, stream>>
vars == <<taskVars, streamVars, faults>>

(* They are alike, and numbered as they are submitted.                     *)
Items == 1..MaxItems

Handler   == [item : Items, left : SUBSET Node]
Listening == [at : {"idle", "lock", "send"}, item : Items \cup {None}, left : SUBSET Node]

ASSUME StreamsAssumption ==
  /\ Subscribed \in [Node -> SUBSET Node] /\ \A n \in Node : n \notin Subscribed[n]
  /\ Clients \subseteq Node
  /\ None \notin Node \cup Handler \cup Listening
  /\ MaxItems \in Nat /\ Window \in Nat \ {0} /\ MaxFaults \in Nat

Listens(p, n) == listener[p][n] # None
Free(n)       == submitting[n] = None
Waits         == [at |-> "idle", item |-> None, left |-> {}]

(* Mutant of Targets: what comes from other nodes is not sent on.          *)
TargetsOwn(n, source) == IF source = n THEN subscribers[n] ELSE {}
Targets(n, source)    == subscribers[n] \ {source}

(* Mutant of HasRoom: a channel without a bound.                           *)
Unbounded(n, p) == TRUE
HasRoom(n, p)   == channel[n][p] = <<>>

-----------------------------------------------------------------------------
(* Submissions *)

Submitted == UNION {known[p] \cup asked[p] : p \in Node}

(* A bound: the clients of a node take turns.                              *)
Ask(n) ==
  /\ n \in Clients /\ asked[n] = {} /\ Submitted # Items
  /\ asked' = [asked EXCEPT ![n] = @ \cup {Cardinality(Submitted) + 1}]
  /\ UNCHANGED <<known, submitting, listener, at, streamVars, faults>>

Begin(n, item) ==
  /\ item \in asked[n] /\ Free(n)
  /\ known' = [known EXCEPT ![n] = @ \cup {item}]
  /\ submitting' = [submitting EXCEPT ![n] = [item |-> item, left |-> Targets(n, n)]]
  /\ UNCHANGED <<asked, listener, at, streamVars, faults>>

Answer(n) ==
  /\ submitting[n] # None /\ submitting[n].left = {} /\ at[n][n] = None
  /\ asked' = [asked EXCEPT ![n] = @ \ {submitting[n].item}]
  /\ submitting' = [submitting EXCEPT ![n] = None]
  /\ UNCHANGED <<known, listener, at, streamVars, faults>>

-----------------------------------------------------------------------------
(* Broadcasts: of a submission when the source is the node itself, else of *)
(* its listener for that source.                                           *)

Task(n, source) == IF source = n THEN submitting[n] ELSE listener[n][source]
Sending(n, source) ==
  /\ Task(n, source) # None
  /\ source # n => listener[n][source].at = "send"

(* The iterator gets to a subscriber and locks its shard.  One that has    *)
(* been removed it does not meet.                                          *)
Reaches(n, source, p) ==
  /\ Sending(n, source) /\ at[n][source] = None
  /\ p \in Task(n, source).left
  /\ at' = [at EXCEPT ![n][source] = IF p \in subscribers[n] THEN p ELSE None]
  /\ IF source = n
     THEN submitting' = [submitting EXCEPT ![n].left = @ \ {p}] /\ UNCHANGED listener
     ELSE listener' = [listener EXCEPT ![n][source].left = @ \ {p}] /\ UNCHANGED submitting
  /\ UNCHANGED <<known, asked, streamVars, faults>>

Sends(n, source) ==
  LET p == at[n][source]
  IN  /\ p # None /\ HasRoom(n, p)
      /\ channel' = [channel EXCEPT ![n][p] = Append(@, Task(n, source).item)]
      /\ at' = [at EXCEPT ![n][source] = None]
      /\ UNCHANGED <<known, asked, submitting, listener, subscribers, forward, failed, stream, faults>>

-----------------------------------------------------------------------------
(* The forward task *)

(* Mutant of Unlocked: it looks something up in the blockchain first.      *)
LocksFirst(n) == Free(n)
Unlocked(n)   == TRUE

Forwards(n, p) ==
  /\ Unlocked(n) /\ forward[n][p] = None /\ p \notin failed[n] /\ channel[n][p] # <<>>
  /\ forward' = [forward EXCEPT ![n][p] = Head(channel[n][p])]
  /\ channel' = [channel EXCEPT ![n][p] = Tail(@)]
  /\ UNCHANGED <<taskVars, subscribers, failed, stream, faults>>

StreamsOn(n, p) ==
  /\ forward[n][p] # None
  /\ IF Listens(p, n)
     THEN /\ Len(stream[n][p]) < Window
          /\ stream' = [stream EXCEPT ![n][p] = Append(@, forward[n][p])]
          /\ UNCHANGED failed
     ELSE failed' = [failed EXCEPT ![n] = @ \cup {p}] /\ UNCHANGED stream
  /\ forward' = [forward EXCEPT ![n][p] = None]
  /\ UNCHANGED <<taskVars, subscribers, channel, faults>>

(* It waits for every broadcast that is at this subscriber.                *)
Removes(n, p) ==
  /\ p \in failed[n] /\ \A source \in Node : at[n][source] # p
  /\ subscribers' = [subscribers EXCEPT ![n] = @ \ {p}]
  /\ failed' = [failed EXCEPT ![n] = @ \ {p}]
  /\ UNCHANGED <<taskVars, channel, forward, stream, faults>>

-----------------------------------------------------------------------------
(* The listener of p for items from n *)

Takes(p, n) ==
  /\ Listens(p, n) /\ listener[p][n].at = "idle" /\ stream[n][p] # <<>>
  /\ listener' = [listener EXCEPT ![p][n] = [Waits EXCEPT !.at = "lock", !.item = Head(stream[n][p])]]
  /\ stream' = [stream EXCEPT ![n][p] = Tail(@)]
  /\ UNCHANGED <<known, asked, submitting, at, subscribers, channel, forward, failed, faults>>

Accepts(p, n) ==
  /\ Listens(p, n) /\ listener[p][n].at = "lock" /\ Free(p)
  /\ LET item == listener[p][n].item
     IN  IF item \in known[p]
         THEN listener' = [listener EXCEPT ![p][n] = Waits] /\ UNCHANGED known
         ELSE /\ listener' = [listener EXCEPT ![p][n] =
                   [at |-> "send", item |-> item, left |-> Targets(p, n)]]
              /\ known' = [known EXCEPT ![p] = @ \cup {item}]
  /\ UNCHANGED <<asked, submitting, at, streamVars, faults>>

Done(p, n) ==
  /\ Listens(p, n) /\ listener[p][n].at = "send" /\ listener[p][n].left = {} /\ at[p][n] = None
  /\ listener' = [listener EXCEPT ![p][n] = Waits]
  /\ UNCHANGED <<known, asked, submitting, at, streamVars, faults>>

(* The connection is lost while the listener waits for the next item.      *)
LoseConnection(p, n) ==
  /\ Listens(p, n) /\ listener[p][n].at = "idle" /\ faults < MaxFaults
  /\ listener' = [listener EXCEPT ![p][n] = None]
  /\ stream' = [stream EXCEPT ![n][p] = <<>>]
  /\ faults' = faults + 1
  /\ UNCHANGED <<known, asked, submitting, at, subscribers, channel, forward, failed>>

-----------------------------------------------------------------------------
(* Some items have got to all nodes, and some connections were lost.       *)
InitWith(old, lost) ==
  /\ known = [n \in Node |-> old] /\ asked = [n \in Node |-> {}]
  /\ submitting = [n \in Node |-> None]
  /\ listener = [p \in Node |-> [n \in Node |-> IF p \in Subscribed[n] THEN Waits ELSE None]]
  /\ subscribers = Subscribed
  /\ channel = [n \in Node |-> [p \in Node |-> <<>>]]
  /\ forward = [n \in Node |-> [p \in Node |-> None]]
  /\ failed = [n \in Node |-> {}]
  /\ stream = [n \in Node |-> [p \in Node |-> <<>>]]
  /\ at = [n \in Node |-> [s \in Node |-> None]]
  /\ faults = lost
Init == InitWith({}, 0)

Submission(n) == Answer(n) \/ \E item \in Items : Begin(n, item)
Broadcast(n, source) == Sends(n, source) \/ \E p \in Node : Reaches(n, source, p)
Forward(n, p) == Forwards(n, p) \/ StreamsOn(n, p) \/ Removes(n, p)
Listener(p, n) == Takes(p, n) \/ Accepts(p, n) \/ Done(p, n)

Senders(n) == {n} \cup {p \in Node : n \in Subscribed[p]}

Next ==
  \E n \in Node :
    \/ Ask(n) \/ Submission(n)
    \/ \E source \in Senders(n) : Broadcast(n, source)
    \/ \E p \in Subscribed[n] : Forward(n, p) \/ Listener(p, n) \/ LoseConnection(p, n)

(* Every task that can run does; tokio hands the lock out in the order of  *)
(* the requests.                                                           *)
Fairness ==
  \A n \in Node :
    /\ n \in Clients => SF_vars(Submission(n))
    /\ \A source \in Senders(n) : WF_vars(Broadcast(n, source))
    /\ \A p \in Subscribed[n] : WF_vars(Forward(n, p)) /\ SF_vars(Listener(p, n))

FairSpec == Init /\ [][Next]_vars /\ Fairness

-----------------------------------------------------------------------------
(* Properties *)

(* Types; channels and streams keep their bounds, and a broadcast that is  *)
(* at a subscriber keeps it from being removed.                            *)
StreamsTypeOK ==
  /\ known \in [Node -> SUBSET Items] /\ asked \in [Node -> SUBSET Items]
  /\ submitting \in [Node -> Handler \cup {None}]
  /\ listener \in [Node -> [Node -> Listening \cup {None}]]
  /\ subscribers \in [Node -> SUBSET Node] /\ failed \in [Node -> SUBSET Node]
  /\ channel \in [Node -> [Node -> Seq(Items)]] /\ stream \in [Node -> [Node -> Seq(Items)]]
  /\ forward \in [Node -> [Node -> Items \cup {None}]]
  /\ at \in [Node -> [Node -> Node \cup {None}]] /\ faults \in 0..MaxFaults
  /\ \A n \in Node : submitting[n] # None => submitting[n].item \in asked[n] \cap known[n]
  /\ \A n, p \in Node :
       /\ Len(channel[n][p]) <= 1 /\ Len(stream[n][p]) <= Window
       /\ Range(channel[n][p]) \cup Range(stream[n][p]) \subseteq known[n]
       /\ forward[n][p] \in known[n] \cup {None}
       /\ Listens(p, n) =>
            /\ listener[p][n].at = "lock" => listener[p][n].item \in known[n]
            /\ listener[p][n].at = "send" => listener[p][n].item \in known[p]
       /\ at[n][p] # None => at[n][p] \in subscribers[n] /\ Sending(n, p)

(* A miner or wallet that submits something gets an answer: nothing on the *)
(* way of the broadcast that has the blockchain locked waits for that lock *)
(* (submit_template, submit_transaction).                                  *)
SubmissionsEnd == \A n \in Clients : []<>(asked[n] = {})

(* What a node has taken gets to whoever listens to it, though nothing is  *)
(* sent back to where it came from (broadcast, create_subscription).       *)
Arrives == <>[](\A n, p \in Node : Listens(p, n) => known[n] \subseteq known[p])
=============================================================================
