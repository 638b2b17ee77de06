--------------------------- MODULE TcpPeersProofs ---------------------------
(***************************************************************************)
(* Theorems about TcpPeers.                                                *)
(***************************************************************************)
EXTENDS TcpPeers, ReplicaProofs

(* It is nodes that are asked for blocks (AskDifference, FetchBlock).      *)
Round(r) ==
  /\ r = [todo |-> r.todo, best |-> r.best, need |-> r.need, have |-> r.have]
  /\ r.best \in Node \cup {None}
SyncOK   == sync = [n \in Node |-> sync[n]] /\ \A n \in Node : Round(sync[n])

LEMMA RoundUpdates ==
  ASSUME NEW r, Round(r), NEW p \in Node, NEW x
  PROVE  /\ Round([r EXCEPT !.todo = x]) /\ Round([r EXCEPT !.best = p])
         /\ Round([r EXCEPT !.need = x]) /\ Round([r EXCEPT !.have = x])
<1>1. r = [todo |-> r.todo, best |-> r.best, need |-> r.need, have |-> r.have]
  BY DEF Round
<1>2. [r EXCEPT !.todo = x] = [todo |-> x, best |-> r.best, need |-> r.need, have |-> r.have]
  BY <1>1
<1>3. [r EXCEPT !.best = p] = [todo |-> r.todo, best |-> p, need |-> r.need, have |-> r.have]
  BY <1>1
<1>4. [r EXCEPT !.need = x] = [todo |-> r.todo, best |-> r.best, need |-> x, have |-> r.have]
  BY <1>1
<1>5. [r EXCEPT !.have = x] = [todo |-> r.todo, best |-> r.best, need |-> r.need, have |-> x]
  BY <1>1
<1> QED
  BY <1>2, <1>3, <1>4, <1>5 DEF Round

LEMMA SyncStep ==
  ASSUME SyncOK, TcpNext
  PROVE  SyncOK'
<1> USE DEF SyncOK
<1> SUFFICES ASSUME sync' # sync
             PROVE  \E n \in Node : \E r : Round(r) /\ sync' = [sync EXCEPT ![n] = r]
  BY Zenon
<1>1. Round(Idle)
  BY DEF Round, Idle
<1>2. ASSUME NEW n \in Node, Closes(n) \/ Listens(n) \/ Crash(n)
      PROVE  sync' = [sync EXCEPT ![n] = Idle]
  BY <1>2 DEF Closes, Listens, Crash
<1>3. ASSUME NEW n \in Node, Populate(n)
      PROVE  \E r : Round(r) /\ sync' = [sync EXCEPT ![n] = r]
  <2> DEFINE all == FoldLeft(LAMBDA others, s : Ask(n, others, s), {}, Seeds[n])
  <2>1. sync' = [sync EXCEPT ![n] = [Idle EXCEPT !.todo = all]]
    BY <1>3 DEF Populate
  <2>2. Round([Idle EXCEPT !.todo = all])
    BY <1>1, RoundUpdates
  <2> QED
    BY <2>1, <2>2
<1>4. ASSUME NEW n \in Node, NEW p \in Node, AskDifference(n, p)
      PROVE  \E r : Round(r) /\ sync' = [sync EXCEPT ![n] = r]
  <2> DEFINE longer == Len(chain[p]) - Len(chain[n])
             asked  == [sync[n] EXCEPT !.todo = @ \ {p}]
             chosen == [[asked EXCEPT !.best = p] EXCEPT !.need = longer]
             kept   == [chosen EXCEPT !.have = Len(chain[n])]
  <2>1. Round(sync[n])
    OBVIOUS
  <2>2. Round(asked)
    BY <2>1, RoundUpdates
  <2>3. Round(kept)
    <3> HIDE DEF asked
    <3>1. Round([asked EXCEPT !.best = p])
      BY <2>2, RoundUpdates
    <3>2. Round(chosen)
      BY <3>1, RoundUpdates
    <3> HIDE DEF chosen
    <3> QED
      BY <3>2, RoundUpdates
  <2>4. \/ Closes(n)
        \/ sync' = [sync EXCEPT ![n] = kept]
        \/ sync' = [sync EXCEPT ![n] = asked]
    BY <1>4 DEF AskDifference
  <2> QED
    BY <1>1, <1>2, <2>2, <2>3, <2>4
<1>5. ASSUME NEW n \in Node, FetchBlock(n) PROVE Closes(n)
  BY <1>5 DEF FetchBlock
<1>6. ASSUME NEW n \in Node, NEW p \in Node, NEW i \in Lines, Handles(p, n, i) PROVE FALSE
  BY <1>6 DEF Handles, HandleSubscribe, HandleSubscribeAck, HandleItem, HandleEnd
<1>7. ASSUME NEW n \in Node, Joins(n) PROVE FALSE
  BY <1>7 DEF Joins, SubscribeToNode
<1>8. ASSUME NEW n \in Node, NEW b, SubmitTemplate(n, b) \/ SubmitTransaction(n, b) PROVE FALSE
  BY <1>8 DEF SubmitTemplate, SubmitTransaction
<1> QED
  BY <1>1, <1>2, <1>3, <1>4, <1>5, <1>6, <1>7, <1>8 DEF TcpNext, Synchronizes

-----------------------------------------------------------------------------
(* Connections.  What TcpTypeOK says of them, of any wires, entries and    *)
(* states of nodes.                                                        *)

Rows    == [Node -> [Lines -> Line \cup {None}]]
Entries == [Node -> Entry \cup {None}]
Held(line, entry, i) == (line # None /\ line.open) <=> (entry # None /\ entry.line = i)
Placed(line, n, p, st) == line # None => n # p /\ (line.read => st[p] = "up")

RowOK(row, entries, n, st) ==
  /\ row \in Rows /\ entries \in Entries
  /\ \A p \in Node : \A i \in Lines :
       Held(row[p][i], entries[p], i) /\ Placed(row[p][i], n, p, st)
  /\ st[n] = "down" => \A p \in Node : entries[p] = None
Sound(w, nd, st) ==
  /\ st \in [Node -> {"down", "starting", "up"}]
  /\ w \in [Node -> Rows] /\ nd \in [Node -> Entries]
  /\ \A n \in Node : RowOK(w[n], nd[n], n, st)

(* One node's connections and entries change.                              *)
LEMMA RowChanges ==
  ASSUME NEW w, NEW nd, NEW st, Sound(w, nd, st), NEW n \in Node, NEW row, NEW entries,
         RowOK(row, entries, n, st)
  PROVE  Sound([w EXCEPT ![n] = row], [nd EXCEPT ![n] = entries], st)
BY DEF Sound, RowOK

(* One connection changes, and neither is opened nor closed.               *)
Like(new, old) ==
  /\ new \in Line \cup {None}
  /\ (new # None /\ new.open) <=> (old # None /\ old.open)
  /\ new # None => old # None /\ (new.read => old.read)
LEMMA LineChanges ==
  ASSUME NEW w, NEW nd, NEW st, Sound(w, nd, st), NEW n \in Node, NEW p \in Node, NEW i \in Lines,
         NEW new, Like(new, w[n][p][i])
  PROVE  Sound([w EXCEPT ![n][p][i] = new], nd, st)
<1> DEFINE row == [w[n] EXCEPT ![p] = [w[n][p] EXCEPT ![i] = new]]
<1>1. /\ w[n] \in Rows /\ w[n][p] \in [Lines -> Line \cup {None}] /\ nd[n] \in Entries
      /\ RowOK(w[n], nd[n], n, st)
  BY DEF Sound, Rows
<1>2. row \in Rows
  BY <1>1 DEF Rows, Like
<1>3. \A q \in Node : \A j \in Lines :
        row[q][j] = IF q = p /\ j = i THEN new ELSE w[n][q][j]
  BY <1>1 DEF Rows
<1>4. RowOK(row, nd[n], n, st)
  BY <1>1, <1>2, <1>3 DEF RowOK, Held, Placed, Like
<1>5. Sound([w EXCEPT ![n] = row], [nd EXCEPT ![n] = nd[n]], st)
  BY <1>4, RowChanges
<1>6. [nd EXCEPT ![n] = nd[n]] = nd
  BY DEF Sound
<1> QED
  BY <1>5, <1>6

(* What the operators on connections do to one of them.                    *)
LEMMA LineOperators ==
  ASSUME NEW line \in Line
  PROVE  /\ \A m \in Seq(Items \cup {"subscribe", "ack"}) :
              Like([line EXCEPT !.msgs = m], line)
         /\ Dropped(line) \in Line \cup {None}
         /\ Dropped(line) # None => ~Dropped(line).open /\ (Dropped(line).read => line.read)
         /\ Like(Returned(line), line)
         /\ Returned(line) # None => ~Returned(line).read
<1>1. ASSUME NEW m \in Seq(Items \cup {"subscribe", "ack"})
      PROVE  Like([line EXCEPT !.msgs = m], line)
  BY <1>1, TcpAssumption DEF Like, Line
<1>2. [line EXCEPT !.open = FALSE] \in Line
  BY DEF Line
<1>3. [line EXCEPT !.read = FALSE, !.msgs = <<>>] \in Line
  <2>1. [line EXCEPT !.read = FALSE] \in Line
    BY DEF Line
  <2>2. ASSUME NEW l \in Line, NEW m \in Seq(Items \cup {"subscribe", "ack"})
        PROVE  [l EXCEPT !.msgs = m] \in Line
    BY DEF Line
  <2>3. <<>> \in Seq(Items \cup {"subscribe", "ack"})
    OBVIOUS
  <2> QED
    BY <2>1, <2>2, <2>3
<1> QED
  BY <1>1, <1>2, <1>3, TcpAssumption DEF Like, Line, Dropped, Returned, Kept

LEMMA OpenedLine ==
  ASSUME NEW m \in Seq(Items \cup {"subscribe", "ack"})
  PROVE  Opened(m) \in Line /\ Opened(m) # None /\ Opened(m).open
<1>1. Opened(m) \in Line
  BY DEF Opened, Line
<1>2. Opened(m).open
  BY DEF Opened
<1> QED
  BY <1>1, <1>2, TcpAssumption

Types == Sound(wire, nodes, status)

(* A broadcast: every entry keeps its connection, or loses it with the     *)
(* entry, and the message that was read is gone.                           *)
LEMMA BroadcastsSound ==
  ASSUME Types, NEW n \in Node, Up(n), NEW item \in Items, NEW from, NEW i,
         Broadcasts(n, item, from, i), UNCHANGED status,
         from # None =>
           /\ from \in Node \ {n} /\ i \in Lines /\ wire[from][n][i] # None
           /\ wire[from][n][i].msgs # <<>>
  PROVE  Types'
<1> DEFINE targets == Targets(n, from, i)
           served  == {p \in targets : Speaks(n, p)}
<1>1. PICK failed \in SUBSET {p \in targets : ~Speaks(n, p)} :
        LET line(p, j) == wire[n][p][j]
            rest(w)    == IF from = None THEN w ELSE [w EXCEPT ![from][n][i].msgs = Tail(@)]
        IN  /\ nodes' = [nodes EXCEPT ![n] = [p \in Node |-> IF p \in failed THEN None ELSE @[p]]]
            /\ wire' = rest([wire EXCEPT ![n] = [p \in Node |-> [j \in Lines |->
                 IF ~Knows(n, p) \/ j # nodes[n][p].line THEN line(p, j)
                 ELSE IF p \in served THEN [line(p, j) EXCEPT !.msgs = Append(@, item)]
                 ELSE IF p \in failed THEN Dropped(line(p, j)) ELSE line(p, j)]]])
  BY DEF Broadcasts
<1> DEFINE new(p, j) ==
             IF ~Knows(n, p) \/ j # nodes[n][p].line THEN wire[n][p][j]
             ELSE IF p \in served THEN [wire[n][p][j] EXCEPT !.msgs = Append(@, item)]
             ELSE IF p \in failed THEN Dropped(wire[n][p][j]) ELSE wire[n][p][j]
           row     == [p \in Node |-> [j \in Lines |-> new(p, j)]]
           entries == [p \in Node |-> IF p \in failed THEN None ELSE nodes[n][p]]
           W       == [wire EXCEPT ![n] = row]
<1>2. /\ nodes' = [nodes EXCEPT ![n] = entries]
      /\ wire' = IF from = None THEN W ELSE [W EXCEPT ![from][n][i].msgs = Tail(@)]
  BY <1>1
<1>3. /\ RowOK(wire[n], nodes[n], n, status)
      /\ wire[n] \in Rows /\ nodes[n] \in Entries
      /\ wire \in [Node -> Rows] /\ nodes \in [Node -> Entries]
  BY DEF Types, Sound
<1>4. ASSUME NEW p \in Node, NEW j \in Lines
      PROVE  /\ new(p, j) \in Line \cup {None}
             /\ Held(new(p, j), entries[p], j) /\ Placed(new(p, j), n, p, status)
  <2> DEFINE old == wire[n][p][j]
  <2>1. /\ old \in Line \cup {None} /\ nodes[n][p] \in Entry \cup {None}
        /\ Held(old, nodes[n][p], j) /\ Placed(old, n, p, status)
    BY <1>3 DEF RowOK, Rows, Entries
  <2>2. CASE ~Knows(n, p) \/ j # nodes[n][p].line
    BY <2>1, <2>2 DEF Held, Knows
  <2>3. CASE Knows(n, p) /\ j = nodes[n][p].line /\ p \in served
    <3>1. old \in Line
      BY <2>1, <2>3 DEF Held, Knows
    <3>2. Append(old.msgs, item) \in Seq(Items \cup {"subscribe", "ack"})
      BY <3>1 DEF Line
    <3>3. Like([old EXCEPT !.msgs = Append(old.msgs, item)], old)
      BY <3>1, <3>2, LineOperators
    <3>4. new(p, j) = [old EXCEPT !.msgs = Append(old.msgs, item)] /\ entries[p] = nodes[n][p]
      BY <2>3
    <3> HIDE DEF new, entries
    <3> QED
      BY <2>1, <3>3, <3>4 DEF Like, Held, Placed
  <2>4. CASE Knows(n, p) /\ j = nodes[n][p].line /\ p \notin served /\ p \in failed
    <3>1. old \in Line
      BY <2>1, <2>4 DEF Held, Knows
    <3>2. new(p, j) = Dropped(old) /\ entries[p] = None
      BY <2>4
    <3>3. /\ Dropped(old) \in Line \cup {None}
          /\ Dropped(old) # None => ~Dropped(old).open /\ (Dropped(old).read => old.read)
      BY <3>1, LineOperators
    <3>4. old # None
      BY <3>1, TcpAssumption
    <3> HIDE DEF new, entries, old
    <3> QED
      BY <2>1, <3>2, <3>3, <3>4 DEF Held, Placed
  <2>5. CASE Knows(n, p) /\ j = nodes[n][p].line /\ p \notin served /\ p \notin failed
    BY <2>1, <2>5
  <2> QED
    BY <2>2, <2>3, <2>4, <2>5
<1>5. RowOK(row, entries, n, status)
  <2>1. row \in Rows
    BY <1>4 DEF Rows
  <2>2. entries \in Entries
    BY <1>3 DEF Entries
  <2>3. \A p \in Node : \A j \in Lines : row[p][j] = new(p, j)
    OBVIOUS
  <2>4. status[n] # "down"
    BY DEF Up
  <2> HIDE DEF new, row, entries
  <2> QED
    BY <1>4, <2>1, <2>2, <2>3, <2>4 DEF RowOK
<1>6. Sound(W, nodes', status)
  BY <1>2, <1>5, RowChanges DEF Types
<1>7. CASE from = None
  BY <1>2, <1>6, <1>7 DEF Types
<1>8. CASE from # None
  <2> DEFINE line == wire[from][n][i]
             tail == [line EXCEPT !.msgs = Tail(line.msgs)]
  <2>1. W[from] = wire[from] /\ W[from][n][i] = line /\ line \in Line
    BY <1>3, <1>8 DEF Rows
  <2>2. Tail(line.msgs) \in Seq(Items \cup {"subscribe", "ack"})
    BY <1>8, <2>1 DEF Line
  <2>3. Like(tail, line)
    BY <2>1, <2>2, LineOperators
  <2>4. wire' = [W EXCEPT ![from][n][i] = tail]
    <3>1. wire' = [W EXCEPT ![from][n][i] = [W[from][n][i] EXCEPT !.msgs = Tail(W[from][n][i].msgs)]]
      BY <1>2, <1>8
    <3> HIDE DEF W
    <3> QED
      BY <2>1, <3>1
  <2> HIDE DEF W, tail, line
  <2>5. Sound([W EXCEPT ![from][n][i] = tail], nodes', status)
    BY <1>6, <1>8, <2>1, <2>3, LineChanges
  <2> QED
    BY <2>4, <2>5 DEF Types
<1> QED
  BY <1>7, <1>8

(* A node that is not up changes its state, its connections and entries.   *)
LEMMA NodeChanges ==
  ASSUME Types, NEW n \in Node, ~Up(n), NEW row, NEW entries,
         NEW s \in {"down", "starting", "up"},
         RowOK(row, entries, n, [status EXCEPT ![n] = s])
  PROVE  Sound([wire EXCEPT ![n] = row], [nodes EXCEPT ![n] = entries], [status EXCEPT ![n] = s])
<1> DEFINE st == [status EXCEPT ![n] = s]
<1>1. /\ wire \in [Node -> Rows] /\ nodes \in [Node -> Entries]
      /\ status \in [Node -> {"down", "starting", "up"}]
      /\ \A q \in Node : RowOK(wire[q], nodes[q], q, status)
  BY DEF Types, Sound
<1>2. ASSUME NEW q \in Node \ {n} PROVE RowOK(wire[q], nodes[q], q, st)
  <2>1. RowOK(wire[q], nodes[q], q, status) /\ st[q] = status[q]
    BY <1>1
  <2>2. \A p \in Node : status[p] = "up" => st[p] = "up"
    BY <1>1 DEF Up
  <2> HIDE DEF st
  <2> QED
    BY <2>1, <2>2 DEF RowOK, Placed
<1>3. row \in Rows /\ entries \in Entries
  BY DEF RowOK
<1> QED
  BY <1>1, <1>2, <1>3 DEF Sound

LEMMA ReadLine ==
  ASSUME Types, NEW p \in Node, NEW n \in Node, NEW i \in Lines, Reads(p, n, i)
  PROVE  wire[p][n][i] \in Line /\ p # n /\ Up(n)
<1>1. RowOK(wire[p], nodes[p], p, status)
  BY DEF Types, Sound
<1> QED
  BY <1>1 DEF RowOK, Rows, Placed, Reads, Up

LEMMA TakesSound ==
  ASSUME Types, NEW p \in Node, NEW n \in Node, NEW i \in Lines, HasNext(p, n, i)
  PROVE  Sound([wire EXCEPT ![p][n][i].msgs = Tail(@)], nodes, status)
<1> DEFINE line == wire[p][n][i]
<1>1. line \in Line /\ line.msgs # <<>>
  BY ReadLine DEF HasNext
<1>2. Tail(line.msgs) \in Seq(Items \cup {"subscribe", "ack"})
  BY <1>1 DEF Line
<1>3. Like([line EXCEPT !.msgs = Tail(line.msgs)], line)
  BY <1>1, <1>2, LineOperators
<1>4. Sound([wire EXCEPT ![p][n][i] = [line EXCEPT !.msgs = Tail(line.msgs)]], nodes, status)
  BY <1>3, LineChanges DEF Types
<1> QED
  BY <1>4

LEMMA ReturnsSound ==
  ASSUME Types, NEW p \in Node, NEW n \in Node, NEW i \in Lines, Reads(p, n, i),
         Returns(p, n, i), UNCHANGED status
  PROVE  Types'
<1>1. wire[p][n][i] \in Line
  BY ReadLine
<1>2. Like(Returned(wire[p][n][i]), wire[p][n][i])
  BY <1>1, LineOperators
<1>3. Sound([wire EXCEPT ![p][n][i] = Returned(wire[p][n][i])], nodes, status)
  BY <1>2, LineChanges DEF Types
<1> QED
  BY <1>3 DEF Returns, Types

LEMMA UnusedLine ==
  ASSUME NEW w, NEW n, NEW p, \E i \in Lines : w[n][p][i] = None
  PROVE  Unused(w, n, p) \in Lines /\ w[n][p][Unused(w, n, p)] = None
BY DEF Unused

LEMMA PopulateSound ==
  ASSUME Types, NEW n \in Node, Populate(n)
  PROVE  Types'
<1> DEFINE all     == FoldLeft(LAMBDA others, s : Ask(n, others, s), {}, Seeds[n])
           free(p) == Unused(wire, n, p)
           st      == [status EXCEPT ![n] = "starting"]
           row     == [p \in Node |-> [i \in Lines |->
                         IF p \in all /\ i = free(p) THEN Opened(<<>>) ELSE wire[n][p][i]]]
           entries == [p \in Node |->
                         IF p \in all THEN [line |-> free(p), skip |-> None] ELSE None]
<1>1. /\ status[n] = "down" /\ \A p \in all : Up(p) /\ HasUnused(n, p)
      /\ status' = st /\ nodes' = [nodes EXCEPT ![n] = entries]
      /\ wire' = [wire EXCEPT ![n] = row]
  BY DEF Populate
<1>2. /\ wire[n] \in Rows /\ RowOK(wire[n], nodes[n], n, status)
      /\ status \in [Node -> {"down", "starting", "up"}]
  BY DEF Types, Sound
<1> HIDE DEF all
<1>3. ASSUME NEW p \in Node, p \in all
      PROVE  free(p) \in Lines /\ p # n /\ st[p] = "up"
  <2>1. Up(p) /\ HasUnused(n, p)
    BY <1>1, <1>3
  <2>2. free(p) \in Lines
    BY <2>1, UnusedLine DEF HasUnused
  <2>3. p # n /\ st[p] = "up"
    BY <1>1, <1>2, <2>1 DEF Up
  <2> QED
    BY <2>2, <2>3
<1> HIDE DEF free
<1>4. ASSUME NEW p \in Node, NEW i \in Lines
      PROVE  /\ row[p][i] \in Line \cup {None} /\ entries[p] \in Entry \cup {None}
             /\ Held(row[p][i], entries[p], i) /\ Placed(row[p][i], n, p, st)
  <2> DEFINE old == wire[n][p][i]
  <2>1. old \in Line \cup {None} /\ Placed(old, n, p, st) /\ ~(old # None /\ old.open)
    <3>1. old \in Line \cup {None} /\ Held(old, None, i) /\ Placed(old, n, p, status)
      BY <1>1, <1>2 DEF RowOK, Rows
    <3>2. status[p] = "up" => st[p] = "up"
      BY <1>1, <1>2
    <3> QED
      BY <3>1, <3>2 DEF Held, Placed
  <2>2. CASE p \in all
    <3>1. entries[p] = [line |-> free(p), skip |-> None] /\ entries[p].line = free(p)
      BY <2>2
    <3>2. entries[p] \in Entry /\ entries[p] # None
      BY <1>3, <2>2, <3>1, TcpAssumption DEF Entry
    <3>3. CASE i = free(p)
      <4>1. row[p][i] = Opened(<<>>)
        BY <2>2, <3>3
      <4>2. Opened(<<>>) \in Line /\ Opened(<<>>) # None /\ Opened(<<>>).open
        <5>1. <<>> \in Seq(Items \cup {"subscribe", "ack"})
          OBVIOUS
        <5> QED
          BY <5>1, OpenedLine
      <4> HIDE DEF row, entries
      <4> QED
        BY <1>3, <2>2, <3>1, <3>2, <3>3, <4>1, <4>2 DEF Held, Placed
    <3>4. CASE i # free(p)
      <4>1. row[p][i] = old
        BY <3>4
      <4> HIDE DEF row, entries, old
      <4> QED
        BY <2>1, <3>1, <3>2, <3>4, <4>1 DEF Held
    <3> QED
      BY <3>3, <3>4
  <2>3. CASE p \notin all
    BY <2>1, <2>3 DEF Held
  <2> QED
    BY <2>2, <2>3
<1>5. RowOK(row, entries, n, st)
  <2>1. row \in Rows /\ entries \in Entries
    BY <1>4, TcpAssumption DEF Rows, Entries
  <2>2. st[n] # "down"
    BY <1>2
  <2> HIDE DEF row, entries, st
  <2> QED
    BY <1>4, <2>1, <2>2 DEF RowOK
<1> HIDE DEF row, entries
<1>6. Sound([wire EXCEPT ![n] = row], [nodes EXCEPT ![n] = entries], st)
  BY <1>1, <1>5, NodeChanges DEF Up
<1> QED
  BY <1>1, <1>6 DEF Types

LEMMA ClosesSound ==
  ASSUME Types, NEW n \in Node, Starting(n), Closes(n)
  PROVE  Types'
<1> DEFINE st      == [status EXCEPT ![n] = "down"]
           row     == [p \in Node |-> [i \in Lines |->
                         IF wire[n][p][i] = None THEN None ELSE Dropped(wire[n][p][i])]]
           entries == [p \in Node |-> None]
<1>1. /\ status' = st /\ nodes' = [nodes EXCEPT ![n] = entries]
      /\ wire' = [wire EXCEPT ![n] = row]
  BY DEF Closes
<1>2. /\ wire[n] \in Rows /\ RowOK(wire[n], nodes[n], n, status)
      /\ status \in [Node -> {"down", "starting", "up"}] /\ status[n] = "starting"
  BY DEF Types, Sound, Starting
<1>3. ASSUME NEW p \in Node, NEW i \in Lines
      PROVE  /\ row[p][i] \in Line \cup {None}
             /\ Held(row[p][i], None, i) /\ Placed(row[p][i], n, p, st)
  <2> DEFINE old == wire[n][p][i]
  <2>1. old \in Line \cup {None} /\ Placed(old, n, p, status)
    BY <1>2 DEF RowOK, Rows
  <2>2. status[p] = "up" => st[p] = "up"
    BY <1>2
  <2>3. CASE old = None
    BY <2>3 DEF Held, Placed
  <2>4. CASE old # None
    <3>1. row[p][i] = Dropped(old)
      BY <2>4
    <3>2. /\ Dropped(old) \in Line \cup {None}
          /\ Dropped(old) # None => ~Dropped(old).open /\ (Dropped(old).read => old.read)
      BY <2>1, <2>4, LineOperators
    <3> HIDE DEF row, old, st
    <3> QED
      BY <2>1, <2>2, <2>4, <3>1, <3>2 DEF Held, Placed
  <2> QED
    BY <2>3, <2>4
<1>4. RowOK(row, entries, n, st)
  <2>1. row \in Rows /\ entries \in Entries /\ \A p \in Node : entries[p] = None
    BY <1>3 DEF Rows, Entries
  <2> HIDE DEF row, entries, st
  <2> QED
    BY <1>3, <2>1 DEF RowOK
<1> HIDE DEF row, entries
<1>5. Sound([wire EXCEPT ![n] = row], [nodes EXCEPT ![n] = entries], st)
  BY <1>2, <1>4, NodeChanges DEF Up
<1> QED
  BY <1>1, <1>5 DEF Types

LEMMA ListensSound ==
  ASSUME Types, NEW n \in Node, Listens(n)
  PROVE  Types'
<1> DEFINE st == [status EXCEPT ![n] = "up"]
<1>1. status' = st /\ wire' = wire /\ nodes' = nodes /\ ~Up(n)
  BY DEF Listens, Asked, Starting, Up
<1>2. /\ wire \in [Node -> Rows] /\ nodes \in [Node -> Entries]
      /\ RowOK(wire[n], nodes[n], n, status)
      /\ \A p \in Node : status[p] = "up" => st[p] = "up"
      /\ st[n] = "up"
  BY DEF Types, Sound
<1> HIDE DEF st
<1>3. RowOK(wire[n], nodes[n], n, st)
  BY <1>2 DEF RowOK, Placed
<1>4. Sound([wire EXCEPT ![n] = wire[n]], [nodes EXCEPT ![n] = nodes[n]], st)
  BY <1>1, <1>3, NodeChanges DEF st
<1> QED
  BY <1>1, <1>2, <1>4 DEF Types

LEMMA SubscribesSound ==
  ASSUME Types, NEW n \in Node, NEW p \in Node, SubscribeToNode(n, p)
  PROVE  Types'
<1>1. CASE Speaks(n, p)
  <2> DEFINE i    == nodes[n][p].line
             line == wire[n][p][i]
             new  == [line EXCEPT !.msgs = Append(line.msgs, "subscribe")]
  <2>1. nodes[n][p] \in Entry
    BY <1>1 DEF Types, Sound, Entries, Speaks, Knows
  <2>2. i \in Lines /\ line \in Line
    BY <1>1, <2>1, ReadLine DEF Speaks, Entry
  <2>3. Append(line.msgs, "subscribe") \in Seq(Items \cup {"subscribe", "ack"})
    BY <2>2 DEF Line
  <2>4. Like(new, line)
    BY <2>2, <2>3, LineOperators
  <2>5. wire' = [wire EXCEPT ![n][p][i] = new] /\ UNCHANGED <<nodes, status>>
    BY <1>1 DEF SubscribeToNode
  <2>6. Sound([wire EXCEPT ![n][p][i] = new], nodes, status)
    BY <2>2, <2>4, LineChanges DEF Types
  <2> QED
    BY <2>5, <2>6 DEF Types
<1>2. CASE ~Speaks(n, p)
  BY <1>2 DEF SubscribeToNode, Types
<1> QED
  BY <1>1, <1>2

LEMMA HandleSubscribeSound ==
  ASSUME Types, NEW p \in Node, NEW n \in Node, NEW i \in Lines, HandleSubscribe(p, n, i)
  PROVE  Types'
<1>1. HasNext(p, n, i) /\ Reads(p, n, i) /\ p # n /\ UNCHANGED status
  BY ReadLine DEF HandleSubscribe, HasNext
<1>2. CASE ~Up(p)
  BY <1>1, <1>2, ReturnsSound DEF HandleSubscribe
<1>3. CASE Up(p)
  <2> DEFINE read == [wire EXCEPT ![p][n][i].msgs = Tail(@)]
             less == [j \in Lines |->
                        IF Knows(n, p) /\ j = nodes[n][p].line
                        THEN Dropped(wire[n][p][j]) ELSE wire[n][p][j]]
             old  == [wire EXCEPT ![p][n][i].msgs = Tail(@), ![n][p] = [j \in Lines |->
                        IF Knows(n, p) /\ j = nodes[n][p].line THEN Dropped(@[j]) ELSE @[j]]]
             k    == Unused(old, n, p)
             more == [less EXCEPT ![k] = Opened(<<"ack">>)]
             entry   == [line |-> k, skip |-> i]
             row     == [wire[n] EXCEPT ![p] = more]
             entries == [nodes[n] EXCEPT ![p] = entry]
  <2>1. HasUnused(n, p) /\ wire' = [old EXCEPT ![n][p][k] = Opened(<<"ack">>)]
        /\ nodes' = [nodes EXCEPT ![n][p] = entry]
    BY <1>3 DEF HandleSubscribe
  <2>2. /\ wire \in [Node -> Rows] /\ nodes \in [Node -> Entries]
        /\ wire[n] \in Rows /\ wire[n][p] \in [Lines -> Line \cup {None}]
        /\ nodes[n] \in Entries /\ RowOK(wire[n], nodes[n], n, status)
        /\ status[p] = "up" /\ status[n] = "up"
    BY <1>1, <1>3 DEF Types, Sound, Rows, Up, HasNext
  <2>3. Sound(read, nodes, status)
    BY <1>1, TakesSound
  <2>4. read \in [Node -> Rows] /\ read[n] = wire[n]
    BY <1>1, <2>2, <2>3 DEF Sound
  <2>5. old = [read EXCEPT ![n] = [wire[n] EXCEPT ![p] = less]]
    <3>1. old = [read EXCEPT ![n][p] = less]
      BY <2>4 DEF Rows
    <3> HIDE DEF read, old, less
    <3> QED
      BY <2>4, <3>1
  <2>6. old[n][p] = less
    BY <2>2, <2>4, <2>5 DEF Rows
  <2>7. k \in Lines /\ less[k] = None
    <3>1. PICK j \in Lines : wire[n][p][j] = None
      BY <2>1 DEF HasUnused
    <3>2. ~(Knows(n, p) /\ j = nodes[n][p].line)
      BY <2>2, <3>1 DEF RowOK, Held, Knows
    <3>3. old[n][p][j] = None
      BY <2>6, <3>1, <3>2
    <3> HIDE DEF old
    <3> QED
      BY <2>6, <3>3, UnusedLine
  <2> HIDE DEF k
  <2>8. wire' = [read EXCEPT ![n] = row]
    <3> HIDE DEF read, old, less
    <3>1. wire' = [old EXCEPT ![n] = [old[n] EXCEPT ![p] = [old[n][p] EXCEPT ![k] = Opened(<<"ack">>)]]]
      BY <2>1
    <3> DEFINE before == [wire[n] EXCEPT ![p] = less]
    <3>2. old[n] = before /\ old = [read EXCEPT ![n] = before]
      BY <2>4, <2>5
    <3>3. [before EXCEPT ![p] = more] = row
      BY <2>2 DEF Rows
    <3>4. [old[n] EXCEPT ![p] = [old[n][p] EXCEPT ![k] = Opened(<<"ack">>)]] = row
      BY <2>6, <3>2, <3>3
    <3> HIDE DEF before, row
    <3>5. wire' = [old EXCEPT ![n] = row]
      BY <3>1, <3>4
    <3> QED
      BY <2>4, <3>2, <3>5
  <2>9. nodes' = [nodes EXCEPT ![n] = entries]
    BY <2>1
  <2>10. entry \in Entry /\ entry # None /\ entry.line = k
    BY <2>7, TcpAssumption DEF Entry
  <2>11. Opened(<<"ack">>) \in Line /\ Opened(<<"ack">>) # None /\ Opened(<<"ack">>).open
    <3>1. <<"ack">> \in Seq(Items \cup {"subscribe", "ack"})
      OBVIOUS
    <3> QED
      BY <3>1, OpenedLine
  <2>12. ASSUME NEW j \in Lines
         PROVE  /\ more[j] \in Line \cup {None}
                /\ Held(more[j], entry, j) /\ Placed(more[j], n, p, status)
    <3>1. /\ wire[n][p][j] \in Line \cup {None}
          /\ Held(wire[n][p][j], nodes[n][p], j) /\ Placed(wire[n][p][j], n, p, status)
      BY <2>2 DEF RowOK
    <3>2. CASE j = k
      <4>1. more[j] = Opened(<<"ack">>)
        BY <2>7, <3>2
      <4> HIDE DEF more, entry
      <4> QED
        BY <1>1, <2>2, <2>10, <2>11, <3>2, <4>1 DEF Held, Placed
    <3>3. CASE j # k /\ Knows(n, p) /\ j = nodes[n][p].line
      <4>1. more[j] = Dropped(wire[n][p][j])
        BY <3>3
      <4>2. wire[n][p][j] \in Line
        BY <3>1, <3>3 DEF Held, Knows
      <4>3. /\ Dropped(wire[n][p][j]) \in Line \cup {None}
            /\ Dropped(wire[n][p][j]) # None => ~Dropped(wire[n][p][j]).open
        BY <4>2, LineOperators
      <4> HIDE DEF more, entry
      <4> QED
        BY <1>1, <2>2, <2>10, <3>3, <4>1, <4>3 DEF Held, Placed
    <3>4. CASE j # k /\ ~(Knows(n, p) /\ j = nodes[n][p].line)
      <4>1. more[j] = wire[n][p][j] /\ ~(more[j] # None /\ more[j].open)
        BY <3>1, <3>4 DEF Held, Knows
      <4> HIDE DEF more, entry
      <4> QED
        BY <2>10, <3>1, <3>4, <4>1 DEF Held
    <3> QED
      BY <3>2, <3>3, <3>4
  <2>13. RowOK(row, entries, n, status)
    <3>1. more \in [Lines -> Line \cup {None}]
      BY <2>12
    <3>2. row \in Rows /\ entries \in Entries
      BY <2>2, <2>10, <3>1 DEF Rows, Entries
    <3>3. row[p] = more /\ entries[p] = entry
          /\ \A q \in Node \ {p} : row[q] = wire[n][q] /\ entries[q] = nodes[n][q]
      BY <2>2 DEF Rows, Entries
    <3> HIDE DEF row, entries, more, entry
    <3> QED
      BY <2>2, <2>12, <3>2, <3>3 DEF RowOK
  <2> HIDE DEF row, entries, read
  <2>14. Sound([read EXCEPT ![n] = row], [nodes EXCEPT ![n] = entries], status)
    BY <2>3, <2>13, RowChanges
  <2> QED
    BY <1>1, <2>8, <2>9, <2>14 DEF Types
<1> QED
  BY <1>2, <1>3

LEMMA HandleSubscribeAckSound ==
  ASSUME Types, NEW p \in Node, NEW n \in Node, NEW i \in Lines, HandleSubscribeAck(p, n, i)
  PROVE  Types'
<1> DEFINE read == [wire EXCEPT ![p][n][i].msgs = Tail(@)]
<1>1. /\ Sound(read, nodes, status) /\ wire' = read /\ UNCHANGED status
      /\ nodes' = IF Knows(n, p) THEN [nodes EXCEPT ![n][p].skip = i] ELSE nodes
  BY TakesSound DEF HandleSubscribeAck
<1> HIDE DEF read
<1>2. CASE ~Knows(n, p)
  BY <1>1, <1>2 DEF Types
<1>3. CASE Knows(n, p)
  <2> DEFINE entry   == [nodes[n][p] EXCEPT !.skip = i]
             entries == [nodes[n] EXCEPT ![p] = entry]
  <2>1. /\ nodes[n] \in Entries /\ read[n] \in Rows /\ RowOK(read[n], nodes[n], n, status)
        /\ nodes[n][p] \in Entry
    BY <1>1, <1>3 DEF Sound, Entries, Knows
  <2>2. entry \in Entry /\ entry.line = nodes[n][p].line /\ entry # None
    BY <2>1, TcpAssumption DEF Entry
  <2>3. nodes' = [nodes EXCEPT ![n] = entries]
    BY <1>1, <1>3
  <2> HIDE DEF entry
  <2>4. entries \in Entries
    BY <2>1, <2>2 DEF Entries
  <2>5. entries[p] = entry /\ \A q \in Node \ {p} : entries[q] = nodes[n][q]
    BY <2>1 DEF Entries
  <2>6. nodes[n][p] # None
    BY <1>3 DEF Knows
  <2> HIDE DEF entries
  <2>7. RowOK(read[n], entries, n, status)
    BY <2>1, <2>2, <2>4, <2>5, <2>6 DEF RowOK, Held
  <2>8. Sound([read EXCEPT ![n] = read[n]], [nodes EXCEPT ![n] = entries], status)
    BY <1>1, <2>7, RowChanges
  <2>9. [read EXCEPT ![n] = read[n]] = read
    BY <1>1 DEF Sound
  <2> QED
    BY <1>1, <2>3, <2>8, <2>9 DEF Types
<1> QED
  BY <1>2, <1>3

LEMMA HandleItemSound ==
  ASSUME Types, NEW p \in Node, NEW n \in Node, NEW i \in Lines, HandleItem(p, n, i)
  PROVE  Types'
<1> DEFINE item == Next1(p, n, i)
<1>1. /\ HasNext(p, n, i) /\ Reads(p, n, i) /\ Up(n) /\ item \in Items /\ UNCHANGED status
      /\ wire[p][n][i] # None /\ wire[p][n][i].msgs # <<>> /\ p \in Node \ {n}
  BY ReadLine DEF HandleItem, HasNext, Reads
<1>2. CASE Takes(p, n, i)
  BY <1>1, <1>2, TakesSound DEF Takes, Types
<1>3. CASE Returns(p, n, i)
  BY <1>1, <1>3, ReturnsSound
<1>4. CASE Broadcasts(n, item, p, i)
  BY <1>1, <1>4, BroadcastsSound
<1> QED
  BY <1>2, <1>3, <1>4 DEF HandleItem

LEMMA CrashSound ==
  ASSUME Types, NEW n \in Node, Crash(n)
  PROVE  Types'
<1> DEFINE st      == [status EXCEPT ![n] = "down"]
           entries == [p \in Node |-> None]
           some(p, q, i, k) == [wire[p][q][i] EXCEPT !.msgs = SubSeq(@, 1, Min({k, Len(@)}))]
<1>1. PICK keep \in [Node -> 0..Cardinality(Items)] :
        wire' = [p \in Node |-> [q \in Node |-> [i \in Lines |->
          IF wire[p][q][i] = None THEN None
          ELSE IF p = n THEN Dropped(some(p, q, i, keep[q]))
          ELSE IF q = n THEN Returned(wire[p][q][i]) ELSE wire[p][q][i]]]]
  BY DEF Crash
<1>2. status' = st /\ nodes' = [nodes EXCEPT ![n] = entries]
  BY DEF Crash
<1>3. /\ wire \in [Node -> Rows] /\ nodes \in [Node -> Entries]
      /\ status \in [Node -> {"down", "starting", "up"}]
      /\ \A p \in Node : RowOK(wire[p], nodes[p], p, status)
  BY DEF Types, Sound
<1>4. /\ st \in [Node -> {"down", "starting", "up"}] /\ st[n] = "down"
      /\ \A p \in Node \ {n} : st[p] = status[p] /\ nodes'[p] = nodes[p]
      /\ nodes' \in [Node -> Entries] /\ nodes'[n] = entries
  BY <1>2, <1>3 DEF Entries
<1> HIDE DEF st
<1>5. ASSUME NEW p \in Node, NEW q \in Node, NEW i \in Lines
      PROVE  /\ wire'[p][q][i] \in Line \cup {None}
             /\ Held(wire'[p][q][i], nodes'[p][q], i) /\ Placed(wire'[p][q][i], p, q, st)
  <2> DEFINE old == wire[p][q][i]
             part == some(p, q, i, keep[q])
  <2>1. /\ old \in Line \cup {None} /\ Held(old, nodes[p][q], i) /\ Placed(old, p, q, status)
    BY <1>3 DEF RowOK, Rows
  <2>2. wire'[p][q][i] = IF old = None THEN None ELSE IF p = n THEN Dropped(part)
                         ELSE IF q = n THEN Returned(old) ELSE old
    BY <1>1
  <2>3. CASE old = None
    BY <1>4, <2>1, <2>2, <2>3 DEF Held, Placed
  <2>4. CASE old # None /\ p = n
    <3> DEFINE k == Min({keep[q], Len(old.msgs)})
    <3>1. old \in Line /\ old.msgs \in Seq(Items \cup {"subscribe", "ack"})
      BY <2>1, <2>4 DEF Line
    <3>2. keep[q] \in Nat /\ Len(old.msgs) \in Nat
      BY <3>1
    <3>3. k \in Nat /\ k <= Len(old.msgs)
      <4>1. \E x \in {keep[q], Len(old.msgs)} : \A y \in {keep[q], Len(old.msgs)} : x <= y
        BY <3>2
      <4>2. /\ k \in {keep[q], Len(old.msgs)}
            /\ \A y \in {keep[q], Len(old.msgs)} : k <= y
        BY <4>1 DEF Min
      <4> QED
        BY <3>2, <4>2
    <3> HIDE DEF k
    <3>4. SubSeq(old.msgs, 1, k) \in Seq(Items \cup {"subscribe", "ack"})
      BY <3>1, <3>3
    <3>5. Like([old EXCEPT !.msgs = SubSeq(old.msgs, 1, k)], old)
      BY <3>1, <3>4, LineOperators
    <3>6. part = [old EXCEPT !.msgs = SubSeq(old.msgs, 1, k)]
      BY DEF k
    <3>7. part \in Line /\ (part.read => old.read)
      <4>1. [old EXCEPT !.msgs = SubSeq(old.msgs, 1, k)] \in Line
        BY <3>1, <3>4 DEF Line
      <4>2. [old EXCEPT !.msgs = SubSeq(old.msgs, 1, k)] # None
        BY <4>1, TcpAssumption
      <4> HIDE DEF part, old
      <4> QED
        BY <3>5, <3>6, <4>1, <4>2 DEF Like
    <3>8. /\ Dropped(part) \in Line \cup {None}
          /\ Dropped(part) # None => ~Dropped(part).open /\ (Dropped(part).read => part.read)
      BY <3>7, LineOperators
    <3>9. n # q /\ nodes'[p][q] = None
      BY <1>4, <2>1, <2>4 DEF Placed
    <3>10. wire'[p][q][i] = Dropped(part)
      BY <2>2, <2>4
    <3> HIDE DEF part, old
    <3> QED
      BY <1>4, <2>1, <2>4, <3>7, <3>8, <3>9, <3>10 DEF Held, Placed
  <2>5. CASE old # None /\ p # n /\ q = n
    <3>1. Like(Returned(old), old) /\ (Returned(old) # None => ~Returned(old).read)
      BY <2>1, <2>5, LineOperators
    <3>2. wire'[p][q][i] = Returned(old)
      BY <2>2, <2>5
    <3> HIDE DEF old
    <3> QED
      BY <1>4, <2>1, <2>5, <3>1, <3>2 DEF Like, Held, Placed
  <2>6. CASE old # None /\ p # n /\ q # n
    BY <1>4, <2>1, <2>2, <2>6 DEF Held, Placed
  <2> QED
    BY <2>3, <2>4, <2>5, <2>6
<1>6. wire' \in [Node -> Rows]
  <2> DEFINE new(p, q, i) ==
               IF wire[p][q][i] = None THEN None
               ELSE IF p = n THEN Dropped(some(p, q, i, keep[q]))
               ELSE IF q = n THEN Returned(wire[p][q][i]) ELSE wire[p][q][i]
  <2>1. wire' = [p \in Node |-> [q \in Node |-> [i \in Lines |-> new(p, q, i)]]]
    BY <1>1
  <2> HIDE DEF new
  <2>2. \A p, q \in Node : \A i \in Lines : wire'[p][q][i] = new(p, q, i)
    BY <2>1
  <2> QED
    BY <1>5, <2>1, <2>2 DEF Rows
<1>7. ASSUME NEW p \in Node PROVE RowOK(wire'[p], nodes'[p], p, st)
  <2>1. st[p] = "down" => \A q \in Node : nodes'[p][q] = None
    <3>1. CASE p = n
      BY <1>4, <3>1
    <3>2. CASE p # n
      BY <1>3, <1>4, <3>2 DEF RowOK
    <3> QED
      BY <3>1, <3>2
  <2> QED
    BY <1>4, <1>5, <1>6, <2>1 DEF RowOK
<1> QED
  BY <1>2, <1>4, <1>6, <1>7 DEF Types, Sound

LEMMA ConnectionsStep ==
  ASSUME Types, TcpNext
  PROVE  Types'
<1>1. ASSUME NEW n \in Node, NEW p \in Node, AskDifference(n, p) PROVE Types'
  <2>1. CASE Closes(n)
    BY <1>1, <2>1, ClosesSound DEF AskDifference
  <2>2. CASE UNCHANGED <<status, nodes, wire>>
    BY <2>2 DEF Types
  <2> QED
    BY <1>1, <2>1, <2>2 DEF AskDifference
<1>2. ASSUME NEW n \in Node, FetchBlock(n) PROVE Types'
  <2>1. CASE Closes(n)
    BY <1>2, <2>1, ClosesSound DEF FetchBlock, Asked
  <2>2. CASE UNCHANGED <<status, nodes, wire>>
    BY <2>2 DEF Types
  <2> QED
    BY <1>2, <2>1, <2>2 DEF FetchBlock
<1>3. ASSUME NEW n \in Node, NEW b \in Blocks, SubmitTemplate(n, b) PROVE Types'
  BY <1>3, BroadcastsSound DEF SubmitTemplate, Items
<1>4. ASSUME NEW n \in Node, NEW tx \in Txs, SubmitTransaction(n, tx) PROVE Types'
  BY <1>4, BroadcastsSound DEF SubmitTransaction, Items
<1>5. ASSUME NEW n \in Node, NEW p \in Node, NEW i \in Lines, HandleEnd(p, n, i) PROVE Types'
  BY <1>5, ReturnsSound DEF HandleEnd
<1> QED
  BY <1>1, <1>2, <1>3, <1>4, <1>5, PopulateSound, ListensSound, SubscribesSound, CrashSound,
     HandleSubscribeSound, HandleSubscribeAckSound, HandleItemSound
  DEF TcpNext, Synchronizes, Joins, Handles

(* Mempools, what was submitted, and the crashes.                          *)
Counted ==
  /\ pool \in [Node -> SUBSET Txs]
  /\ found \subseteq Items /\ spread \subseteq found /\ faults \in 0..MaxFaults

LEMMA CountedStep ==
  ASSUME Counted, TcpNext
  PROVE  Counted'
<1> USE DEF Counted, chainVars
<1>1. ASSUME NEW n \in Node, Populate(n) PROVE Counted'
  BY <1>1 DEF Populate
<1>2. ASSUME NEW n \in Node, NEW p \in Node, AskDifference(n, p) PROVE Counted'
  BY <1>2 DEF AskDifference
<1>3. ASSUME NEW n \in Node, NEW b, Adds(n, b) PROVE pool' \in [Node -> SUBSET Txs]
  BY <1>3 DEF Adds
<1>4. ASSUME NEW n \in Node, NEW tx \in Txs, Queues(n, tx) PROVE pool' \in [Node -> SUBSET Txs]
  BY <1>4 DEF Queues
<1>5. ASSUME NEW n \in Node, FetchBlock(n) PROVE Counted'
  BY <1>3, <1>5 DEF FetchBlock
<1>6. ASSUME NEW n \in Node, Listens(n) \/ Joins(n) PROVE Counted'
  BY <1>6 DEF Listens, Joins, SubscribeToNode
<1>7. ASSUME NEW n \in Node, Crash(n) PROVE Counted'
  <2>1. pool' = [pool EXCEPT ![n] = {}] /\ spread' = {} /\ found' = found
    BY <1>7 DEF Crash
  <2>2. faults < MaxFaults /\ faults' = faults + 1
    BY <1>7 DEF Crash
  <2>3. faults' \in 0..MaxFaults
    BY <2>2, TcpAssumption
  <2> QED
    BY <2>1, <2>3
<1>8. ASSUME NEW item \in Items, NoteSpread(item) \/ UNCHANGED spread, found' = found \cup {item}
      PROVE  found' \subseteq Items /\ spread' \subseteq found'
  BY <1>8 DEF NoteSpread
<1>9. ASSUME NEW n \in Node, NEW b \in Blocks, SubmitTemplate(n, b) PROVE Counted'
  BY <1>3, <1>8, <1>9 DEF SubmitTemplate, Items
<1>10. ASSUME NEW n \in Node, NEW tx \in Txs, SubmitTransaction(n, tx) PROVE Counted'
  BY <1>4, <1>8, <1>10 DEF SubmitTransaction, Items
<1>11. ASSUME NEW n \in Node, NEW p \in Node, NEW i \in Lines, Handles(p, n, i) PROVE Counted'
  <2>1. CASE HandleSubscribe(p, n, i) \/ HandleSubscribeAck(p, n, i) \/ HandleEnd(p, n, i)
    BY <2>1 DEF HandleSubscribe, HandleSubscribeAck, HandleEnd
  <2>2. CASE HandleItem(p, n, i)
    BY <1>3, <1>4, <2>2 DEF HandleItem
  <2> QED
    BY <1>11, <2>1, <2>2 DEF Handles
<1> QED
  BY <1>1, <1>2, <1>5, <1>6, <1>7, <1>9, <1>10, <1>11 DEF TcpNext, Synchronizes

-----------------------------------------------------------------------------
(* Messages.  The blocks and transactions in them have been submitted.     *)

Carries(line, S) == line # None => line.msgs \in Seq(S \cup {"subscribe", "ack"})
Submitted == \A n, p \in Node : \A i \in Lines : Carries(wire[n][p][i], found)

LEMMA CarriesMore ==
  ASSUME Submitted, found \subseteq found'
  PROVE  \A n, p \in Node : \A i \in Lines : Carries(wire[n][p][i], found')
<1>1. found \cup {"subscribe", "ack"} \subseteq found' \cup {"subscribe", "ack"}
  OBVIOUS
<1>2. Seq(found \cup {"subscribe", "ack"}) \subseteq Seq(found' \cup {"subscribe", "ack"})
  BY <1>1
<1> QED
  BY <1>2 DEF Submitted, Carries

LEMMA CarriesOperators ==
  ASSUME NEW line \in Line, NEW S
  PROVE  /\ Carries(line, S) => Carries(Dropped(line), S)
         /\ Carries(Returned(line), S)
         /\ \A m \in Seq(S \cup {"subscribe", "ack"}) : Carries([line EXCEPT !.msgs = m], S)
<1>1. line # None
  BY TcpAssumption
<1>2. [line EXCEPT !.open = FALSE].msgs = line.msgs
  BY DEF Line
<1>3. [line EXCEPT !.read = FALSE, !.msgs = <<>>].msgs = <<>>
  BY DEF Line
<1>4. \A m : [line EXCEPT !.msgs = m].msgs = m
  BY DEF Line
<1>5. <<>> \in Seq(S \cup {"subscribe", "ack"})
  OBVIOUS
<1> QED
  BY <1>1, <1>2, <1>3, <1>4, <1>5 DEF Carries, Dropped, Returned, Kept

LEMMA OpenedCarries ==
  ASSUME NEW S, NEW m \in Seq(S \cup {"subscribe", "ack"})
  PROVE  Carries(Opened(m), S)
BY DEF Carries, Opened

LEMMA WireShape ==
  ASSUME Types
  PROVE  /\ wire \in [Node -> Rows] /\ nodes \in [Node -> Entries]
         /\ \A n, p \in Node : wire[n][p] \in [Lines -> Line \cup {None}]
         /\ \A n, p \in Node : \A i \in Lines :
              wire[n][p][i] \in Line \cup {None} /\ Held(wire[n][p][i], nodes[n][p], i)
BY DEF Types, Sound, RowOK, Rows

(* One connection gets another message, or loses the first or all.         *)
LEMMA LineCarries ==
  ASSUME Types, Submitted, UNCHANGED found, NEW n \in Node, NEW p \in Node, NEW i \in Lines,
         NEW new, Carries(new, found), wire' = [wire EXCEPT ![n][p][i] = new]
  PROVE  Submitted'
<1>1. \A a, q \in Node : \A j \in Lines : wire'[a][q][j] \in {new, wire[a][q][j]}
  BY WireShape DEF Rows
<1> QED
  BY <1>1 DEF Submitted, Carries

LEMMA TakesCarries ==
  ASSUME Types, Submitted, NEW p \in Node, NEW n \in Node, NEW i \in Lines, HasNext(p, n, i)
  PROVE  /\ Head(wire[p][n][i].msgs) \in found \cup {"subscribe", "ack"}
         /\ wire[p][n][i] \in Line
         /\ Tail(wire[p][n][i].msgs) \in Seq(found \cup {"subscribe", "ack"})
         /\ Carries([wire[p][n][i] EXCEPT !.msgs = Tail(@)], found)
<1> DEFINE line == wire[p][n][i]
<1>1. line \in Line /\ line.msgs # <<>> /\ line # None
  BY ReadLine, TcpAssumption DEF HasNext
<1>2. line.msgs \in Seq(found \cup {"subscribe", "ack"})
  BY <1>1 DEF Submitted, Carries
<1>3. /\ Head(line.msgs) \in found \cup {"subscribe", "ack"}
      /\ Tail(line.msgs) \in Seq(found \cup {"subscribe", "ack"})
  BY <1>1, <1>2
<1> QED
  BY <1>1, <1>3, CarriesOperators

LEMMA ReturnsCarries ==
  ASSUME Types, Submitted, UNCHANGED found, NEW p \in Node, NEW n \in Node, NEW i \in Lines,
         Reads(p, n, i), Returns(p, n, i)
  PROVE  Submitted'
<1>1. Carries(Returned(wire[p][n][i]), found)
  BY ReadLine, CarriesOperators
<1> QED
  BY <1>1, LineCarries DEF Returns

(* A submitted item is broadcast.                                          *)
LEMMA BroadcastsCarries ==
  ASSUME Types, Submitted, found \subseteq found', NEW n \in Node, NEW item \in found',
         NEW from, NEW i, Broadcasts(n, item, from, i),
         from # None => from \in Node /\ i \in Lines /\ from # n /\ HasNext(from, n, i)
  PROVE  Submitted'
<1> DEFINE Msgs == Seq(found' \cup {"subscribe", "ack"})
<1> DEFINE targets == Targets(n, from, i)
           served  == {p \in targets : Speaks(n, p)}
<1>0. PICK failed \in SUBSET {p \in targets : ~Speaks(n, p)} :
        LET line(p, j) == wire[n][p][j]
            rest(w)    == IF from = None THEN w ELSE [w EXCEPT ![from][n][i].msgs = Tail(@)]
        IN  wire' = rest([wire EXCEPT ![n] = [p \in Node |-> [j \in Lines |->
                 IF ~Knows(n, p) \/ j # nodes[n][p].line THEN line(p, j)
                 ELSE IF p \in served THEN [line(p, j) EXCEPT !.msgs = Append(@, item)]
                 ELSE IF p \in failed THEN Dropped(line(p, j)) ELSE line(p, j)]]])
  BY DEF Broadcasts
<1> DEFINE new(p, j) ==
             IF ~Knows(n, p) \/ j # nodes[n][p].line THEN wire[n][p][j]
             ELSE IF p \in served THEN [wire[n][p][j] EXCEPT !.msgs = Append(wire[n][p][j].msgs, item)]
             ELSE IF p \in failed THEN Dropped(wire[n][p][j]) ELSE wire[n][p][j]
           row == [p \in Node |-> [j \in Lines |-> new(p, j)]]
           W   == [wire EXCEPT ![n] = row]
<1>1. wire' = IF from = None THEN W ELSE [W EXCEPT ![from][n][i].msgs = Tail(@)]
  BY <1>0
<1> HIDE DEF targets, served
<1>2. \A p, q \in Node : \A j \in Lines : Carries(wire[p][q][j], found')
  BY CarriesMore
<1>3. ASSUME NEW p \in Node, NEW j \in Lines PROVE Carries(W[n][p][j], found')
  <2> DEFINE old == wire[n][p][j]
  <2>1. \/ W[n][p][j] = old
        \/ /\ Knows(n, p) /\ j = nodes[n][p].line
           /\ W[n][p][j] \in {Dropped(old), [old EXCEPT !.msgs = Append(old.msgs, item)]}
    <3>1. W[n][p][j] = new(p, j)
      BY WireShape
    <3> HIDE DEF W
    <3> QED
      BY <3>1
  <2>2. ASSUME Knows(n, p), j = nodes[n][p].line PROVE old \in Line /\ old # None
    BY <2>2, WireShape DEF Held, Knows
  <2>3. ASSUME old \in Line, old # None
        PROVE  Carries([old EXCEPT !.msgs = Append(old.msgs, item)], found')
    <3>1. old.msgs \in Msgs
      BY <1>2, <2>3 DEF Carries
    <3>2. Append(old.msgs, item) \in Msgs
      BY <3>1
    <3> QED
      BY <2>3, <3>2, CarriesOperators
  <2>4. old \in Line => Carries(Dropped(old), found')
    BY <1>2, CarriesOperators
  <2> HIDE DEF old
  <2> QED
    BY <1>2, <2>1, <2>2, <2>3, <2>4 DEF old
<1>4. W = [a \in Node |-> W[a]] /\ \A a \in Node \ {n} : W[a] = wire[a]
  BY WireShape
<1> HIDE DEF W, row, new
<1>5. \A a, q \in Node : \A j \in Lines : Carries(W[a][q][j], found')
  BY <1>2, <1>3, <1>4
<1>6. CASE from = None
  BY <1>1, <1>5, <1>6 DEF Submitted
<1>7. CASE from # None
  <2> DEFINE line == wire[from][n][i]
             tail == [line EXCEPT !.msgs = Tail(line.msgs)]
  <2>1. Carries(tail, found')
    <3>1. line \in Line /\ line # None /\ line.msgs # <<>> /\ line.msgs \in Msgs
      BY <1>2, <1>7, ReadLine, TcpAssumption DEF HasNext, Carries
    <3>2. Tail(line.msgs) \in Msgs
      BY <3>1
    <3> QED
      BY <3>1, <3>2, CarriesOperators
  <2>2. W[from] = wire[from] /\ W[from][n][i] = line
    BY <1>4, <1>7
  <2>3. wire' = [W EXCEPT ![from][n][i] = tail]
    <3>1. wire' = [W EXCEPT ![from][n][i] = [W[from][n][i] EXCEPT !.msgs = Tail(W[from][n][i].msgs)]]
      BY <1>1, <1>7
    <3> QED
      BY <2>2, <3>1
  <2> HIDE DEF tail, line
  <2>4. wire' = [W EXCEPT ![from] = [wire[from] EXCEPT ![n][i] = tail]]
    BY <2>2, <2>3
  <2>5. \A a \in Node : wire'[a] = IF a = from THEN [wire[from] EXCEPT ![n][i] = tail] ELSE W[a]
    BY <1>4, <2>4
  <2>6. \A q \in Node : \A j \in Lines :
          [wire[from] EXCEPT ![n][i] = tail][q][j] \in {tail, wire[from][q][j]}
    BY <1>7, WireShape DEF Rows
  <2>7. \A a, q \in Node : \A j \in Lines : wire'[a][q][j] \in {tail, W[a][q][j]}
    BY <2>2, <2>5, <2>6
  <2> QED
    BY <1>5, <2>1, <2>7 DEF Submitted, Carries
<1> QED
  BY <1>6, <1>7

LEMMA PopulateCarries ==
  ASSUME Types, Submitted, NEW n \in Node, Populate(n)
  PROVE  Submitted'
<1> DEFINE all     == FoldLeft(LAMBDA others, s : Ask(n, others, s), {}, Seeds[n])
           free(p) == Unused(wire, n, p)
           row     == [p \in Node |-> [i \in Lines |->
                         IF p \in all /\ i = free(p) THEN Opened(<<>>) ELSE wire[n][p][i]]]
<1>1. wire' = [wire EXCEPT ![n] = row]
  BY DEF Populate
<1> HIDE DEF all, free
<1>2. \A a, q \in Node : \A j \in Lines : wire'[a][q][j] \in {Opened(<<>>), wire[a][q][j]}
  BY <1>1, WireShape
<1>3. UNCHANGED found
  BY DEF Populate
<1>4. Carries(Opened(<<>>), found)
  <2>1. <<>> \in Seq(found \cup {"subscribe", "ack"})
    OBVIOUS
  <2> QED
    BY <2>1, OpenedCarries
<1> QED
  BY <1>2, <1>3, <1>4 DEF Submitted, Carries

LEMMA ClosesCarries ==
  ASSUME Types, Submitted, UNCHANGED found, NEW n \in Node, Closes(n)
  PROVE  Submitted'
<1>1. wire' = [wire EXCEPT ![n] = [p \in Node |-> [i \in Lines |->
        IF wire[n][p][i] = None THEN None ELSE Dropped(wire[n][p][i])]]]
  BY DEF Closes
<1>2. ASSUME NEW a \in Node, NEW q \in Node, NEW j \in Lines PROVE Carries(wire'[a][q][j], found)
  <2> DEFINE old == wire[a][q][j]
  <2>1. wire'[a][q][j] = old \/ (old # None /\ wire'[a][q][j] = Dropped(old))
    BY <1>1, WireShape
  <2>2. old # None => old \in Line
    BY WireShape
  <2>3. Carries(old, found)
    BY DEF Submitted
  <2>4. old \in Line => Carries(Dropped(old), found)
    BY <2>3, CarriesOperators
  <2> HIDE DEF old
  <2> QED
    BY <2>1, <2>2, <2>3, <2>4
<1> QED
  BY <1>2 DEF Submitted

LEMMA SubscribesCarries ==
  ASSUME Types, Submitted, NEW n \in Node, NEW p \in Node, SubscribeToNode(n, p)
  PROVE  Submitted'
<1>1. UNCHANGED found
  BY DEF SubscribeToNode
<1>2. CASE Speaks(n, p)
  <2> DEFINE i    == nodes[n][p].line
             line == wire[n][p][i]
             new  == [line EXCEPT !.msgs = Append(line.msgs, "subscribe")]
  <2>1. i \in Lines /\ line \in Line /\ line # None
    <3>1. nodes[n][p] \in Entry
      BY <1>2, WireShape DEF Speaks, Knows, Entries
    <3>2. i \in Lines /\ Reads(n, p, i)
      BY <1>2, <3>1 DEF Speaks, Entry
    <3> QED
      BY <3>2, ReadLine, TcpAssumption
  <2>2. line.msgs \in Seq(found \cup {"subscribe", "ack"})
    BY <2>1 DEF Submitted, Carries
  <2>3. Append(line.msgs, "subscribe") \in Seq(found \cup {"subscribe", "ack"})
    BY <2>2
  <2>4. wire' = [wire EXCEPT ![n][p][i] = new]
    BY <1>2 DEF SubscribeToNode
  <2>5. Carries(new, found)
    BY <2>1, <2>3, CarriesOperators
  <2> HIDE DEF new, i
  <2> QED
    BY <1>1, <2>1, <2>4, <2>5, LineCarries
<1>3. CASE ~Speaks(n, p)
  BY <1>1, <1>3 DEF SubscribeToNode, Submitted
<1> QED
  BY <1>2, <1>3

LEMMA HandleSubscribeCarries ==
  ASSUME Types, Submitted, NEW p \in Node, NEW n \in Node, NEW i \in Lines, HandleSubscribe(p, n, i)
  PROVE  Submitted'
<1>1. /\ HasNext(p, n, i) /\ Reads(p, n, i) /\ p # n /\ UNCHANGED found
  BY ReadLine DEF HandleSubscribe, HasNext
<1>2. CASE ~Up(p)
  BY <1>1, <1>2, ReturnsCarries DEF HandleSubscribe
<1>3. CASE Up(p)
  <2> DEFINE line == wire[p][n][i]
             rest == [line EXCEPT !.msgs = Tail(line.msgs)]
             less == [j \in Lines |->
                        IF Knows(n, p) /\ j = nodes[n][p].line
                        THEN Dropped(wire[n][p][j]) ELSE wire[n][p][j]]
             ack  == Opened(<<"ack">>)
  <2>1. PICK k : wire' = [[[wire EXCEPT ![p][n][i] = rest] EXCEPT ![n][p] = less]
                            EXCEPT ![n][p][k] = ack]
    <3> DEFINE read == [wire EXCEPT ![p][n][i].msgs = Tail(@)]
               old  == [wire EXCEPT ![p][n][i].msgs = Tail(@), ![n][p] = [j \in Lines |->
                          IF Knows(n, p) /\ j = nodes[n][p].line THEN Dropped(@[j]) ELSE @[j]]]
    <3>1. wire' = [old EXCEPT ![n][p][Unused(old, n, p)] = ack]
      BY <1>3 DEF HandleSubscribe
    <3>2. read = [wire EXCEPT ![p][n][i] = rest] /\ read[n] = wire[n]
      BY <1>1, WireShape
    <3>3. old = [read EXCEPT ![n][p] = less]
      BY <3>2
    <3> HIDE DEF less
    <3> QED
      BY <3>1, <3>2, <3>3
  <2> HIDE DEF rest, less, ack
  <2>2. \A a, q \in Node : \A j \in Lines :
          wire'[a][q][j] \in {rest, ack, wire[a][q][j]} \/ (a = n /\ q = p /\ wire'[a][q][j] = less[j])
    <3> DEFINE read == [wire EXCEPT ![p][n][i] = rest]
               old  == [read EXCEPT ![n][p] = less]
    <3>1. /\ read = [a \in Node |-> [q \in Node |-> read[a][q]]]
          /\ \A a, q \in Node : \A j \in Lines : read[a][q][j] \in {rest, wire[a][q][j]}
      BY WireShape DEF Rows
    <3>2. wire' = [old EXCEPT ![n][p][k] = ack]
      BY <2>1
    <3> HIDE DEF read
    <3> DEFINE row == [read[n] EXCEPT ![p] = less]
    <3>3. row = [q \in Node |-> IF q = p THEN less ELSE read[n][q]]
      BY <3>1
    <3>4. old = [a \in Node |-> IF a = n THEN row ELSE read[a]]
      BY <3>1
    <3> HIDE DEF row
    <3>5. \A a \in Node : old[a] = [q \in Node |-> old[a][q]]
      BY <3>1, <3>3, <3>4
    <3>6. /\ old = [a \in Node |-> [q \in Node |-> old[a][q]]]
          /\ old[n][p] = less
          /\ \A a, q \in Node : ~(a = n /\ q = p) => old[a][q] = read[a][q]
      BY <3>3, <3>4, <3>5
    <3> HIDE DEF old
    <3>7. less = [j \in Lines |-> less[j]]
      BY DEF less
    <3>8. \A a, q \in Node : \A j \in Lines : wire'[a][q][j] \in {ack, old[a][q][j]}
      BY <3>2, <3>6, <3>7
    <3>9. ASSUME NEW a \in Node, NEW q \in Node, NEW j \in Lines
          PROVE  \/ wire'[a][q][j] \in {rest, ack, wire[a][q][j]}
                 \/ a = n /\ q = p /\ wire'[a][q][j] = less[j]
      <4>1. CASE a = n /\ q = p
        BY <3>6, <3>8, <4>1
      <4>2. CASE ~(a = n /\ q = p)
        <5>1. old[a][q] = read[a][q]
          BY <3>6, <4>2
        <5>2. read[a][q][j] = rest \/ read[a][q][j] = wire[a][q][j]
          BY <3>1
        <5>3. wire'[a][q][j] = ack \/ wire'[a][q][j] = old[a][q][j]
          BY <3>8
        <5> QED
          BY <5>1, <5>2, <5>3
      <4> QED
        BY <4>1, <4>2
    <3> QED
      BY <3>9
  <2>3. Carries(rest, found)
    BY <1>1, TakesCarries DEF rest
  <2>4. Carries(ack, found)
    <3>1. <<"ack">> \in Seq(found \cup {"subscribe", "ack"})
      OBVIOUS
    <3> QED
      BY <3>1, OpenedCarries DEF ack
  <2>5. ASSUME NEW j \in Lines PROVE Carries(less[j], found)
    <3>1. Carries(wire[n][p][j], found)
      BY DEF Submitted
    <3>2. CASE Knows(n, p) /\ j = nodes[n][p].line
      <4>1. wire[n][p][j] \in Line
        BY <3>2, WireShape DEF Held, Knows
      <4>2. less[j] = Dropped(wire[n][p][j])
        BY <3>2 DEF less
      <4>3. Carries(Dropped(wire[n][p][j]), found)
        BY <3>1, <4>1, CarriesOperators
      <4> QED
        BY <4>2, <4>3
    <3>3. CASE ~(Knows(n, p) /\ j = nodes[n][p].line)
      BY <3>1, <3>3 DEF less
    <3> QED
      BY <3>2, <3>3
  <2>6. ASSUME NEW a \in Node, NEW q \in Node, NEW j \in Lines PROVE Carries(wire'[a][q][j], found)
    BY <2>2, <2>3, <2>4, <2>5 DEF Submitted
  <2> QED
    BY <1>1, <2>6 DEF Submitted
<1> QED
  BY <1>2, <1>3

LEMMA CrashCarries ==
  ASSUME Types, Submitted, NEW n \in Node, Crash(n)
  PROVE  Submitted'
<1> DEFINE Msgs == Seq(found \cup {"subscribe", "ack"})
           some(line, k) == [line EXCEPT !.msgs = SubSeq(line.msgs, 1, Min({k, Len(line.msgs)}))]
<1>1. PICK keep \in [Node -> 0..Cardinality(Items)] :
        wire' = [p \in Node |-> [q \in Node |-> [i \in Lines |->
          IF wire[p][q][i] = None THEN None
          ELSE IF p = n THEN Dropped(some(wire[p][q][i], keep[q]))
          ELSE IF q = n THEN Returned(wire[p][q][i]) ELSE wire[p][q][i]]]]
  BY DEF Crash
<1>2. ASSUME NEW p \in Node, NEW q \in Node, NEW i \in Lines
      PROVE  Carries(wire'[p][q][i], found)
  <2> DEFINE old  == wire[p][q][i]
             part == some(old, keep[q])
  <2>1. wire'[p][q][i] = IF old = None THEN None ELSE IF p = n THEN Dropped(part)
                         ELSE IF q = n THEN Returned(old) ELSE old
    BY <1>1
  <2>2. CASE old = None
    BY <2>1, <2>2 DEF Carries
  <2>3. ASSUME old # None PROVE Carries(Dropped(part), found)
    <3> DEFINE k == Min({keep[q], Len(old.msgs)})
    <3>1. old \in Line /\ old.msgs \in Msgs /\ keep[q] \in Nat
      BY <2>3, WireShape DEF Submitted, Carries
    <3>2. Len(old.msgs) \in Nat
      BY <3>1
    <3>3. k \in Nat /\ k <= Len(old.msgs)
      <4>1. \E x \in {keep[q], Len(old.msgs)} : \A y \in {keep[q], Len(old.msgs)} : x <= y
        BY <3>1, <3>2
      <4>2. k \in {keep[q], Len(old.msgs)} /\ \A y \in {keep[q], Len(old.msgs)} : k <= y
        BY <4>1 DEF Min
      <4> QED
        BY <3>1, <3>2, <4>2
    <3> HIDE DEF k
    <3>4. SubSeq(old.msgs, 1, k) \in Msgs
      BY <3>1, <3>3
    <3>5. part = [old EXCEPT !.msgs = SubSeq(old.msgs, 1, k)]
      BY DEF k
    <3>6. SubSeq(old.msgs, 1, k) \in Seq(Items \cup {"subscribe", "ack"})
      <4>1. old.msgs \in Seq(Items \cup {"subscribe", "ack"})
        BY <3>1 DEF Line
      <4> QED
        BY <3>3, <4>1
    <3>7. [old EXCEPT !.msgs = SubSeq(old.msgs, 1, k)] \in Line
      BY <3>1, <3>6 DEF Line
    <3>8. Carries([old EXCEPT !.msgs = SubSeq(old.msgs, 1, k)], found)
      BY <3>1, <3>4, CarriesOperators
    <3> HIDE DEF part, old
    <3> QED
      BY <3>5, <3>7, <3>8, CarriesOperators
  <2>4. CASE old # None /\ p = n
    BY <2>1, <2>3, <2>4
  <2>5. CASE old # None /\ p # n /\ q = n
    <3>1. old \in Line
      BY <2>5, WireShape
    <3>2. Carries(Returned(old), found)
      BY <3>1, CarriesOperators
    <3> QED
      BY <2>1, <2>5, <3>2
  <2>6. CASE old # None /\ p # n /\ q # n
    BY <2>1, <2>6 DEF Submitted
  <2> QED
    BY <2>2, <2>4, <2>5, <2>6
<1> QED
  BY <1>2 DEF Submitted, Crash

LEMMA HandlesCarries ==
  ASSUME Types, Submitted, NEW p \in Node, NEW n \in Node, NEW i \in Lines, Handles(p, n, i)
  PROVE  Submitted'
<1>1. UNCHANGED found
  BY DEF Handles, HandleSubscribe, HandleSubscribeAck, HandleItem, HandleEnd
<1>2. ASSUME HasNext(p, n, i), wire' = [wire EXCEPT ![p][n][i].msgs = Tail(@)]
      PROVE  Submitted'
  <2> DEFINE new == [wire[p][n][i] EXCEPT !.msgs = Tail(@)]
  <2>1. wire' = [wire EXCEPT ![p][n][i] = new]
    BY <1>2
  <2>2. Carries(new, found)
    BY <1>2, TakesCarries
  <2> HIDE DEF new
  <2> QED
    BY <1>1, <2>1, <2>2, LineCarries
<1>3. CASE HandleSubscribeAck(p, n, i)
  BY <1>2, <1>3 DEF HandleSubscribeAck
<1>4. CASE HandleItem(p, n, i)
  <2> DEFINE item == Next1(p, n, i)
  <2>1. HasNext(p, n, i) /\ item \in found' /\ p # n /\ Reads(p, n, i)
    BY <1>1, <1>4, TakesCarries, ReadLine, TcpAssumption DEF HandleItem, HasNext, Next1
  <2>2. CASE Takes(p, n, i)
    BY <1>2, <2>1, <2>2 DEF Takes
  <2>3. CASE Returns(p, n, i)
    BY <1>1, <2>1, <2>3, ReturnsCarries
  <2>4. CASE Broadcasts(n, item, p, i)
    BY <1>1, <2>1, <2>4, BroadcastsCarries
  <2> QED
    BY <1>4, <2>2, <2>3, <2>4 DEF HandleItem
<1>5. CASE HandleEnd(p, n, i)
  BY <1>1, <1>5, ReturnsCarries DEF HandleEnd
<1> QED
  BY <1>3, <1>4, <1>5, HandleSubscribeCarries DEF Handles

LEMMA SubmittedStep ==
  ASSUME Types, Submitted, TcpNext
  PROVE  Submitted'
<1>1. ASSUME UNCHANGED <<found, wire>> PROVE Submitted'
  BY <1>1 DEF Submitted
<1>2. ASSUME NEW n \in Node, Synchronizes(n) PROVE Submitted'
  BY <1>1, <1>2, ClosesCarries DEF Synchronizes, FetchBlock, Listens, AskDifference
<1>3. ASSUME NEW n \in Node, NEW item, SubmitTemplate(n, item) \/ SubmitTransaction(n, item)
      PROVE  Submitted'
  <2>1. item \in found' /\ found \subseteq found' /\ Broadcasts(n, item, None, 0)
    BY <1>3 DEF SubmitTemplate, SubmitTransaction
  <2> QED
    BY <2>1, BroadcastsCarries
<1> QED
  BY <1>2, <1>3, PopulateCarries, SubscribesCarries, CrashCarries, HandlesCarries
  DEF TcpNext, Joins

-----------------------------------------------------------------------------
(* Chains *)

Grows   == \E n \in Node : \E b \in Mined' : Extends(n, b) /\ Adds(n, b)
Shrinks == UNCHANGED found /\ \E n \in Node : LeavesSaved(n)

(* A step changes the chain of one node at most: by a block that has been  *)
(* submitted and extends it, or back to what is saved.                     *)
LEMMA ChainStep ==
  ASSUME Types, Submitted, SyncOK, Replicated, TcpNext
  PROVE  found \subseteq found' /\ (Grows \/ Shrinks \/ chain' = chain)
<1> USE DEF chainVars
<1>1. ASSUME NEW n \in Node,
             Populate(n) \/ Listens(n) \/ Joins(n) \/ \E p \in Node : AskDifference(n, p)
      PROVE  UNCHANGED <<found, chain>>
  BY <1>1 DEF Populate, Listens, Joins, SubscribeToNode, AskDifference
<1>2. ASSUME NEW n \in Node, FetchBlock(n)
      PROVE  UNCHANGED found /\ (Grows \/ chain' = chain)
  <2> DEFINE p == sync[n].best
             i == Len(chain[n]) + 1
  <2>1. p \in Node /\ UNCHANGED found
    BY <1>2 DEF FetchBlock, SyncOK, Round
  <2>2. CASE Speaks(n, p) /\ i <= Len(chain[p]) /\ Extends(n, chain[p][i])
    <3>1. Adds(n, chain[p][i])
      BY <1>2, <2>2 DEF FetchBlock
    <3>2. chain[n] \in Seq(Mined) /\ chain[p] \in Seq(Mined) /\ Mined' = Mined
      BY <2>1 DEF Replicated, Mined
    <3>3. chain[p][i] \in Mined'
      BY <2>2, <3>2
    <3> QED
      BY <2>1, <2>2, <3>1, <3>3 DEF Grows
  <2>3. CASE ~(Speaks(n, p) /\ i <= Len(chain[p]) /\ Extends(n, chain[p][i]))
    BY <1>2, <2>1, <2>3 DEF FetchBlock
  <2> QED
    BY <2>2, <2>3
<1>3. ASSUME NEW n \in Node, Crash(n) PROVE Shrinks
  BY <1>3 DEF Crash, Shrinks
<1>4. ASSUME NEW n \in Node, NEW b \in Blocks, SubmitTemplate(n, b)
      PROVE  found \subseteq found' /\ Grows
  BY <1>4 DEF SubmitTemplate, Grows, Mined
<1>5. ASSUME NEW n \in Node, NEW tx \in Txs, SubmitTransaction(n, tx)
      PROVE  found \subseteq found' /\ chain' = chain
  BY <1>5 DEF SubmitTransaction, Queues
<1>6. ASSUME NEW n \in Node, NEW p \in Node, NEW i \in Lines, Handles(p, n, i)
      PROVE  UNCHANGED found /\ (Grows \/ chain' = chain)
  <2>1. CASE HandleSubscribe(p, n, i) \/ HandleSubscribeAck(p, n, i) \/ HandleEnd(p, n, i)
    BY <2>1 DEF HandleSubscribe, HandleSubscribeAck, HandleEnd
  <2>2. CASE HandleItem(p, n, i)
    <3> DEFINE item == Next1(p, n, i)
    <3>1. UNCHANGED found /\ item \in found
      BY <2>2, TakesCarries, TcpAssumption DEF HandleItem, Next1
    <3>2. CASE item \in Blocks /\ Adds(n, item) /\ ~Ignored(n, item)
      BY <3>1, <3>2 DEF Ignored, Grows, Mined
    <3>3. CASE Queues(n, item) \/ UNCHANGED chain
      BY <3>1, <3>3 DEF Queues
    <3> QED
      BY <2>2, <3>2, <3>3 DEF HandleItem
  <2> QED
    BY <1>6, <2>1, <2>2 DEF Handles
<1> QED
  BY <1>1, <1>2, <1>3, <1>4, <1>5, <1>6 DEF TcpNext, Synchronizes, Shrinks

-----------------------------------------------------------------------------
TcpInv == Types /\ SyncOK /\ Counted /\ Submitted /\ Replicated

LEMMA InitTcpInv ==
  ASSUME TcpInit
  PROVE  TcpInv
<1>1. wire \in [Node -> Rows] /\ nodes \in [Node -> Entries]
  BY DEF TcpInit, Rows, Entries
<1>2. \A n \in Node : RowOK(wire[n], nodes[n], n, status)
  BY <1>1 DEF TcpInit, RowOK, Held, Placed
<1>3. Types
  BY <1>1, <1>2 DEF TcpInit, Types, Sound
<1>4. SyncOK
  BY DEF TcpInit, SyncOK, Round, Idle
<1>5. Counted /\ Submitted
  BY TcpAssumption DEF TcpInit, Counted, Submitted, Carries
<1>6. Replicated
  BY DEF TcpInit, Replicated, Linked
<1> QED
  BY <1>3, <1>4, <1>5, <1>6 DEF TcpInv

LEMMA NextTcpInv ==
  ASSUME TcpInv, [TcpNext]_tcpVars
  PROVE  TcpInv'
<1>1. CASE TcpNext
  <2>1. Replicated'
    BY <1>1, ChainStep, AddsReplicated, LeavesSavedReplicated, FoundReplicated
       DEF TcpInv, Grows, Shrinks
  <2> QED
    BY <1>1, <2>1, ConnectionsStep, SyncStep, CountedStep, SubmittedStep DEF TcpInv
<1>2. CASE UNCHANGED tcpVars
  <2>1. UNCHANGED <<status, chain, pool, nodes, wire, sync, found, spread, faults>>
    BY <1>2 DEF tcpVars, chainVars
  <2> QED
    BY <2>1, FoundReplicated DEF TcpInv, Types, SyncOK, Counted, Submitted
<1> QED
  BY <1>1, <1>2

(* Types, and that replacing and removing entries of peers.nodes leaks no  *)
(* connection: the open connections of a node are those of its entries     *)
(* (Peers::add, broadcast).                                                *)
THEOREM NoLeakedConnection == TcpSpec => []TcpTypeOK
<1>1. TcpInv => TcpTypeOK
  <2> SUFFICES ASSUME TcpInv PROVE TcpTypeOK
    OBVIOUS
  <2>1. /\ wire \in [Node -> Rows] /\ nodes \in [Node -> Entries]
        /\ status \in [Node -> {"down", "starting", "up"}]
        /\ \A n \in Node : RowOK(wire[n], nodes[n], n, status)
    BY DEF TcpInv, Types, Sound
  <2>2. ASSUME NEW n \in Node, NEW p \in Node, NEW i \in Lines
        PROVE  LET line == wire[n][p][i]
               IN  /\ (line # None /\ line.open) <=> (Knows(n, p) /\ nodes[n][p].line = i)
                   /\ line # None => n # p /\ (line.read => Up(p))
    BY <2>1 DEF RowOK, Held, Placed, Knows, Up
  <2>3. \A n \in Node : status[n] = "down" => Known(n) = {}
    BY <2>1 DEF RowOK, Known, Knows
  <2>4. chain \in [Node -> Seq(Blocks)]
    <3>1. Mined \subseteq Blocks /\ chain \in [Node -> Seq(Mined)]
      BY DEF TcpInv, Replicated, Mined
    <3> QED
      BY <3>1
  <2> QED
    BY <2>1, <2>2, <2>3, <2>4 DEF TcpTypeOK, TcpInv, Counted, Rows, Entries
<1> QED
  BY <1>1, InitTcpInv, NextTcpInv, PTL DEF TcpSpec

(* In every network of TCP nodes, with any clients, connections, crashes   *)
(* and saved chains: nodes disagree only where two clients have submitted  *)
(* different blocks on the same predecessor (add_block).                   *)
THEOREM Agreement == TcpSpec => []OnlyMinersFork
<1>1. TcpInv => OnlyMinersFork
  BY ForksAreMined DEF TcpInv
<1> QED
  BY <1>1, InitTcpInv, NextTcpInv, PTL DEF TcpSpec
=============================================================================
