--------------------------- MODULE StreamsProofs ----------------------------
(***************************************************************************)
(* The invariant StreamsTypeOK of Streams, which is inductive.             *)
(***************************************************************************)
EXTENDS Streams, FiniteSetTheorems, TLAPS

(* The parts of the invariant: types,                                      *)
Typed ==
  /\ known \in [Node -> SUBSET Items] /\ asked \in [Node -> SUBSET Items]
  /\ submitting \in [Node -> Handler \cup {None}]
  /\ listener \in [Node -> [Node -> Listening \cup {None}]]
  /\ subscribers \in [Node -> SUBSET Node] /\ failed \in [Node -> SUBSET Node]
  /\ channel \in [Node -> [Node -> Seq(Items)]] /\ stream \in [Node -> [Node -> Seq(Items)]]
  /\ forward \in [Node -> [Node -> Items \cup {None}]]
  /\ at \in [Node -> [Node -> Node \cup {None}]] /\ faults \in 0..MaxFaults

(* what handlers and listeners have in hand,                               *)
Handed ==
  /\ \A n \in Node : submitting[n] # None => submitting[n].item \in asked[n] \cap known[n]
  /\ \A n, p \in Node : Listens(p, n) =>
       /\ listener[p][n].at = "lock" => listener[p][n].item \in known[n]
       /\ listener[p][n].at = "send" => listener[p][n].item \in known[p]

(* what is on its way,                                                     *)
Carried ==
  \A n, p \in Node :
    /\ Len(channel[n][p]) <= 1 /\ Len(stream[n][p]) <= Window
    /\ Range(channel[n][p]) \subseteq known[n] /\ Range(stream[n][p]) \subseteq known[n]
    /\ forward[n][p] \in known[n] \cup {None}

(* and where the broadcasts are.                                           *)
Placed ==
  \A n, p \in Node : at[n][p] # None => at[n][p] \in subscribers[n] /\ Sending(n, p)

StreamsInv == Typed /\ Handed /\ Carried /\ Placed

LEMMA StreamsInvTypes == StreamsInv => StreamsTypeOK
BY DEF StreamsInv, StreamsTypeOK, Typed, Handed, Carried, Placed

(* None is neither a node nor one of the records it stands in for.         *)
LEMMA NoneIsNone ==
  /\ None \notin Node
  /\ \A h \in Handler : h # None
  /\ \A l \in Listening : l # None
BY StreamsAssumption

(* Sequences of items, by one more or one less.                            *)
LEMMA AppendItem ==
  ASSUME NEW s \in Seq(Items), NEW item \in Items, NEW set, Range(s) \subseteq set, item \in set
  PROVE  /\ Append(s, item) \in Seq(Items) /\ Len(Append(s, item)) = Len(s) + 1
         /\ Range(Append(s, item)) \subseteq set
<1>1. /\ Append(s, item) \in Seq(Items) /\ Len(Append(s, item)) = Len(s) + 1
  OBVIOUS
<1>2. \A i \in 1..Len(s) + 1 : Append(s, item)[i] \in set
  BY DEF Range
<1> QED
  BY <1>1, <1>2 DEF Range

LEMMA TailItems ==
  ASSUME NEW s \in Seq(Items), s # <<>>, NEW set, Range(s) \subseteq set
  PROVE  /\ Head(s) \in Items /\ Head(s) \in set
         /\ Tail(s) \in Seq(Items) /\ Len(Tail(s)) = Len(s) - 1 /\ Len(s) >= 1
         /\ Range(Tail(s)) \subseteq set
<1>1. /\ Head(s) \in Items /\ Tail(s) \in Seq(Items) /\ Len(Tail(s)) = Len(s) - 1 /\ Len(s) \in Nat \ {0}
      /\ Head(s) = s[1]
  OBVIOUS
<1>2. Head(s) \in set
  BY <1>1 DEF Range
<1>3. \A i \in 1..Len(s) - 1 : Tail(s)[i] = s[i + 1] /\ i + 1 \in 1..Len(s)
  BY <1>1
<1>4. \A i \in 1..Len(s) - 1 : Tail(s)[i] \in set
  BY <1>1, <1>3 DEF Range
<1> QED
  BY <1>1, <1>2, <1>4 DEF Range

-----------------------------------------------------------------------------
(* Submissions *)

LEMMA AskKeeps ==
  ASSUME StreamsInv, NEW n \in Node, Ask(n)
  PROVE  StreamsInv'
<1> USE DEF streamVars, StreamsInv
<1> DEFINE new == Cardinality(Submitted) + 1
<1>1. new \in Items
  <2>1. Submitted \subseteq Items /\ Submitted # Items
    BY DEF Typed, Submitted, Ask
  <2>2. IsFiniteSet(Items) /\ Cardinality(Items) = MaxItems
    BY FS_Interval, StreamsAssumption DEF Items
  <2>3. /\ IsFiniteSet(Submitted) /\ Cardinality(Submitted) \in Nat
        /\ Cardinality(Submitted) < Cardinality(Items)
    BY <2>1, <2>2, FS_Subset, FS_CardinalityType
  <2> QED
    BY <2>2, <2>3, StreamsAssumption DEF Items
<1>2. asked' = [asked EXCEPT ![n] = @ \cup {new}]
  BY DEF Ask
<1> HIDE DEF new
<1>3. Typed'
  <2>1. asked' \in [Node -> SUBSET Items]
    BY <1>1, <1>2 DEF Typed
  <2> QED
    BY <2>1 DEF Typed, Ask
<1>4. Handed'
  BY <1>2 DEF Typed, Handed, Ask, Listens
<1>5. Carried' /\ Placed'
  BY DEF Carried, Placed, Sending, Task, Ask
<1> QED
  BY <1>3, <1>4, <1>5

LEMMA TargetsType ==
  ASSUME Typed, NEW n \in Node, NEW source \in Node
  PROVE  Targets(n, source) \subseteq Node
BY DEF Typed, Targets

LEMMA BeginKeeps ==
  ASSUME StreamsInv, NEW n \in Node, NEW item \in Items, Begin(n, item)
  PROVE  StreamsInv'
<1> USE DEF streamVars, StreamsInv
<1> DEFINE new == [item |-> item, left |-> Targets(n, n)]
<1>1. new \in Handler /\ new.item = item /\ new # None
  BY TargetsType, NoneIsNone DEF Handler
<1>2. submitting' = [submitting EXCEPT ![n] = new] /\ submitting[n] = None
  BY DEF Begin, Free
<1> HIDE DEF new
<1>3. known' \in [Node -> SUBSET Items] /\ item \in known'[n] /\ \A p \in Node : known[p] \subseteq known'[p]
  BY DEF Typed, Begin
<1>4. submitting' \in [Node -> Handler \cup {None}]
  BY <1>1, <1>2 DEF Typed
<1>5. Typed'
  BY <1>3, <1>4 DEF Typed, Begin
<1>6. Handed'
  <2>1. asked' = asked /\ listener' = listener
    BY DEF Begin
  <2>2. \A q \in Node : submitting'[q] # None => submitting'[q].item \in asked'[q] \cap known'[q]
    BY <1>1, <1>2, <1>3, <2>1 DEF Typed, Handed, Begin
  <2>3. \A q, p \in Node : Listens(p, q)' <=> Listens(p, q)
    BY <2>1 DEF Listens
  <2> QED
    BY <1>3, <2>1, <2>2, <2>3 DEF Handed
<1>7. Carried'
  BY <1>3 DEF Carried, Begin
<1>8. Placed'
  BY <1>1, <1>2 DEF Typed, Placed, Sending, Task, Begin
<1> QED
  BY <1>5, <1>6, <1>7, <1>8

LEMMA AnswerKeeps ==
  ASSUME StreamsInv, NEW n \in Node, Answer(n)
  PROVE  StreamsInv'
<1> USE DEF streamVars, StreamsInv
<1>1. asked' \in [Node -> SUBSET Items] /\ submitting' \in [Node -> Handler \cup {None}]
  BY DEF Typed, Answer
<1>2. Typed'
  BY <1>1 DEF Typed, Answer
<1>3. Handed'
  BY DEF Typed, Handed, Answer, Listens
<1>4. Carried'
  BY DEF Carried, Answer
<1>5. Placed'
  BY DEF Typed, Placed, Sending, Task, Answer
<1> QED
  BY <1>2, <1>3, <1>4, <1>5

-----------------------------------------------------------------------------
(* Broadcasts *)

LEMMA ReachesKeeps ==
  ASSUME StreamsInv, NEW n \in Node, NEW source \in Node, NEW p \in Node, Reaches(n, source, p)
  PROVE  StreamsInv'
<1> USE DEF streamVars, StreamsInv
<1> DEFINE who == IF p \in subscribers[n] THEN p ELSE None
<1>1. at' = [at EXCEPT ![n][source] = who] /\ (who # None => who \in subscribers[n]) /\ who \in Node \cup {None}
  BY DEF Reaches
<1> HIDE DEF who
<1>2. at' \in [Node -> [Node -> Node \cup {None}]]
  BY <1>1 DEF Typed
<1>5. subscribers' = subscribers /\ Sending(n, source)
  BY DEF Reaches
<1>3. CASE source = n
  <2> DEFINE new == [submitting[n] EXCEPT !.left = @ \ {p}]
  <2>1. submitting[n] \in Handler
    BY <1>3 DEF Typed, Reaches, Sending, Task
  <2>2. new \in Handler /\ new.item = submitting[n].item /\ new # None
    BY <2>1, NoneIsNone DEF Handler
  <2>3. submitting' = [submitting EXCEPT ![n] = new] /\ UNCHANGED listener
    BY <1>3 DEF Reaches, Typed
  <2>4. submitting[n] # None
    BY <2>1, NoneIsNone
  <2> HIDE DEF new
  <2>5. submitting' \in [Node -> Handler \cup {None}]
    BY <2>2, <2>3 DEF Typed
  <2>6. Typed'
    BY <1>2, <2>3, <2>5 DEF Typed, Reaches
  <2>7. Handed'
    BY <2>2, <2>3, <2>4 DEF Typed, Handed, Reaches, Listens
  <2>8. Carried'
    BY DEF Carried, Reaches
  <2>9. \A a, b \in Node : Sending(a, b) => Sending(a, b)'
    BY <2>2, <2>3 DEF Typed, Sending, Task
  <2>10. Placed'
    BY <1>1, <1>5, <2>9 DEF Typed, Placed
  <2> QED
    BY <2>6, <2>7, <2>8, <2>10
<1>4. CASE source # n
  <2> DEFINE new == [listener[n][source] EXCEPT !.left = @ \ {p}]
  <2>1. listener[n][source] \in Listening /\ listener[n][source].at = "send"
    BY <1>4 DEF Typed, Reaches, Sending, Task
  <2>2. /\ new \in Listening /\ new.item = listener[n][source].item
        /\ new.at = "send" /\ new # None
    BY <2>1, NoneIsNone DEF Listening
  <2>3. listener' = [listener EXCEPT ![n][source] = new] /\ UNCHANGED submitting
    BY <1>4 DEF Reaches, Typed
  <2>4. listener[n][source] # None
    BY <2>1, NoneIsNone
  <2> HIDE DEF new
  <2>5. listener' \in [Node -> [Node -> Listening \cup {None}]]
    BY <2>2, <2>3 DEF Typed
  <2>6. Typed'
    BY <1>2, <2>3, <2>5 DEF Typed, Reaches
  <2>7. Handed'
    BY <2>1, <2>2, <2>3, <2>4 DEF Typed, Handed, Reaches, Listens
  <2>8. Carried'
    BY DEF Carried, Reaches
  <2>9. \A a, b \in Node : Sending(a, b) => Sending(a, b)'
    BY <1>4, <2>2, <2>3 DEF Typed, Sending, Task
  <2>10. Placed'
    BY <1>1, <1>5, <2>9 DEF Typed, Placed
  <2> QED
    BY <2>6, <2>7, <2>8, <2>10
<1> QED
  BY <1>3, <1>4

LEMMA SendsKeeps ==
  ASSUME StreamsInv, NEW n \in Node, NEW source \in Node, Sends(n, source)
  PROVE  StreamsInv'
<1> USE DEF streamVars, StreamsInv
<1> DEFINE p == at[n][source]
           item == Task(n, source).item
           new == Append(channel[n][p], item)
<1>1. p \in Node /\ Sending(n, source) /\ channel[n][p] = <<>>
  BY DEF Typed, Placed, Sends, HasRoom
<1>2. item \in known[n] /\ item \in Items
  BY <1>1 DEF Typed, Handed, Sending, Task, Listens
<1>3. new \in Seq(Items) /\ Len(new) = 1 /\ Range(new) \subseteq known[n]
  <2>1. <<>> \in Seq(Items) /\ Len(<<>>) = 0 /\ Range(<<>>) \subseteq known[n]
    BY DEF Range
  <2> HIDE DEF item
  <2>2. /\ Append(<<>>, item) \in Seq(Items) /\ Len(Append(<<>>, item)) = Len(<<>>) + 1
        /\ Range(Append(<<>>, item)) \subseteq known[n]
    BY <1>2, <2>1, AppendItem
  <2> QED
    BY <1>1, <2>1, <2>2
<1>4. channel' = [channel EXCEPT ![n][p] = new] /\ at' = [at EXCEPT ![n][source] = None]
  BY DEF Sends
<1> HIDE DEF new, p, item
<1>5. channel' \in [Node -> [Node -> Seq(Items)]]
  BY <1>1, <1>3, <1>4 DEF Typed
<1>6. at' \in [Node -> [Node -> Node \cup {None}]]
  BY <1>4 DEF Typed
<1>7. Typed'
  BY <1>5, <1>6 DEF Typed, Sends
<1>8. Handed'
  BY DEF Handed, Sends, Listens
<1>9. Carried'
  <2>1. known' = known /\ stream' = stream /\ forward' = forward
    BY DEF Sends
  <2>2. channel'[n][p] = new
    BY <1>1, <1>4 DEF Typed
  <2>3. \A a, b \in Node : a # n \/ b # p => channel'[a][b] = channel[a][b]
    BY <1>1, <1>4 DEF Typed
  <2>4. \A a, b \in Node : Len(channel'[a][b]) <= 1 /\ Range(channel'[a][b]) \subseteq known[a]
    <3> TAKE a, b \in Node
    <3>1. CASE a = n /\ b = p
      <4>1. channel'[a][b] = new
        BY <2>2, <3>1
      <4>2. Len(new) <= 1 /\ Range(new) \subseteq known[a]
        BY <1>3, <3>1
      <4> QED
        BY <4>1, <4>2
    <3>2. CASE a # n \/ b # p
      BY <2>3, <3>2 DEF Carried
    <3> QED
      BY <3>1, <3>2
  <2> QED
    BY <2>1, <2>4 DEF Carried
<1>10. Placed'
  <2>1. /\ listener' = listener /\ submitting' = submitting /\ subscribers' = subscribers
        /\ \A a, b \in Node : at'[a][b] # None => at'[a][b] = at[a][b]
    BY <1>4 DEF Typed, Sends
  <2>2. \A a, b \in Node : Sending(a, b)' <=> Sending(a, b)
    BY <2>1 DEF Sending, Task
  <2> QED
    BY <2>1, <2>2 DEF Placed
<1> QED
  BY <1>7, <1>8, <1>9, <1>10

-----------------------------------------------------------------------------
(* The forward task *)

LEMMA ForwardsKeeps ==
  ASSUME StreamsInv, NEW n \in Node, NEW p \in Node, Forwards(n, p)
  PROVE  StreamsInv'
<1> USE DEF taskVars, StreamsInv
<1> DEFINE item == Head(channel[n][p])
           rest == Tail(channel[n][p])
<1>1. channel[n][p] \in Seq(Items) /\ channel[n][p] # <<>> /\ Range(channel[n][p]) \subseteq known[n]
      /\ Len(channel[n][p]) <= 1
  BY DEF Typed, Carried, Forwards
<1>2. /\ item \in Items /\ item \in known[n]
      /\ rest \in Seq(Items) /\ Len(rest) <= 1 /\ Range(rest) \subseteq known[n]
  BY <1>1, TailItems
<1>3. forward' = [forward EXCEPT ![n][p] = item] /\ channel' = [channel EXCEPT ![n][p] = rest]
  BY DEF Forwards
<1> HIDE DEF item, rest
<1>4. forward' \in [Node -> [Node -> Items \cup {None}]]
  BY <1>2, <1>3 DEF Typed
<1>5. channel' \in [Node -> [Node -> Seq(Items)]]
  BY <1>2, <1>3 DEF Typed
<1>6. Typed'
  BY <1>4, <1>5 DEF Typed, Forwards
<1>7. Handed' /\ Placed'
  BY DEF Handed, Placed, Sending, Task, Forwards, Listens
<1>8. Carried'
  <2>1. known' = known /\ stream' = stream
    BY DEF Forwards
  <2>2. /\ channel'[n][p] = rest
        /\ \A a, b \in Node : a # n \/ b # p => channel'[a][b] = channel[a][b]
    BY <1>3 DEF Typed
  <2>3. /\ forward'[n][p] = item
        /\ \A a, b \in Node : a # n \/ b # p => forward'[a][b] = forward[a][b]
    BY <1>3 DEF Typed
  <2> SUFFICES ASSUME NEW a \in Node, NEW b \in Node
               PROVE  /\ Len(channel'[a][b]) <= 1 /\ Range(channel'[a][b]) \subseteq known[a]
                      /\ forward'[a][b] \in known[a] \cup {None}
    BY <2>1 DEF Carried
  <2>4. CASE a = n /\ b = p
    BY <1>2, <2>2, <2>3, <2>4
  <2>5. CASE a # n \/ b # p
    BY <2>2, <2>3, <2>5 DEF Carried
  <2> QED
    BY <2>4, <2>5
<1> QED
  BY <1>6, <1>7, <1>8

LEMMA StreamsOnKeeps ==
  ASSUME StreamsInv, NEW n \in Node, NEW p \in Node, StreamsOn(n, p)
  PROVE  StreamsInv'
<1> USE DEF taskVars, StreamsInv
<1> DEFINE item == forward[n][p]
           more == Append(stream[n][p], item)
<1>1. forward' = [forward EXCEPT ![n][p] = None]
  BY DEF StreamsOn
<1>2. forward' \in [Node -> [Node -> Items \cup {None}]]
  BY <1>1 DEF Typed
<1>3. Handed' /\ Placed'
  BY DEF Handed, Placed, Sending, Task, StreamsOn, Listens
<1>4. \A a, b \in Node : forward'[a][b] \in known[a] \cup {None}
  BY <1>1 DEF Typed, Carried
<1>5. known' = known /\ channel' = channel /\ item # None
  BY DEF StreamsOn
<1>6. CASE /\ Len(stream[n][p]) < Window /\ UNCHANGED failed
           /\ stream' = [stream EXCEPT ![n][p] = more]
  <2>1. /\ stream[n][p] \in Seq(Items) /\ Range(stream[n][p]) \subseteq known[n]
        /\ item \in Items /\ item \in known[n]
    BY <1>5 DEF Typed, Carried
  <2> HIDE DEF item
  <2>2. more \in Seq(Items) /\ Len(more) = Len(stream[n][p]) + 1 /\ Range(more) \subseteq known[n]
    BY <2>1, AppendItem
  <2>3. Len(more) <= Window
    BY <1>6, <2>1, <2>2, StreamsAssumption
  <2> HIDE DEF more
  <2>4. stream' \in [Node -> [Node -> Seq(Items)]]
    BY <1>6, <2>2 DEF Typed
  <2>5. Typed'
    BY <1>2, <1>6, <2>4 DEF Typed, StreamsOn
  <2>6. /\ stream'[n][p] = more
        /\ \A a, b \in Node : a # n \/ b # p => stream'[a][b] = stream[a][b]
    BY <1>6 DEF Typed
  <2>7. \A a, b \in Node : Len(stream'[a][b]) <= Window /\ Range(stream'[a][b]) \subseteq known[a]
    <3> TAKE a, b \in Node
    <3>1. CASE a = n /\ b = p
      BY <2>2, <2>3, <2>6, <3>1
    <3>2. CASE a # n \/ b # p
      BY <2>6, <3>2 DEF Carried
    <3> QED
      BY <3>1, <3>2
  <2>8. Carried'
    BY <1>4, <1>5, <2>7 DEF Carried
  <2> QED
    BY <1>3, <2>5, <2>8
<1>7. CASE failed' = [failed EXCEPT ![n] = @ \cup {p}] /\ UNCHANGED stream
  <2>1. failed' \in [Node -> SUBSET Node]
    BY <1>7 DEF Typed
  <2>2. Typed'
    BY <1>2, <1>7, <2>1 DEF Typed, StreamsOn
  <2>3. Carried'
    BY <1>4, <1>5, <1>7 DEF Carried
  <2> QED
    BY <1>3, <2>2, <2>3
<1> QED
  BY <1>6, <1>7 DEF StreamsOn

(* The subscriber is not removed while a broadcast is at it.               *)
LEMMA RemovesKeeps ==
  ASSUME StreamsInv, NEW n \in Node, NEW p \in Node, Removes(n, p)
  PROVE  StreamsInv'
<1> USE DEF taskVars, StreamsInv
<1>1. subscribers' \in [Node -> SUBSET Node] /\ failed' \in [Node -> SUBSET Node]
  BY DEF Typed, Removes
<1>2. Typed'
  BY <1>1 DEF Typed, Removes
<1>3. Handed' /\ Carried'
  BY DEF Handed, Carried, Removes, Listens
<1>4. \A a, b \in Node : Sending(a, b)' <=> Sending(a, b)
  BY DEF Sending, Task, Removes
<1>5. Placed'
  BY <1>4 DEF Typed, Placed, Removes
<1> QED
  BY <1>2, <1>3, <1>5

-----------------------------------------------------------------------------
(* The listener *)

(* What changes at a listener that has nothing to send, or goes on doing   *)
(* so, moves no broadcast.                                                 *)
LEMMA ListenerMoves ==
  ASSUME StreamsInv, NEW p \in Node, NEW n \in Node, NEW new \in Listening \cup {None},
         listener' = [listener EXCEPT ![p][n] = new], UNCHANGED <<submitting, at, subscribers>>,
         at[p][n] = None
  PROVE  /\ listener' \in [Node -> [Node -> Listening \cup {None}]]
         /\ listener'[p][n] = new
         /\ \A a, b \in Node : a # p \/ b # n => listener'[a][b] = listener[a][b]
         /\ Placed'
<1> USE DEF StreamsInv
<1>1. listener' \in [Node -> [Node -> Listening \cup {None}]]
  BY DEF Typed
<1>2. listener'[p][n] = new
  BY DEF Typed
<1>3. \A a, b \in Node : a # p \/ b # n => listener'[a][b] = listener[a][b]
  BY DEF Typed
<1>4. Placed'
  BY <1>3 DEF Placed, Sending, Task
<1> QED
  BY <1>1, <1>2, <1>3, <1>4

LEMMA TakesKeeps ==
  ASSUME StreamsInv, NEW p \in Node, NEW n \in Node, p # n, Takes(p, n)
  PROVE  StreamsInv'
<1> USE DEF StreamsInv
<1> DEFINE item == Head(stream[n][p])
           rest == Tail(stream[n][p])
           new  == [Waits EXCEPT !.at = "lock", !.item = item]
<1>1. stream[n][p] \in Seq(Items) /\ stream[n][p] # <<>> /\ Range(stream[n][p]) \subseteq known[n]
      /\ Len(stream[n][p]) <= Window
  BY DEF Typed, Carried, Takes
<1>2. /\ item \in Items /\ item \in known[n]
      /\ rest \in Seq(Items) /\ Len(rest) <= Len(stream[n][p]) /\ Range(rest) \subseteq known[n]
  <2>1. /\ item \in Items /\ item \in known[n]
        /\ rest \in Seq(Items) /\ Len(rest) = Len(stream[n][p]) - 1 /\ Range(rest) \subseteq known[n]
    BY <1>1, TailItems
  <2>2. Len(stream[n][p]) \in Nat
    BY <1>1
  <2> HIDE DEF item, rest
  <2>3. Len(rest) <= Len(stream[n][p])
    BY <2>1, <2>2
  <2> QED
    BY <2>1, <2>3
<1>3. listener' = [listener EXCEPT ![p][n] = new] /\ stream' = [stream EXCEPT ![n][p] = rest]
  BY DEF Takes
<1> HIDE DEF item, rest
<1>4. new = [at |-> "lock", item |-> item, left |-> {}]
  <2>1. [Waits EXCEPT !.at = "lock"] = [at |-> "lock", item |-> None, left |-> {}]
    BY DEF Waits
  <2>2. new = [[Waits EXCEPT !.at = "lock"] EXCEPT !.item = item]
    BY DEF Waits
  <2>3. [[at |-> "lock", item |-> None, left |-> {}] EXCEPT !.item = item]
          = [at |-> "lock", item |-> item, left |-> {}]
    OBVIOUS
  <2> QED
    BY <2>1, <2>2, <2>3
<1>5. new \in Listening /\ new.at = "lock" /\ new.item = item
  BY <1>2, <1>4 DEF Listening
<1> HIDE DEF new
<1>6. at[p][n] = None
  BY DEF Placed, Sending, Takes
<1>7. /\ listener' \in [Node -> [Node -> Listening \cup {None}]]
      /\ listener'[p][n] = new
      /\ \A a, b \in Node : a # p \/ b # n => listener'[a][b] = listener[a][b]
      /\ Placed'
  BY <1>3, <1>5, <1>6, ListenerMoves DEF Takes
<1>8. stream' \in [Node -> [Node -> Seq(Items)]]
  BY <1>2, <1>3 DEF Typed
<1>9. Typed'
  BY <1>7, <1>8 DEF Typed, Takes
<1>10. Handed'
  <2>1. known' = known /\ asked' = asked /\ submitting' = submitting
    BY DEF Takes
  <2>2. \A a, b \in Node : Listens(a, b)' =>
          /\ listener'[a][b].at = "lock" => listener'[a][b].item \in known'[b]
          /\ listener'[a][b].at = "send" => listener'[a][b].item \in known'[a]
    <3> TAKE a, b \in Node
    <3>1. CASE a = p /\ b = n
      BY <1>2, <1>5, <1>7, <2>1, <3>1
    <3>2. CASE a # p \/ b # n
      BY <1>7, <2>1, <3>2 DEF Handed, Listens
    <3> QED
      BY <3>1, <3>2
  <2> QED
    BY <2>1, <2>2 DEF Handed
<1>11. Carried'
  <2>1. /\ stream'[n][p] = rest
        /\ \A a, b \in Node : a # n \/ b # p => stream'[a][b] = stream[a][b]
    BY <1>3 DEF Typed
  <2>2. Len(rest) <= Window
    BY <1>1, <1>2, StreamsAssumption
  <2>3. \A a, b \in Node : Len(stream'[a][b]) <= Window /\ Range(stream'[a][b]) \subseteq known[a]
    <3> TAKE a, b \in Node
    <3>1. CASE a = n /\ b = p
      BY <1>2, <2>1, <2>2, <3>1
    <3>2. CASE a # n \/ b # p
      BY <2>1, <3>2 DEF Carried
    <3> QED
      BY <3>1, <3>2
  <2> QED
    BY <2>3 DEF Carried, Takes
<1> QED
  BY <1>7, <1>9, <1>10, <1>11

LEMMA WaitsType == Waits \in Listening /\ Waits.at = "idle"
BY DEF Waits, Listening

LEMMA AcceptsKeeps ==
  ASSUME StreamsInv, NEW p \in Node, NEW n \in Node, p # n, Accepts(p, n)
  PROVE  StreamsInv'
<1> USE DEF streamVars, StreamsInv
<1> DEFINE item == listener[p][n].item
           new  == [at |-> "send", item |-> item, left |-> Targets(p, n)]
<1>1. item \in known[n] /\ item \in Items
  BY DEF Typed, Handed, Accepts
<1>2. at[p][n] = None
  BY DEF Placed, Sending, Accepts
<1>3. CASE listener' = [listener EXCEPT ![p][n] = Waits] /\ UNCHANGED known
  <2>1. /\ listener' \in [Node -> [Node -> Listening \cup {None}]]
        /\ listener'[p][n] = Waits
        /\ \A a, b \in Node : a # p \/ b # n => listener'[a][b] = listener[a][b]
        /\ Placed'
    BY <1>2, <1>3, WaitsType, ListenerMoves DEF Accepts
  <2>2. Typed'
    BY <1>3, <2>1 DEF Typed, Accepts
  <2>3. Handed'
    BY <1>3, <2>1, WaitsType DEF Handed, Listens, Accepts
  <2>4. Carried'
    BY <1>3 DEF Carried, Accepts
  <2> QED
    BY <2>1, <2>2, <2>3, <2>4
<1>4. CASE /\ listener' = [listener EXCEPT ![p][n] = new]
           /\ known' = [known EXCEPT ![p] = @ \cup {item}]
  <2>1. new \in Listening /\ new.at = "send" /\ new.item = item
    BY <1>1, TargetsType DEF Listening
  <2>2. /\ known' \in [Node -> SUBSET Items] /\ item \in known'[p]
        /\ \A a \in Node : known[a] \subseteq known'[a]
    BY <1>1, <1>4 DEF Typed
  <2> HIDE DEF new, item
  <2>3. /\ listener' \in [Node -> [Node -> Listening \cup {None}]]
        /\ listener'[p][n] = new
        /\ \A a, b \in Node : a # p \/ b # n => listener'[a][b] = listener[a][b]
        /\ Placed'
    BY <1>2, <1>4, <2>1, ListenerMoves DEF Accepts
  <2>4. Typed'
    BY <2>2, <2>3 DEF Typed, Accepts
  <2>5. Handed'
    <3>1. submitting' = submitting /\ asked' = asked
      BY DEF Accepts
    <3>2. \A a \in Node : submitting'[a] # None => submitting'[a].item \in asked'[a] \cap known'[a]
      BY <2>2, <3>1 DEF Handed
    <3>3. \A b, a \in Node : Listens(a, b)' =>
            /\ listener'[a][b].at = "lock" => listener'[a][b].item \in known'[b]
            /\ listener'[a][b].at = "send" => listener'[a][b].item \in known'[a]
      BY <2>1, <2>2, <2>3 DEF Handed, Listens
    <3> QED
      BY <3>2, <3>3 DEF Handed
  <2>6. Carried'
    BY <2>2 DEF Carried, Accepts
  <2> QED
    BY <2>3, <2>4, <2>5, <2>6
<1> QED
  BY <1>3, <1>4 DEF Accepts

LEMMA DoneKeeps ==
  ASSUME StreamsInv, NEW p \in Node, NEW n \in Node, Done(p, n)
  PROVE  StreamsInv'
<1> USE DEF streamVars, StreamsInv
<1>1. /\ listener' \in [Node -> [Node -> Listening \cup {None}]]
      /\ listener'[p][n] = Waits
      /\ \A a, b \in Node : a # p \/ b # n => listener'[a][b] = listener[a][b]
      /\ Placed'
  BY WaitsType, ListenerMoves DEF Done
<1>2. Typed'
  BY <1>1 DEF Typed, Done
<1>3. Handed'
  BY <1>1, WaitsType DEF Handed, Listens, Done
<1>4. Carried'
  BY DEF Carried, Done
<1> QED
  BY <1>1, <1>2, <1>3, <1>4

LEMMA LoseConnectionKeeps ==
  ASSUME StreamsInv, NEW p \in Node, NEW n \in Node, p # n, LoseConnection(p, n)
  PROVE  StreamsInv'
<1> USE DEF StreamsInv
<1>1. at[p][n] = None
  BY DEF Placed, Sending, LoseConnection
<1>2. /\ listener' \in [Node -> [Node -> Listening \cup {None}]]
      /\ listener'[p][n] = None
      /\ \A a, b \in Node : a # p \/ b # n => listener'[a][b] = listener[a][b]
      /\ Placed'
  BY <1>1, ListenerMoves DEF LoseConnection
<1>3. stream' \in [Node -> [Node -> Seq(Items)]]
  <2>1. <<>> \in Seq(Items)
    OBVIOUS
  <2> QED
    BY <2>1 DEF Typed, LoseConnection
<1>4. faults' \in 0..MaxFaults
  BY StreamsAssumption DEF Typed, LoseConnection
<1>5. Typed'
  BY <1>2, <1>3, <1>4 DEF Typed, LoseConnection
<1>6. Handed'
  BY <1>2 DEF Handed, Listens, LoseConnection
<1>7. Carried'
  <2>1. Len(<<>>) <= Window /\ \A s : Range(<<>>) \subseteq s
    BY StreamsAssumption DEF Range
  <2>2. \A a, b \in Node : stream'[a][b] = stream[a][b] \/ stream'[a][b] = <<>>
    BY DEF Typed, LoseConnection
  <2>3. \A a, b \in Node : Len(stream'[a][b]) <= Window /\ Range(stream'[a][b]) \subseteq known[a]
    BY <2>1, <2>2 DEF Carried
  <2> QED
    BY <2>3 DEF Carried, LoseConnection
<1> QED
  BY <1>2, <1>5, <1>6, <1>7

-----------------------------------------------------------------------------
(* The invariant *)

LEMMA InitStreamsInv == Init => StreamsInv
<1> SUFFICES ASSUME Init PROVE StreamsInv
  OBVIOUS
<1>1. <<>> \in Seq(Items) /\ Len(<<>>) = 0 /\ \A s : Range(<<>>) \subseteq s
  BY DEF Range
<1>2. Typed
  BY <1>1, WaitsType, StreamsAssumption DEF Init, InitWith, Typed
<1>3. Handed
  BY WaitsType DEF Init, InitWith, Handed, Listens
<1>4. Carried
  <2>1. Len(<<>>) <= 1 /\ Len(<<>>) <= Window
    BY StreamsAssumption
  <2> QED
    BY <1>1, <2>1 DEF Init, InitWith, Carried
<1>5. Placed
  BY DEF Init, InitWith, Placed
<1> QED
  BY <1>2, <1>3, <1>4, <1>5 DEF StreamsInv

LEMMA NextStreamsInv ==
  ASSUME StreamsInv, [Next]_vars
  PROVE  StreamsInv'
<1>1. CASE UNCHANGED vars
  BY <1>1 DEF vars, taskVars, streamVars, StreamsInv, Typed, Handed, Carried, Placed, Listens, Sending, Task
<1>2. CASE Next
  <2>1. PICK n \in Node :
          \/ Ask(n) \/ Submission(n)
          \/ \E source \in Senders(n) : Broadcast(n, source)
          \/ \E p \in Subscribed[n] : Forward(n, p) \/ Listener(p, n) \/ LoseConnection(p, n)
    BY <1>2 DEF Next
  <2>2. CASE Ask(n) \/ Submission(n)
    BY <2>2, AskKeeps, AnswerKeeps, BeginKeeps DEF Submission
  <2>3. ASSUME NEW source \in Senders(n), Broadcast(n, source) PROVE StreamsInv'
    <3>1. source \in Node
      BY DEF Senders
    <3> QED
      BY <2>3, <3>1, SendsKeeps, ReachesKeeps DEF Broadcast
  <2>4. ASSUME NEW p \in Subscribed[n], Forward(n, p) \/ Listener(p, n) \/ LoseConnection(p, n)
        PROVE  StreamsInv'
    <3>1. p \in Node /\ p # n
      BY StreamsAssumption
    <3> QED
      BY <2>4, <3>1, ForwardsKeeps, StreamsOnKeeps, RemovesKeeps, TakesKeeps, AcceptsKeeps, DoneKeeps,
         LoseConnectionKeeps DEF Forward, Listener
  <2> QED
    BY <2>1, <2>2, <2>3, <2>4
<1> QED
  BY <1>1, <1>2

(* For any nodes, subscriptions, clients and bounds: what a channel or a   *)
(* stream holds, or a task has in hand, the node it comes from has taken;  *)
(* channels and streams keep their bounds; what is submitted is broadcast  *)
(* while it waits for its answer; and a subscriber that a broadcast is     *)
(* sending to is not removed.                                              *)
THEOREM StreamsTypes == FairSpec => []StreamsTypeOK
<1>1. Init => StreamsInv
  BY InitStreamsInv
<1>2. StreamsInv /\ [Next]_vars => StreamsInv'
  BY NextStreamsInv
<1>3. StreamsInv => StreamsTypeOK
  BY StreamsInvTypes
<1> QED
  BY <1>1, <1>2, <1>3, PTL DEF FairSpec
=============================================================================
