---------------------------- MODULE MiningProofs ----------------------------
(***************************************************************************)
(* Theorems about Mining: what is mined is submitted once, and what the    *)
(* node hands out it takes.                                                *)
(***************************************************************************)
EXTENDS Mining, BlockchainProofs, SequenceTheorems

-----------------------------------------------------------------------------
(* The parts of the inductive invariant.                                   *)

(* Types,                                                                  *)
Requests ==
  [ask : {"fetch"}] \cup [ask : {"validate"}, template : Templates]
    \cup [ask : {"submit"}, block : OwnBlocks]
Searching == [at : {"idle", "looking", "hashing", "sent"}, template : Templates \cup {None}]

MinerOK ==
  /\ tcp \in Protocols
  /\ loop \in {"select", "fetching", "validating", "submitting", "gone"}
  /\ current_template \in Templates \cup {None}
  /\ mining \in BOOLEAN /\ (mining => current_template # None)
  /\ thread \in Searching
CallsOK ==
  /\ mined \in Seq(OwnBlocks) /\ wire \in Seq(Requests) /\ reply \in Replies \cup {None}
  /\ link \in BOOLEAN /\ (link \/ (tcp /\ wire = <<>>))

(* what is saved is in the chain,                                          *)
SavedOK ==
  /\ blocks \in Seq(Blocks) /\ disk.blocks \in Seq(Blocks)
  /\ Range(disk.blocks) \subseteq Range(blocks)

(* no block is on its way twice or after it was added,                     *)
Distinct ==
  /\ IsInjective(mined) /\ \A i, j \in Submits : wire[i].block = wire[j].block => i = j
  /\ \A i \in Submits : wire[i].block \notin Range(mined)
NotAdded == InFlight \cap Range(blocks) = {}

(* and the thread never starts with a template of which there is a block:  *)
(* as long as the current one is such a template, either the flag has      *)
(* still to be cleared by the thread or it is down, and it goes up with a  *)
(* new template only.                                                      *)
Taken   == {b \in OwnBlocks : b \in InFlight \cup Range(blocks)}
Used(u) == \E b \in Taken : AsTemplate(b) = u
Brings  == IF reply # None /\ reply.answer = "template" THEN reply.value ELSE None
UnusedOK ==
  /\ thread.at = "hashing" => ~Used(thread.template)
  /\ Used(current_template) => thread.at = "sent" \/ (thread.at = "idle" /\ ~mining)
  /\ Brings # None =>
       ~Used(Brings) /\ Brings # current_template /\ Brings # thread.template

MiningInv == MinerOK /\ CallsOK /\ SavedOK /\ Distinct /\ NotAdded /\ UnusedOK

LEMMA MiningInvTypes == MiningInv => MiningTypeOK
<1> SUFFICES ASSUME MiningInv PROVE MiningTypeOK
  OBVIOUS
<1> USE DEF MiningInv
<1>1. Range(mined) \subseteq OwnBlocks
  BY DEF CallsOK, Range
<1>2. \A i \in Submits : wire[i].block \in OwnBlocks
  BY DEF CallsOK, Requests, Submits
<1>3. InFlight \subseteq OwnBlocks
  BY <1>1, <1>2 DEF InFlight
<1> QED
  BY <1>3 DEF MiningTypeOK, MinerOK, CallsOK, Searching

LEMMA MiningInvTwice == MiningInv => NothingSubmittedTwice
BY DEF MiningInv, Distinct, NotAdded, NothingSubmittedTwice

(* None is no template and no answer.                                      *)
LEMMA NoneIsNothing == None \notin Templates /\ None \notin Replies
BY MiningAssumption

LEMMA TcpIsBoolean == MiningInv => tcp \in BOOLEAN
BY MiningAssumption DEF MiningInv, MinerOK

-----------------------------------------------------------------------------
(* Requests and mined blocks *)

LEMMA FlightTypes ==
  ASSUME CallsOK
  PROVE  /\ \A i \in DOMAIN mined : mined[i] \in OwnBlocks
         /\ \A i \in Submits : wire[i].block \in OwnBlocks
         /\ InFlight \subseteq OwnBlocks
<1>1. \A i \in DOMAIN mined : mined[i] \in OwnBlocks
  BY DEF CallsOK
<1>2. \A i \in Submits : wire[i].block \in OwnBlocks
  BY DEF CallsOK, Requests, Submits
<1> QED
  BY <1>1, <1>2 DEF InFlight, Range

(* A request that is no submission is sent.                                *)
LEMMA AsksSomething ==
  ASSUME CallsOK, Distinct, NEW r \in Requests, r.ask # "submit",
         wire' = Append(wire, r), mined' = mined
  PROVE  wire' \in Seq(Requests) /\ InFlight' = InFlight /\ Distinct'
<1>1. /\ wire' \in Seq(Requests) /\ Len(wire') = Len(wire) + 1
      /\ \A i \in 1..Len(wire) : wire'[i] = wire[i]
      /\ wire'[Len(wire) + 1] = r
  BY DEF CallsOK
<1>2. Len(wire) \in Nat /\ DOMAIN wire = 1..Len(wire) /\ DOMAIN wire' = 1..(Len(wire) + 1)
  BY <1>1 DEF CallsOK
<1>3. Submits' = Submits /\ \A i \in Submits : wire'[i] = wire[i]
  BY <1>1, <1>2 DEF Submits
<1>4. InFlight' = InFlight
  BY <1>3 DEF InFlight
<1>5. Distinct'
  <2>1. Range(mined') = Range(mined) /\ (IsInjective(mined') <=> IsInjective(mined))
    OBVIOUS
  <2>2. \A i \in Submits' : i \in Submits /\ wire'[i].block = wire[i].block
    BY <1>3
  <2> QED
    BY <2>1, <2>2 DEF Distinct
<1> QED
  BY <1>1, <1>4, <1>5

(* The first request is taken.                                             *)
LEMMA TakesRequest ==
  ASSUME CallsOK, Distinct, wire # <<>>, wire' = Tail(wire), mined' = mined
  PROVE  /\ wire' \in Seq(Requests) /\ InFlight' \subseteq InFlight /\ Distinct'
         /\ Head(wire) \in Requests
         /\ Head(wire).ask = "submit" =>
              Head(wire).block \in InFlight /\ Head(wire).block \notin InFlight'
<1>1. /\ wire' \in Seq(Requests) /\ Len(wire') = Len(wire) - 1
      /\ \A i \in 1..Len(wire') : wire'[i] = wire[i + 1]
      /\ Len(wire) \in Nat /\ Len(wire) # 0 /\ Head(wire) = wire[1] /\ wire[1] \in Requests
  BY DEF CallsOK
<1>2. DOMAIN wire = 1..Len(wire) /\ DOMAIN wire' = 1..Len(wire')
  BY <1>1 DEF CallsOK
<1>3. \A i \in Submits' : i \in Int /\ i + 1 \in Submits /\ wire'[i] = wire[i + 1] /\ i + 1 # 1
  <2> SUFFICES ASSUME NEW i \in Submits'
               PROVE  i \in Int /\ i + 1 \in Submits /\ wire'[i] = wire[i + 1] /\ i + 1 # 1
    OBVIOUS
  <2>1. i \in DOMAIN wire' /\ wire'[i].ask = "submit"
    BY DEF Submits
  <2>2. i \in 1..Len(wire') /\ wire'[i] = wire[i + 1]
    BY <1>1, <1>2, <2>1
  <2>3. i + 1 \in DOMAIN wire /\ i + 1 # 1
    BY <1>1, <1>2, <2>2
  <2> QED
    BY <2>1, <2>2, <2>3 DEF Submits
<1>4. InFlight' \subseteq InFlight
  <2>1. ASSUME NEW i \in Submits' PROVE wire'[i].block \in InFlight
    <3>1. i + 1 \in Submits /\ wire'[i].block = wire[i + 1].block
      BY <1>3
    <3> QED
      BY <3>1 DEF InFlight
  <2> QED
    BY <2>1 DEF InFlight
<1>5. Distinct'
  <2>1. IsInjective(mined')
    BY DEF Distinct
  <2>2. ASSUME NEW i \in Submits', NEW j \in Submits', wire'[i].block = wire'[j].block
        PROVE  i = j
    <3>1. /\ i + 1 \in Submits /\ j + 1 \in Submits
          /\ wire[i + 1].block = wire[j + 1].block
      BY <1>3, <2>2
    <3>2. i + 1 = j + 1
      BY <3>1 DEF Distinct
    <3> QED
      BY <1>3, <3>2
  <2>3. ASSUME NEW i \in Submits' PROVE wire'[i].block \notin Range(mined')
    <3>1. wire'[i].block = wire[i + 1].block /\ i + 1 \in Submits
      BY <1>3
    <3>2. wire[i + 1].block \notin Range(mined)
      BY <3>1 DEF Distinct
    <3> QED
      BY <3>1, <3>2
  <2> QED
    BY <2>1, <2>2, <2>3 DEF Distinct
<1>6. ASSUME Head(wire).ask = "submit"
      PROVE  Head(wire).block \in InFlight /\ Head(wire).block \notin InFlight'
  <2>1. 1 \in Submits
    BY <1>1, <1>2, <1>6 DEF Submits
  <2>2. ASSUME NEW i \in Submits' PROVE wire'[i].block # wire[1].block
    <3>1. i + 1 \in Submits /\ wire'[i].block = wire[i + 1].block /\ i + 1 # 1
      BY <1>3
    <3>2. wire[i + 1].block = wire[1].block => i + 1 = 1
      BY <2>1, <3>1 DEF Distinct
    <3> QED
      BY <3>1, <3>2
  <2>3. wire[1].block \notin Range(mined')
    BY <2>1 DEF Distinct
  <2> QED
    BY <1>1, <2>1, <2>2, <2>3 DEF InFlight
<1> QED
  BY <1>1, <1>4, <1>5, <1>6

(* All requests are lost, and perhaps what was mined as well.              *)
LEMMA LosesRequests ==
  ASSUME CallsOK, Distinct, wire' = <<>>, mined' \in {mined, <<>>}
  PROVE  wire' \in Seq(Requests) /\ InFlight' \subseteq InFlight /\ Distinct'
<1>1. wire' \in Seq(Requests) /\ DOMAIN wire' = {}
  OBVIOUS
<1>2. Submits' = {}
  BY <1>1 DEF Submits
<1>3. Range(mined') \subseteq Range(mined) /\ IsInjective(mined')
  BY DEF Distinct, Range, IsInjective
<1> QED
  BY <1>1, <1>2, <1>3 DEF InFlight, Distinct

(* A block is mined that is not on its way.                                *)
LEMMA MinesBlock ==
  ASSUME CallsOK, Distinct, NEW b \in OwnBlocks, b \notin InFlight,
         mined' = Append(mined, b), wire' = wire
  PROVE  mined' \in Seq(OwnBlocks) /\ InFlight' = InFlight \cup {b} /\ Distinct'
<1>1. /\ mined' \in Seq(OwnBlocks) /\ Len(mined') = Len(mined) + 1
      /\ \A i \in 1..Len(mined) : mined'[i] = mined[i]
      /\ mined'[Len(mined) + 1] = b
      /\ Len(mined) \in Nat /\ DOMAIN mined = 1..Len(mined) /\ DOMAIN mined' = 1..Len(mined')
  BY DEF CallsOK
<1>2. Range(mined') = Range(mined) \cup {b}
  BY <1>1 DEF Range
<1>3. b \notin Range(mined) /\ \A i \in Submits : wire[i].block # b
  BY DEF InFlight
<1>4. IsInjective(mined')
  <2>1. SUFFICES ASSUME NEW i \in DOMAIN mined', NEW j \in DOMAIN mined', mined'[i] = mined'[j]
                 PROVE  i = j
    BY DEF IsInjective
  <2>2. \A k \in DOMAIN mined : mined[k] # b
    BY <1>3 DEF Range
  <2>3. CASE i \in DOMAIN mined /\ j \in DOMAIN mined
    <3>1. mined[i] = mined[j]
      BY <1>1, <2>1, <2>3
    <3> QED
      BY <2>3, <3>1 DEF Distinct, IsInjective
  <2>4. CASE i \notin DOMAIN mined \/ j \notin DOMAIN mined
    <3>1. \A k \in DOMAIN mined' : k \notin DOMAIN mined => k = Len(mined) + 1
      BY <1>1
    <3> QED
      BY <1>1, <2>1, <2>2, <2>4, <3>1
  <2> QED
    BY <2>3, <2>4
<1>5. Submits' = Submits
  BY DEF Submits
<1>6. InFlight' = InFlight \cup {b}
  BY <1>2, <1>5 DEF InFlight
<1>7. Distinct'
  <2>1. \A i \in Submits' : i \in Submits /\ wire'[i].block = wire[i].block
    BY <1>5
  <2> QED
    BY <1>2, <1>3, <1>4, <2>1 DEF Distinct
<1> QED
  BY <1>1, <1>6, <1>7

(* The loop takes the first of the mined blocks,                           *)
LEMMA ReceivesBlock ==
  ASSUME CallsOK, Distinct, mined # <<>>, mined' = Tail(mined)
  PROVE  /\ mined' \in Seq(OwnBlocks) /\ IsInjective(mined')
         /\ Head(mined) \in OwnBlocks /\ Head(mined) \notin Range(mined')
         /\ Range(mined) = Range(mined') \cup {Head(mined)}
<1>1. /\ mined' \in Seq(OwnBlocks) /\ Len(mined') = Len(mined) - 1
      /\ \A i \in 1..Len(mined') : mined'[i] = mined[i + 1]
      /\ Len(mined) \in Nat /\ Len(mined) # 0 /\ Head(mined) = mined[1] /\ mined[1] \in OwnBlocks
      /\ DOMAIN mined = 1..Len(mined) /\ DOMAIN mined' = 1..Len(mined')
  BY DEF CallsOK
<1>2. \A i, j \in DOMAIN mined : mined[i] = mined[j] => i = j
  BY DEF Distinct, IsInjective
<1>3. IsInjective(mined')
  BY <1>1, <1>2 DEF IsInjective
<1>4. Head(mined) \notin Range(mined')
  BY <1>1, <1>2 DEF Range
<1>5. Range(mined) = Range(mined') \cup {Head(mined)}
  <2>1. \A i \in DOMAIN mined : i = 1 \/ (i - 1 \in DOMAIN mined' /\ mined[i] = mined'[i - 1])
    BY <1>1
  <2>2. \A i \in DOMAIN mined' : i + 1 \in DOMAIN mined /\ mined'[i] = mined[i + 1]
    BY <1>1
  <2>3. 1 \in DOMAIN mined /\ Head(mined) = mined[1]
    BY <1>1
  <2>4. Range(mined) \subseteq Range(mined') \cup {Head(mined)}
    BY <2>1, <2>3 DEF Range
  <2>5. Range(mined') \cup {Head(mined)} \subseteq Range(mined)
    BY <2>2, <2>3 DEF Range
  <2> QED
    BY <2>4, <2>5
<1> QED
  BY <1>1, <1>3, <1>4, <1>5

(* and sends it or loses it.                                               *)
LEMMA SubmitsBlock ==
  ASSUME CallsOK, Distinct, mined # <<>>, mined' = Tail(mined),
         wire' = Append(wire, AskSubmit(Head(mined)))
  PROVE  wire' \in Seq(Requests) /\ InFlight' = InFlight /\ Distinct'
<1> DEFINE b == Head(mined)
           r == AskSubmit(b)
<1>1. /\ IsInjective(mined') /\ b \in OwnBlocks /\ b \notin Range(mined')
      /\ Range(mined) = Range(mined') \cup {b}
  BY ReceivesBlock
<1> HIDE DEF b
<1>2. r \in Requests /\ r.ask = "submit" /\ r.block = b
  BY <1>1 DEF Requests, AskSubmit
<1> HIDE DEF r
<1>3. /\ wire' \in Seq(Requests) /\ Len(wire') = Len(wire) + 1
      /\ \A i \in 1..Len(wire) : wire'[i] = wire[i]
      /\ wire'[Len(wire) + 1] = r
      /\ Len(wire) \in Nat /\ DOMAIN wire = 1..Len(wire) /\ DOMAIN wire' = 1..Len(wire')
  BY <1>2 DEF CallsOK, b, r
<1> DEFINE last == Len(wire) + 1
<1>4. Submits' = Submits \cup {last} /\ last \notin Submits
  BY <1>2, <1>3 DEF Submits
<1>5. wire'[last].block = b /\ \A i \in Submits : wire'[i].block = wire[i].block
  BY <1>2, <1>3 DEF Submits
<1> HIDE DEF last
<1>6. \A i \in Submits : wire[i].block # b /\ wire[i].block \notin Range(mined')
  BY <1>1 DEF Distinct
<1>7. InFlight' = InFlight
  BY <1>1, <1>4, <1>5 DEF InFlight
<1>8. Distinct'
  <2>1. ASSUME NEW i \in Submits', NEW j \in Submits', wire'[i].block = wire'[j].block
        PROVE  i = j
    <3>1. CASE i \in Submits /\ j \in Submits
      <4>1. wire[i].block = wire[j].block
        BY <1>5, <2>1, <3>1
      <4> QED
        BY <3>1, <4>1 DEF Distinct
    <3>2. CASE i = last \/ j = last
      BY <1>4, <1>5, <1>6, <2>1, <3>2
    <3> QED
      BY <1>4, <3>1, <3>2
  <2>2. \A i \in Submits' : wire'[i].block \notin Range(mined')
    BY <1>1, <1>4, <1>5, <1>6
  <2> QED
    BY <1>1, <2>1, <2>2 DEF Distinct
<1> QED
  BY <1>3, <1>7, <1>8

LEMMA DropsBlock ==
  ASSUME CallsOK, Distinct, mined # <<>>, mined' = Tail(mined), wire' = wire
  PROVE  InFlight' \subseteq InFlight /\ Distinct'
<1>1. IsInjective(mined') /\ Range(mined') \subseteq Range(mined)
  BY ReceivesBlock
<1>2. Submits' = Submits
  BY DEF Submits
<1>3. InFlight' \subseteq InFlight
  BY <1>1, <1>2 DEF InFlight
<1>4. \A i \in Submits' : i \in Submits /\ wire'[i].block = wire[i].block
  BY <1>2
<1>5. Distinct'
  BY <1>1, <1>4 DEF Distinct
<1> QED
  BY <1>3, <1>5

-----------------------------------------------------------------------------
(* Templates *)

(* What is taken, and with it what is used, only shrinks, and what is up   *)
(* to the thread does not change.                                          *)
LEMMA UnusedStays ==
  ASSUME UnusedOK, Taken' \subseteq Taken, thread' = thread, current_template' = current_template,
         mining' => mining, Brings' \in {Brings, None}
  PROVE  UnusedOK'
<1>1. \A u : Used(u)' => Used(u)
  BY DEF Used
<1>2. Used(thread.template)' => Used(thread.template)
  BY <1>1
<1>3. Used(current_template)' => Used(current_template)
  BY <1>1
<1>4. Brings' # None => ~Used(Brings)'
  BY <1>1 DEF UnusedOK
<1> QED
  BY <1>2, <1>3, <1>4 DEF UnusedOK

(* A step of the node that does not touch the miner.                       *)
LEMMA MinerStays ==
  ASSUME MiningInv, UNCHANGED minerVars, CallsOK', SavedOK', Distinct', NotAdded',
         Taken' \subseteq Taken, Brings' \in {Brings, None}
  PROVE  MiningInv'
<1>1. MinerOK'
  BY DEF MiningInv, MinerOK, minerVars
<1>2. UnusedOK'
  BY UnusedStays DEF MiningInv, minerVars
<1> QED
  BY <1>1, <1>2 DEF MiningInv

(* One by which the chain and what is on its way only shrink.              *)
LEMMA LessIsTaken ==
  ASSUME NotAdded, InFlight' \subseteq InFlight, Range(blocks)' \subseteq Range(blocks)
  PROVE  NotAdded' /\ Taken' \subseteq Taken
<1>1. NotAdded'
  BY DEF NotAdded
<1>2. Taken' \subseteq Taken
  BY DEF Taken
<1> QED
  BY <1>1, <1>2

-----------------------------------------------------------------------------
(* The handlers *)

LEMMA ChainStays ==
  ASSUME SavedOK, UNCHANGED <<blocks, disk>>
  PROVE  SavedOK' /\ Range(blocks)' = Range(blocks)
BY DEF SavedOK

LEMMA RefusesKeeps ==
  ASSUME MiningInv, Refuses, UNCHANGED <<vars, minerVars>>
  PROVE  MiningInv'
<1> USE DEF MiningInv
<1>1. wire' = <<>> /\ reply' = None /\ link' = ~tcp /\ mined' = mined
  BY DEF Refuses, minerVars
<1>2. wire' \in Seq(Requests) /\ InFlight' \subseteq InFlight /\ Distinct'
  BY <1>1, LosesRequests
<1>3. CallsOK'
  <2>1. link' \in BOOLEAN /\ (link' \/ (tcp' /\ wire' = <<>>))
    BY <1>1, TcpIsBoolean DEF minerVars
  <2> QED
    BY <1>1, <1>2, <2>1 DEF CallsOK
<1>4. SavedOK' /\ Range(blocks)' = Range(blocks)
  BY ChainStays DEF vars
<1>5. NotAdded' /\ Taken' \subseteq Taken
  BY <1>2, <1>4, LessIsTaken
<1>6. Brings' = None
  BY <1>1 DEF Brings
<1> QED
  BY <1>2, <1>3, <1>4, <1>5, <1>6, MinerStays

(* A draft is a template that nothing knows of.                            *)
LEMMA DraftIsNew ==
  ASSUME MiningInv, NEW u \in Drafts
  PROVE  u \in Templates /\ ~Used(u) /\ u # current_template /\ u # thread.template
<1>1. u \in Templates /\ Fresh(Head(u.transactions))
  BY DEF Drafts
<1>2. u # None
  BY <1>1, NoneIsNothing
<1>3. \A b \in InFlight \cup Range(blocks) : AsTemplate(b) # u
  <2> SUFFICES ASSUME NEW b \in InFlight \cup Range(blocks), AsTemplate(b) = u PROVE FALSE
    OBVIOUS
  <2>1. b.transactions = u.transactions
    BY DEF AsTemplate
  <2> QED
    BY <1>1, <2>1 DEF Fresh
<1>4. ~Used(u)
  BY <1>3 DEF Used, Taken
<1>5. u # current_template /\ u # thread.template
  BY <1>1, <1>2 DEF Fresh
<1> QED
  BY <1>1, <1>4, <1>5

LEMMA OffersKeeps ==
  ASSUME MiningInv, NEW height, OffersAt(height)
  PROVE  MiningInv'
<1> USE DEF MiningInv
<1>1. CASE Payable(height)
  <2> DEFINE u == CHOOSE u \in Drafts : TRUE
  <2>1. u \in Drafts /\ Answers("template", u) /\ UNCHANGED <<vars, minerVars>>
    BY <1>1 DEF OffersAt
  <2>2. u \in Templates /\ ~Used(u) /\ u # current_template /\ u # thread.template
    BY <2>1, DraftIsNew
  <2> HIDE DEF u
  <2>3. wire # <<>> /\ wire' = Tail(wire) /\ reply' = Answer("template", u) /\ link' = link
    BY <2>1 DEF OffersAt, Handles, Answers
  <2>4. mined' = mined /\ current_template' = current_template /\ thread' = thread /\ mining' = mining
    BY <2>1 DEF minerVars
  <2>5. wire' \in Seq(Requests) /\ InFlight' \subseteq InFlight /\ Distinct'
    BY <2>3, <2>4, TakesRequest
  <2>6. reply' \in Replies /\ reply'.answer = "template" /\ reply'.value = u
    BY <2>2, <2>3 DEF Replies, Answer
  <2>7. CallsOK'
    BY <2>3, <2>4, <2>5, <2>6 DEF CallsOK
  <2>8. SavedOK' /\ Range(blocks)' = Range(blocks)
    BY <2>1, ChainStays DEF vars
  <2>9. NotAdded' /\ Taken' \subseteq Taken
    BY <2>5, <2>8, LessIsTaken
  <2>10. Brings' = u
    BY <2>6, NoneIsNothing DEF Brings
  <2>11. \A v : Used(v)' => Used(v)
    BY <2>9 DEF Used
  <2>12. UnusedOK'
    <3>1. thread'.at = "hashing" => ~Used(thread.template)'
      BY <2>4, <2>11 DEF UnusedOK
    <3>2. Used(current_template)' => Used(current_template)
      BY <2>4, <2>11
    <3>3. ~Used(Brings)'
      BY <2>2, <2>10, <2>11
    <3> QED
      BY <2>2, <2>4, <2>10, <3>1, <3>2, <3>3 DEF UnusedOK
  <2>13. MinerOK'
    BY <2>1 DEF MinerOK, minerVars
  <2> QED
    BY <2>5, <2>7, <2>8, <2>9, <2>12, <2>13
<1>2. CASE ~Payable(height)
  BY <1>2, RefusesKeeps DEF OffersAt
<1> QED
  BY <1>1, <1>2

LEMMA ValidateTemplateKeeps ==
  ASSUME MiningInv, ValidateTemplate
  PROVE  MiningInv'
<1> USE DEF MiningInv
<1> DEFINE val == Valid(Head(wire).template)
<1>1. /\ wire # <<>> /\ wire' = Tail(wire) /\ reply' = Answer("validity", val) /\ link' = link
      /\ UNCHANGED <<vars, minerVars>>
  BY DEF ValidateTemplate, Handles, Answers
<1>2. val \in BOOLEAN
  BY DEF Valid
<1> HIDE DEF val
<1>3. mined' = mined
  BY <1>1 DEF minerVars
<1>4. wire' \in Seq(Requests) /\ InFlight' \subseteq InFlight /\ Distinct'
  BY <1>1, <1>3, TakesRequest
<1>5. reply' \in Replies /\ reply'.answer = "validity"
  BY <1>1, <1>2 DEF Replies, Answer
<1>6. CallsOK'
  BY <1>1, <1>3, <1>4, <1>5 DEF CallsOK
<1>7. SavedOK' /\ Range(blocks)' = Range(blocks)
  BY <1>1, ChainStays DEF vars
<1>8. NotAdded' /\ Taken' \subseteq Taken
  BY <1>4, <1>7, LessIsTaken
<1>9. Brings' = None
  BY <1>5 DEF Brings
<1> QED
  BY <1>1, <1>4, <1>6, <1>7, <1>8, <1>9, MinerStays

(* A block is appended to the chain.                                       *)
LEMMA ChainGrows ==
  ASSUME SavedOK, NEW b \in Blocks, AddBlock(b)
  PROVE  SavedOK' /\ Range(blocks)' = Range(blocks) \cup {b}
<1>1. blocks' = Append(blocks, b) /\ disk' = disk
  BY DEF AddBlock
<1>2. /\ blocks' \in Seq(Blocks) /\ Len(blocks') = Len(blocks) + 1
      /\ \A i \in 1..Len(blocks) : blocks'[i] = blocks[i]
      /\ blocks'[Len(blocks) + 1] = b
      /\ Len(blocks) \in Nat /\ DOMAIN blocks = 1..Len(blocks) /\ DOMAIN blocks' = 1..Len(blocks')
  BY <1>1 DEF SavedOK
<1>3. Range(blocks)' = Range(blocks) \cup {b}
  BY <1>2 DEF Range
<1> QED
  BY <1>1, <1>2, <1>3 DEF SavedOK

LEMMA SubmitKeeps ==
  ASSUME MiningInv, TcpSubmitTemplate \/ GrpcSubmitTemplate
  PROVE  MiningInv'
<1> USE DEF MiningInv
<1> DEFINE b == Head(wire).block
<1>1. /\ wire # <<>> /\ Head(wire).ask = "submit" /\ UNCHANGED minerVars
      /\ wire' \in {Tail(wire), <<>>}
      /\ reply' \in {reply, None, Answer("added", TRUE)}
      /\ link' \in BOOLEAN /\ (link' = link \/ (link' = ~tcp /\ wire' = <<>>))
      /\ AddBlock(b) \/ UNCHANGED vars
  BY DEF TcpSubmitTemplate, GrpcSubmitTemplate, Handles, Answers, Refuses, Adds, CallsOK, MinerOK
<1>2. mined' = mined
  BY <1>1 DEF minerVars
<1>3. 1 \in Submits /\ wire[1] = Head(wire)
  BY <1>1 DEF Submits, CallsOK
<1>4. b \in InFlight /\ b \notin Range(mined) /\ b \in OwnBlocks /\ b \in Blocks
  BY <1>3, FlightTypes DEF Distinct, InFlight, OwnBlocks
<1>5. wire' \in Seq(Requests) /\ InFlight' \subseteq InFlight /\ Distinct' /\ b \notin InFlight'
  <2>1. CASE wire' = Tail(wire)
    BY <1>1, <1>2, <2>1, TakesRequest
  <2>2. CASE wire' = <<>>
    <3>1. Submits' = {}
      BY <2>2 DEF Submits
    <3>2. InFlight' = Range(mined)
      BY <1>2, <3>1 DEF InFlight
    <3> QED
      BY <1>2, <1>4, <2>2, <3>2, LosesRequests
  <2> QED
    BY <1>1, <2>1, <2>2
<1> HIDE DEF b
<1>6. Answer("added", TRUE) \in Replies /\ Answer("added", TRUE).answer = "added"
  BY DEF Replies, Answer
<1>7. CallsOK'
  <2>1. link' \/ (tcp' /\ wire' = <<>>)
    BY <1>1 DEF CallsOK, minerVars, MinerOK
  <2>2. reply' \in Replies \cup {None}
    BY <1>1, <1>6 DEF CallsOK
  <2>3. mined' \in Seq(OwnBlocks) /\ link' \in BOOLEAN
    BY <1>1, <1>2 DEF CallsOK
  <2> QED
    BY <1>5, <2>1, <2>2, <2>3 DEF CallsOK
<1>8. SavedOK' /\ Range(blocks)' \subseteq Range(blocks) \cup {b}
  <2>1. CASE AddBlock(b)
    BY <1>4, <2>1, ChainGrows
  <2>2. CASE UNCHANGED vars
    BY <2>2, ChainStays DEF vars
  <2> QED
    BY <1>1, <2>1, <2>2
<1>9. NotAdded'
  BY <1>5, <1>8 DEF NotAdded
<1>10. Taken' \subseteq Taken
  BY <1>4, <1>5, <1>8 DEF Taken
<1>11. Brings' \in {Brings, None}
  BY <1>1, <1>6 DEF Brings
<1> QED
  BY <1>1, <1>5, <1>7, <1>8, <1>9, <1>10, <1>11, MinerStays

-----------------------------------------------------------------------------
(* The rest of the node *)

(* Whatever else keeps or saves the chain, or loses what is on its way.    *)
LEMMA CallsStay ==
  ASSUME CallsOK, Distinct, UNCHANGED <<minerVars, callVars>>
  PROVE  CallsOK' /\ Distinct' /\ InFlight' = InFlight /\ Brings' = Brings
<1>1. mined' = mined /\ wire' = wire /\ reply' = reply /\ link' = link /\ tcp' = tcp
  BY DEF minerVars, callVars
<1>2. Submits' = Submits
  BY <1>1 DEF Submits
<1> QED
  BY <1>1, <1>2 DEF CallsOK, Distinct, InFlight, Brings

LEMMA NodeStepKeeps ==
  ASSUME MiningInv, NodeStep \/ NodeSave
  PROVE  MiningInv'
<1> USE DEF MiningInv
<1>1. CallsOK' /\ Distinct' /\ InFlight' = InFlight /\ Brings' = Brings /\ UNCHANGED minerVars
  BY CallsStay DEF NodeStep, NodeSave
<1>2. ASSUME NEW b \in Rivals, AddBlock(b) PROVE MiningInv'
  <2>1. b \in Blocks /\ b \notin OwnBlocks
    BY MiningAssumption DEF OwnBlocks
  <2>2. SavedOK' /\ Range(blocks)' = Range(blocks) \cup {b}
    BY <1>2, <2>1, ChainGrows
  <2>3. b \notin InFlight
    BY <2>1, FlightTypes
  <2>4. NotAdded'
    BY <1>1, <2>2, <2>3 DEF NotAdded
  <2>5. Taken' \subseteq Taken
    BY <1>1, <2>1, <2>2 DEF Taken
  <2> QED
    BY <1>1, <2>2, <2>4, <2>5, MinerStays
<1>3. CASE UNCHANGED <<blocks, disk>>
  <2>1. SavedOK' /\ Range(blocks)' = Range(blocks)
    BY <1>3, ChainStays
  <2>2. NotAdded' /\ Taken' \subseteq Taken
    BY <1>1, <2>1, LessIsTaken
  <2> QED
    BY <1>1, <2>1, <2>2, MinerStays
<1>4. CASE NodeSave
  <2>1. blocks' = blocks /\ disk'.blocks = blocks
    BY <1>4 DEF NodeSave, Save
  <2>2. SavedOK' /\ Range(blocks)' = Range(blocks)
    BY <2>1 DEF SavedOK
  <2>3. NotAdded' /\ Taken' \subseteq Taken
    BY <1>1, <2>2, LessIsTaken
  <2> QED
    BY <1>1, <2>2, <2>3, MinerStays
<1>5. CASE NodeStep
  <2>1. ASSUME NEW tx \in Txs, AddToMempool(tx) PROVE UNCHANGED <<blocks, disk>>
    BY <2>1 DEF AddToMempool
  <2>2. Rebuild \/ Readjust => UNCHANGED <<blocks, disk>>
    BY DEF Rebuild, Readjust
  <2>3. Tick => UNCHANGED <<blocks, disk>>
    BY DEF Tick
  <2>4. CleanupMempool => UNCHANGED <<blocks, disk>>
    BY DEF CleanupMempool
  <2> QED
    BY <1>2, <1>3, <1>5, <2>1, <2>2, <2>3, <2>4 DEF NodeStep
<1> QED
  BY <1>4, <1>5

LEMMA NodeFaultKeeps ==
  ASSUME MiningInv, NodeFault
  PROVE  MiningInv'
<1> USE DEF MiningInv
<1>1. /\ blocks' = disk.blocks /\ disk' = disk /\ wire' = <<>> /\ reply' \in {reply, None}
      /\ link' = (link /\ ~tcp) /\ UNCHANGED minerVars
  BY DEF NodeFault, Restart
<1>2. mined' = mined
  BY <1>1 DEF minerVars
<1>3. wire' \in Seq(Requests) /\ InFlight' \subseteq InFlight /\ Distinct'
  BY <1>1, <1>2, LosesRequests
<1>4. CallsOK'
  <2>1. link' \in BOOLEAN /\ (link' \/ (tcp' /\ wire' = <<>>))
    BY <1>1, TcpIsBoolean DEF CallsOK, minerVars
  <2> QED
    BY <1>1, <1>2, <1>3, <2>1 DEF CallsOK
<1>5. SavedOK' /\ Range(blocks)' \subseteq Range(blocks)
  BY <1>1 DEF SavedOK
<1>6. NotAdded' /\ Taken' \subseteq Taken
  BY <1>3, <1>5, LessIsTaken
<1>7. Brings' \in {Brings, None}
  BY <1>1 DEF Brings
<1> QED
  BY <1>1, <1>3, <1>4, <1>5, <1>6, <1>7, MinerStays

-----------------------------------------------------------------------------
(* The loop *)

(* The node and the thread are left alone.                                 *)
LEMMA LoopKeeps ==
  ASSUME MiningInv, UNCHANGED <<vars, tcp, thread, current_template>>,
         loop' \in {"select", "fetching", "validating", "submitting", "gone"},
         mining' \in {mining, FALSE}, CallsOK', Distinct', InFlight' \subseteq InFlight,
         Brings' \in {Brings, None}
  PROVE  MiningInv'
<1> USE DEF MiningInv
<1>1. MinerOK'
  <2>1. mining' \in BOOLEAN /\ (mining' => current_template' # None)
    <3>1. CASE mining' = mining
      BY <3>1 DEF MinerOK
    <3>2. CASE mining' = FALSE
      BY <3>2
    <3> QED
      BY <3>1, <3>2
  <2> QED
    BY <2>1 DEF MinerOK
<1>2. SavedOK' /\ Range(blocks)' = Range(blocks)
  BY ChainStays DEF vars
<1>3. NotAdded' /\ Taken' \subseteq Taken
  BY <1>2, LessIsTaken
<1>4. mining' => mining
  OBVIOUS
<1>5. UnusedOK'
  BY <1>3, <1>4, UnusedStays
<1> QED
  BY <1>1, <1>2, <1>3, <1>5

LEMMA TickKeeps ==
  ASSUME MiningInv, FetchTick \/ ValidateTick
  PROVE  MiningInv'
<1> USE DEF MiningInv
<1>1. /\ UNCHANGED <<vars, tcp, thread, current_template, mining, mined, reply, link>>
      /\ loop' \in {"fetching", "validating", "gone"}
      /\ \/ wire' = wire
         \/ link /\ wire' = Append(wire, Ask("fetch"))
         \/ link /\ current_template # None /\ wire' = Append(wire, AskValid(current_template))
  BY DEF FetchTick, ValidateTick, Calls
<1>2. CASE wire' = wire
  <2>1. Submits' = Submits
    BY <1>2 DEF Submits
  <2>2. CallsOK' /\ Distinct' /\ InFlight' = InFlight
    BY <1>1, <1>2, <2>1 DEF CallsOK, Distinct, InFlight
  <2> QED
    BY <1>1, <2>2, LoopKeeps DEF Brings
<1>3. ASSUME NEW r \in Requests, r.ask # "submit", link, wire' = Append(wire, r) PROVE MiningInv'
  <2>1. wire' \in Seq(Requests) /\ InFlight' = InFlight /\ Distinct'
    BY <1>1, <1>3, AsksSomething
  <2>2. CallsOK'
    BY <1>1, <1>3, <2>1 DEF CallsOK
  <2> QED
    BY <1>1, <2>1, <2>2, LoopKeeps DEF Brings
<1>4. Ask("fetch") \in Requests /\ Ask("fetch").ask # "submit"
  BY DEF Requests, Ask
<1>5. ASSUME current_template # None
      PROVE  AskValid(current_template) \in Requests /\ AskValid(current_template).ask # "submit"
  BY <1>5 DEF Requests, AskValid, MinerOK
<1> QED
  BY <1>1, <1>2, <1>3, <1>4, <1>5

LEMMA SendsKeeps ==
  ASSUME MiningInv, TcpSubmit \/ GrpcSubmit
  PROVE  MiningInv'
<1> USE DEF MiningInv
<1>1. /\ UNCHANGED <<vars, tcp, thread, current_template, reply, link>>
      /\ mined # <<>> /\ mined' = Tail(mined) /\ mining' \in {mining, FALSE}
      /\ loop' \in {"select", "submitting", "gone"}
      /\ wire' = wire \/ wire' = Append(wire, AskSubmit(Head(mined)))
  BY DEF TcpSubmit, GrpcSubmit, Calls
<1>2. link' \/ (tcp' /\ wire' = <<>>)
  <2>1. CASE TcpSubmit
    BY <2>1 DEF TcpSubmit, CallsOK
  <2>2. CASE GrpcSubmit
    BY <2>2 DEF GrpcSubmit, CallsOK
  <2> QED
    BY <2>1, <2>2
<1>3. mined' \in Seq(OwnBlocks)
  BY <1>1, ReceivesBlock
<1>4. wire' \in Seq(Requests) /\ InFlight' \subseteq InFlight /\ Distinct'
  <2>1. CASE wire' = wire
    BY <1>1, <2>1, DropsBlock DEF CallsOK
  <2>2. CASE wire' = Append(wire, AskSubmit(Head(mined)))
    BY <1>1, <2>2, SubmitsBlock
  <2> QED
    BY <1>1, <2>1, <2>2
<1>5. CallsOK'
  BY <1>1, <1>2, <1>3, <1>4 DEF CallsOK
<1>6. Brings' = Brings
  BY <1>1 DEF Brings
<1> QED
  BY <1>1, <1>4, <1>5, <1>6, LoopKeeps

LEMMA AnswersKeep ==
  ASSUME MiningInv, TakeValidity \/ TakeAdded \/ CallFails
  PROVE  MiningInv'
<1> USE DEF MiningInv
<1>1. /\ UNCHANGED <<vars, tcp, thread, current_template, mined, wire, link>>
      /\ reply' = None /\ loop' \in {"select", "gone"} /\ mining' \in {mining, FALSE}
  <2>1. CASE TakeValidity
    <3>1. reply \in Replies /\ reply.answer = "validity"
      BY <2>1 DEF TakeValidity, Gets, CallsOK
    <3>2. reply.value \in BOOLEAN
      BY <3>1 DEF Replies
    <3>3. mining' = (mining /\ reply.value)
      BY <2>1 DEF TakeValidity
    <3>4. mining' \in {mining, FALSE}
      BY <3>2, <3>3 DEF MinerOK
    <3> QED
      BY <2>1, <3>4 DEF TakeValidity, Gets
  <2>2. CASE TakeAdded
    BY <2>2 DEF TakeAdded, Gets
  <2>3. CASE CallFails
    BY <2>3 DEF CallFails, callVars
  <2> QED
    BY <2>1, <2>2, <2>3
<1>2. Submits' = Submits
  BY <1>1 DEF Submits
<1>3. CallsOK' /\ Distinct' /\ InFlight' = InFlight /\ Brings' = None
  BY <1>1, <1>2 DEF CallsOK, Distinct, InFlight, Brings
<1> QED
  BY <1>1, <1>3, LoopKeeps

(* The current template becomes one of which there is no block.            *)
LEMMA TakeTemplateKeeps ==
  ASSUME MiningInv, TakeTemplate
  PROVE  MiningInv'
<1> USE DEF MiningInv
<1>1. /\ UNCHANGED <<vars, tcp, thread, mined, wire, link>> /\ loop' = "select"
      /\ reply # None /\ reply.answer = "template" /\ reply' = None
      /\ current_template' = reply.value /\ mining' = TRUE
  BY DEF TakeTemplate, Gets
<1>2. reply \in Replies
  BY <1>1 DEF CallsOK
<1>3. reply.value \in Templates /\ reply.value # None /\ Brings = reply.value
  BY <1>1, <1>2, NoneIsNothing DEF Replies, Brings
<1>4. MinerOK'
  BY <1>1, <1>3 DEF MinerOK
<1>5. Submits' = Submits
  BY <1>1 DEF Submits
<1>6. CallsOK' /\ Distinct' /\ InFlight' = InFlight /\ Brings' = None
  BY <1>1, <1>5 DEF CallsOK, Distinct, InFlight, Brings
<1>7. SavedOK' /\ Range(blocks)' = Range(blocks)
  BY <1>1, ChainStays DEF vars
<1>8. NotAdded' /\ Taken' \subseteq Taken
  BY <1>6, <1>7, LessIsTaken
<1>9. \A u : Used(u)' => Used(u)
  BY <1>8 DEF Used
<1>10. UnusedOK'
  <2>1. ~Used(current_template)'
    BY <1>1, <1>3, <1>9 DEF UnusedOK
  <2>2. thread'.at = "hashing" => ~Used(thread.template)'
    BY <1>1, <1>9 DEF UnusedOK
  <2> QED
    BY <1>6, <2>1, <2>2 DEF UnusedOK
<1> QED
  BY <1>4, <1>6, <1>7, <1>8, <1>10

LEMMA MinerRestartKeeps ==
  ASSUME MiningInv, MinerRestart
  PROVE  MiningInv'
<1> USE DEF MiningInv
<1>1. /\ UNCHANGED <<tcp, vars>> /\ loop' = "select" /\ current_template' = None /\ mining' = FALSE
      /\ thread' = Idle /\ mined' = <<>> /\ wire' = <<>> /\ reply' = None /\ link' = TRUE
  BY DEF MinerRestart, Idle
<1>2. Idle \in Searching /\ Idle.at = "idle"
  BY DEF Idle, Searching
<1>3. MinerOK'
  BY <1>1, <1>2 DEF MinerOK
<1>4. wire' \in Seq(Requests) /\ InFlight' \subseteq InFlight /\ Distinct'
  BY <1>1, LosesRequests
<1>5. mined' \in Seq(OwnBlocks)
  BY <1>1
<1>6. CallsOK'
  BY <1>1, <1>4, <1>5 DEF CallsOK
<1>7. SavedOK' /\ Range(blocks)' = Range(blocks)
  BY <1>1, ChainStays DEF vars
<1>8. NotAdded'
  BY <1>4, <1>7, LessIsTaken
<1>9. UnusedOK'
  BY <1>1, <1>2 DEF UnusedOK, Brings
<1> QED
  BY <1>3, <1>4, <1>6, <1>7, <1>8, <1>9

-----------------------------------------------------------------------------
(* The thread *)

LEMMA ThreadKeeps ==
  ASSUME MiningInv, Look \/ Clone \/ NotFound \/ Clear
  PROVE  MiningInv'
<1> USE DEF MiningInv
<1>1. UNCHANGED <<tcp, vars, wire, reply, link, loop, current_template, mined>>
  BY DEF Look, Clone, NotFound, Clear, At, callVars
<1>2. Submits' = Submits
  BY <1>1 DEF Submits
<1>3. CallsOK' /\ Distinct' /\ InFlight' = InFlight /\ Brings' = Brings
  BY <1>1, <1>2 DEF CallsOK, Distinct, InFlight, Brings
<1>4. SavedOK' /\ Range(blocks)' = Range(blocks)
  BY <1>1, ChainStays DEF vars
<1>5. NotAdded' /\ Taken' \subseteq Taken
  BY <1>3, <1>4, LessIsTaken
<1>6. \A u : Used(u)' => Used(u)
  BY <1>5 DEF Used
<1>7. Idle \in Searching /\ Idle.at = "idle" /\ Idle.template = None
  BY DEF Idle, Searching
<1>8. /\ Used(current_template)' => Used(current_template)
      /\ Brings' # None => ~Used(Brings)' /\ Brings' # current_template' /\ Brings' # thread.template
  BY <1>1, <1>3, <1>6 DEF UnusedOK
<1>9. CASE Look
  <2>1. thread.at = "idle" /\ mining /\ mining' = mining /\ thread' = [thread EXCEPT !.at = "looking"]
    BY <1>9 DEF Look, At
  <2>2. thread' \in Searching /\ thread'.at = "looking" /\ thread'.template = thread.template
    BY <2>1 DEF MinerOK, Searching
  <2>3. MinerOK'
    BY <1>1, <2>1, <2>2 DEF MinerOK
  <2>4. UnusedOK'
    BY <1>8, <2>1, <2>2 DEF UnusedOK
  <2> QED
    BY <1>3, <1>4, <1>5, <2>3, <2>4
<1>10. CASE Clone
  <2>1. /\ thread.at = "looking" /\ current_template # None /\ mining' = mining
        /\ thread' = [at |-> "hashing", template |-> current_template]
    BY <1>10 DEF Clone, At
  <2>2. thread' \in Searching /\ thread'.at = "hashing" /\ thread'.template = current_template
    BY <2>1 DEF MinerOK, Searching
  <2>3. MinerOK'
    BY <1>1, <2>1, <2>2 DEF MinerOK
  <2>4. ~Used(current_template)'
    BY <1>8, <2>1 DEF UnusedOK
  <2>5. UnusedOK'
    BY <1>1, <1>8, <2>2, <2>4 DEF UnusedOK
  <2> QED
    BY <1>3, <1>4, <1>5, <2>3, <2>5
<1>11. CASE NotFound
  <2>1. thread.at = "hashing" /\ thread' = Idle /\ mining' = mining
    BY <1>11 DEF NotFound, At
  <2>2. MinerOK'
    BY <1>1, <1>7, <2>1 DEF MinerOK
  <2>3. ~Used(current_template)'
    BY <1>8, <2>1 DEF UnusedOK
  <2>4. UnusedOK'
    BY <1>7, <1>8, <2>1, <2>3 DEF UnusedOK
  <2> QED
    BY <1>3, <1>4, <1>5, <2>2, <2>4
<1>12. CASE Clear
  <2>1. thread' = Idle /\ mining' = FALSE
    BY <1>12 DEF Clear
  <2>2. MinerOK'
    BY <1>1, <1>7, <2>1 DEF MinerOK
  <2>3. UnusedOK'
    BY <1>7, <1>8, <2>1 DEF UnusedOK
  <2> QED
    BY <1>3, <1>4, <1>5, <2>2, <2>3
<1> QED
  BY <1>9, <1>10, <1>11, <1>12

LEMMA FoundKeeps ==
  ASSUME MiningInv, Found
  PROVE  MiningInv'
<1> USE DEF MiningInv
<1>1. /\ UNCHANGED <<tcp, vars, wire, reply, link, loop, current_template, mining>>
      /\ thread.at = "hashing" /\ thread' = [thread EXCEPT !.at = "sent"]
  BY DEF Found, At, callVars
<1>2. PICK b \in OwnBlocks : AsTemplate(b) = thread.template /\ mined' = Append(mined, b)
  BY DEF Found
<1>3. b \notin InFlight /\ b \notin Range(blocks)
  BY <1>1, <1>2 DEF UnusedOK, Used, Taken
<1>4. mined' \in Seq(OwnBlocks) /\ InFlight' = InFlight \cup {b} /\ Distinct'
  BY <1>1, <1>2, <1>3, MinesBlock
<1>5. CallsOK'
  BY <1>1, <1>4 DEF CallsOK
<1>6. SavedOK' /\ Range(blocks)' = Range(blocks)
  BY <1>1, ChainStays DEF vars
<1>7. NotAdded'
  BY <1>3, <1>4, <1>6 DEF NotAdded
<1>8. thread' \in Searching /\ thread'.at = "sent" /\ thread'.template = thread.template
  BY <1>1 DEF MinerOK, Searching
<1>9. MinerOK'
  BY <1>1, <1>8 DEF MinerOK
<1>10. UnusedOK'
  <2>1. Brings' = Brings
    BY <1>1 DEF Brings
  <2>2. Taken' \subseteq Taken \cup {b}
    BY <1>4, <1>6 DEF Taken
  <2>3. \A u : Used(u)' => Used(u) \/ u = thread.template
    BY <1>2, <2>2 DEF Used
  <2>4. Brings' # None =>
          ~Used(Brings)' /\ Brings' # current_template' /\ Brings' # thread'.template
    BY <1>1, <1>8, <2>1, <2>3 DEF UnusedOK
  <2> QED
    BY <1>8, <2>4 DEF UnusedOK
<1> QED
  BY <1>4, <1>5, <1>6, <1>7, <1>9, <1>10

-----------------------------------------------------------------------------
(* The invariant *)

LEMMA InitMiningInv == MiningInit => MiningInv
<1> SUFFICES ASSUME MiningInit PROVE MiningInv
  OBVIOUS
<1>1. /\ blocks = <<>> /\ disk = Absent /\ tcp \in Protocols /\ loop = "select"
      /\ current_template = None /\ mining = FALSE /\ thread = Idle /\ mined = <<>>
      /\ wire = <<>> /\ reply = None /\ link = TRUE
  BY DEF MiningInit, Init, Idle
<1>2. Idle \in Searching /\ Idle.at = "idle"
  BY DEF Idle, Searching
<1>3. MinerOK /\ CallsOK
  <2>1. MinerOK
    BY <1>1, <1>2 DEF MinerOK
  <2>2. mined \in Seq(OwnBlocks) /\ wire \in Seq(Requests)
    BY <1>1
  <2>3. CallsOK
    BY <1>1, <2>2 DEF CallsOK
  <2> QED
    BY <2>1, <2>3
<1>4. SavedOK
  BY <1>1 DEF SavedOK, Absent
<1>5. Range(mined) = {} /\ Range(blocks) = {} /\ Submits = {} /\ IsInjective(mined)
  BY <1>1 DEF Range, Submits, IsInjective
<1>6. Distinct /\ NotAdded
  BY <1>5 DEF Distinct, NotAdded
<1>7. UnusedOK
  BY <1>1, <1>2 DEF UnusedOK, Brings
<1> QED
  BY <1>3, <1>4, <1>6, <1>7 DEF MiningInv

LEMMA StutterKeeps ==
  ASSUME MiningInv, UNCHANGED miningVars
  PROVE  MiningInv'
<1> USE DEF MiningInv
<1>1. UNCHANGED <<vars, minerVars, callVars>>
  BY DEF miningVars
<1>2. CallsOK' /\ Distinct' /\ InFlight' = InFlight /\ Brings' = Brings
  BY <1>1, CallsStay
<1>3. SavedOK' /\ Range(blocks)' = Range(blocks)
  BY <1>1, ChainStays DEF vars
<1>4. NotAdded' /\ Taken' \subseteq Taken
  BY <1>2, <1>3, LessIsTaken
<1> QED
  BY <1>1, <1>2, <1>3, <1>4, MinerStays

LEMMA NextMiningInv == MiningInv /\ [MiningNext]_miningVars => MiningInv'
<1> SUFFICES ASSUME MiningInv, [MiningNext]_miningVars PROVE MiningInv'
  OBVIOUS
<1>1. CASE Handlers
  <2>1. TcpFetchTemplate => OffersAt(Len(blocks) + 1)
    BY DEF TcpFetchTemplate
  <2>2. GrpcFetchTemplate => OffersAt(Len(blocks))
    BY DEF GrpcFetchTemplate
  <2> QED
    BY <1>1, <2>1, <2>2, OffersKeeps, ValidateTemplateKeeps, SubmitKeeps DEF Handlers
<1>2. CASE Loop
  BY <1>2, TickKeeps, SendsKeeps, TakeTemplateKeeps, AnswersKeep, MinerRestartKeeps DEF Loop
<1>3. CASE Thread
  BY <1>3, ThreadKeeps, FoundKeeps DEF Thread
<1>4. CASE NodeStep \/ NodeSave \/ NodeFault
  BY <1>4, NodeStepKeeps, NodeFaultKeeps
<1> QED
  BY <1>1, <1>2, <1>3, <1>4, StutterKeeps DEF MiningNext

-----------------------------------------------------------------------------
(* The theorems *)

(* miner/src/main.rs, miner/src/grpc/miner.rs: every variable has its      *)
(* type, there is a template whenever the flag is set, and nothing is on   *)
(* its way over a connection that is closed.                               *)
THEOREM MiningTypes == MiningSpec => []MiningTypeOK
<1>1. MiningInv => MiningTypeOK
  BY MiningInvTypes
<1> QED
  BY <1>1, InitMiningInv, NextMiningInv, PTL DEF MiningSpec

(* miner/src/main.rs:87: the thread reads the flag and the template        *)
(* separately while the loop changes both, answers and requests are lost,  *)
(* and the node falls back to an older chain: still no block is submitted  *)
(* twice, or after it was added.                                           *)
THEOREM MinesOnce == MiningSpec => []NothingSubmittedTwice
<1>1. MiningInv => NothingSubmittedTwice
  BY MiningInvTwice
<1> QED
  BY <1>1, InitMiningInv, NextMiningInv, PTL DEF MiningSpec

(* A step of the miner and its node is a step of the node or none.         *)
LEMMA NodeMoves == MiningInv /\ [MiningNext]_miningVars => [Next]_vars
<1> SUFFICES ASSUME MiningInv, [MiningNext]_miningVars PROVE Next \/ UNCHANGED vars
  OBVIOUS
<1>1. CASE UNCHANGED miningVars
  BY <1>1 DEF miningVars
<1>2. CASE TcpFetchTemplate \/ GrpcFetchTemplate \/ ValidateTemplate
  BY <1>2 DEF TcpFetchTemplate, GrpcFetchTemplate, OffersAt, ValidateTemplate
<1>3. CASE TcpSubmitTemplate \/ GrpcSubmitTemplate
  <2> DEFINE b == Head(wire).block
  <2>1. AddBlock(b) \/ UNCHANGED vars
    BY <1>3 DEF TcpSubmitTemplate, GrpcSubmitTemplate, Adds
  <2>2. wire # <<>> /\ Head(wire).ask = "submit"
    BY <1>3 DEF TcpSubmitTemplate, GrpcSubmitTemplate, Handles
  <2>3. 1 \in Submits /\ wire[1] = Head(wire)
    BY <2>2 DEF Submits, MiningInv, CallsOK
  <2>4. b \in Blocks
    BY <2>3, FlightTypes DEF MiningInv, OwnBlocks
  <2> QED
    BY <2>1, <2>4 DEF Next
<1>4. CASE Loop
  <2>1. CASE FetchTick \/ ValidateTick \/ TcpSubmit \/ GrpcSubmit
    BY <2>1 DEF FetchTick, ValidateTick, TcpSubmit, GrpcSubmit
  <2>2. CASE TakeTemplate \/ TakeValidity \/ TakeAdded \/ CallFails \/ MinerRestart
    BY <2>2 DEF TakeTemplate, TakeValidity, TakeAdded, CallFails, MinerRestart
  <2> QED
    BY <1>4, <2>1, <2>2 DEF Loop
<1>5. CASE Thread
  BY <1>5 DEF Thread, Look, Clone, Found, NotFound, Clear, At
<1>6. CASE NodeStep
  <2>1. ASSUME NEW b \in Rivals, AddBlock(b) PROVE Next
    BY <2>1, MiningAssumption DEF Next
  <2> QED
    BY <1>6, <2>1 DEF NodeStep, Next
<1>7. CASE NodeSave \/ NodeFault
  BY <1>7 DEF NodeSave, NodeFault, Next
<1> QED
  BY <1>1, <1>2, <1>3, <1>4, <1>5, <1>6, <1>7 DEF MiningNext, Handlers

(* node/src/handler.rs, node/src/grpc/miner_api.rs: the node that serves a *)
(* miner is a node of module Blockchain, of which all its theorems hold.   *)
THEOREM MinedNodeIsNode == MiningSpec => Spec
<1>1. MiningInit => Init
  BY DEF MiningInit
<1> QED
  BY <1>1, InitMiningInv, NextMiningInv, NodeMoves, PTL DEF MiningSpec, Spec

-----------------------------------------------------------------------------
(* Chains with one tip *)

GoodChain(chain) == ChainOK(chain) /\ Rooted(chain)
TipOf(chain)     == IF chain = <<>> THEN 0 ELSE chain[Len(chain)].hash

(* The node does not hold the first block against its Merkle root: a       *)
(* header must have one body for other reasons.                            *)
FirstOnce ==
  \A b, c \in Blocks : b.prev_block_hash = 0 /\ b.hash = c.hash => b = c

(* From the tip downwards, two chains with the same tip have the same      *)
(* headers: the first block of either has no predecessor.                  *)
LEMMA SameHeaders ==
  ASSUME NEW a, ChainOK(a), NEW c, ChainOK(c), TipOf(a) = TipOf(c)
  PROVE  /\ Len(a) <= Len(c)
         /\ \A k \in 0..(Len(a) - 1) : a[Len(a) - k].hash = c[Len(c) - k].hash
<1> DEFINE m  == Len(a)
           n  == Len(c)
           Ns == {k \in Nat : k < m => k < n /\ a[m - k].hash = c[n - k].hash}
<1>1. /\ m \in Nat /\ n \in Nat /\ DOMAIN a = 1..m /\ DOMAIN c = 1..n
      /\ \A i \in 1..m : a[i] \in Blocks /\ a[i].hash # 0
      /\ \A i \in 1..n : c[i] \in Blocks /\ c[i].hash # 0
  BY BlockFacts DEF ChainOK
<1>2. 0 \in Ns
  <2> SUFFICES ASSUME 0 < m PROVE 0 < n /\ a[m].hash = c[n].hash
    BY <1>1
  <2>1. TipOf(a) = a[m].hash /\ a[m].hash # 0
    BY <1>1 DEF TipOf
  <2>2. c # <<>>
    BY <2>1 DEF TipOf
  <2>3. n > 0
    BY <1>1, <2>2 DEF ChainOK
  <2> QED
    BY <2>1, <2>2, <2>3 DEF TipOf
<1>3. ASSUME NEW k \in Nat, k \in Ns PROVE k + 1 \in Ns
  <2> SUFFICES ASSUME k + 1 < m PROVE k + 1 < n /\ a[m - (k + 1)].hash = c[n - (k + 1)].hash
    OBVIOUS
  <2> DEFINE i == m - k
             j == n - k
  <2>1. k < n /\ a[i].hash = c[j].hash
    BY <1>1, <1>3
  <2>2. i \in 2..m /\ j \in 1..n /\ i - 1 = m - (k + 1) /\ j - 1 = n - (k + 1) /\ i - 1 \in 1..m
    BY <1>1, <2>1
  <2> HIDE DEF i, j
  <2>3. a[i].prev_block_hash = c[j].prev_block_hash
    BY <1>1, <2>1, <2>2, HashTellsHeader
  <2>4. a[i].prev_block_hash = a[i - 1].hash
    BY <1>1, <2>2 DEF ChainOK, Linked
  <2>5. a[i - 1].hash # 0
    BY <1>1, <2>2
  <2>6. c[j].prev_block_hash = IF j = 1 THEN 0 ELSE c[j - 1].hash
    BY <1>1, <2>2 DEF ChainOK, Linked
  <2>7. j # 1 /\ a[i - 1].hash = c[j - 1].hash
    BY <2>3, <2>4, <2>5, <2>6
  <2>8. k + 1 < n
    BY <1>1, <2>2, <2>7 DEF j
  <2> QED
    BY <2>2, <2>7, <2>8
<1> HIDE DEF Ns
<1>4. Nat \subseteq Ns
  BY <1>2, <1>3, Induction
<1>5. \A k \in Nat : k < m => k < n /\ a[m - k].hash = c[n - k].hash
  BY <1>4 DEF Ns
<1> HIDE DEF m, n
<1>6. m <= n
  <2>1. CASE m = 0
    BY <1>1, <2>1
  <2>2. CASE m # 0
    <3>1. m - 1 \in Nat /\ m - 1 < m
      BY <1>1, <2>2
    <3>2. m - 1 < n
      BY <1>5, <3>1
    <3> QED
      BY <1>1, <3>2
  <2> QED
    BY <2>1, <2>2
<1>7. \A k \in 0..(m - 1) : a[m - k].hash = c[n - k].hash
  BY <1>1, <1>5
<1> QED
  BY <1>6, <1>7 DEF m, n

(* The tip tells the whole chain: which blocks, and what is in them.       *)
LEMMA SameTip ==
  ASSUME FirstOnce, NEW a, GoodChain(a), NEW c, GoodChain(c), TipOf(a) = TipOf(c)
  PROVE  a = c
<1>1. ChainOK(a) /\ ChainOK(c) /\ Rooted(a) /\ Rooted(c)
  BY DEF GoodChain
<1>2. a \in Seq(Blocks) /\ c \in Seq(Blocks) /\ Len(a) \in Nat /\ Len(c) \in Nat
  BY <1>1 DEF ChainOK
<1>3. Len(a) = Len(c)
  BY <1>1, <1>2, SameHeaders
<1> DEFINE n == Len(a)
<1>4. /\ n \in Nat /\ DOMAIN a = 1..n /\ DOMAIN c = 1..n
      /\ \A i \in 1..n : a[i] \in Blocks /\ c[i] \in Blocks
  BY <1>2, <1>3
<1>5. ASSUME NEW i \in 1..n PROVE a[i] = c[i]
  <2>1. a[i].hash = c[i].hash
    <3>1. n - i \in 0..(n - 1) /\ n - (n - i) = i
      BY <1>4
    <3>2. \A k \in 0..(n - 1) : a[n - k].hash = c[Len(c) - k].hash
      BY <1>1, SameHeaders
    <3>3. a[n - (n - i)].hash = c[n - (n - i)].hash
      BY <1>3, <3>1, <3>2
    <3> QED
      BY <3>1, <3>3
  <2>2. CASE i = 1
    <3>1. a[i].prev_block_hash = 0
      BY <1>1, <1>4, <2>2 DEF ChainOK, Linked
    <3> QED
      BY <1>4, <2>1, <3>1 DEF FirstOnce
  <2>3. CASE i # 1
    <3>1. /\ a[i].merkle_root = Calculate(a[i].transactions)
          /\ c[i].merkle_root = Calculate(c[i].transactions)
      BY <1>1, <1>4, <2>3 DEF Rooted
    <3>2. Calculate(a[i].transactions) = Calculate(c[i].transactions)
      BY <1>4, <2>1, <3>1, HashTellsHeader
    <3>3. a[i].transactions = c[i].transactions
      <4>1. /\ a[i].transactions \in Seq(AllTxs) /\ a[i].transactions # <<>>
            /\ EntriesDiffer(a[i].transactions)
        BY <1>1, <1>4, ChainBodyDiffers
      <4>2. /\ c[i].transactions \in Seq(AllTxs) /\ c[i].transactions # <<>>
            /\ EntriesDiffer(c[i].transactions)
        BY <1>1, <1>4, ChainBodyDiffers
      <4> QED
        BY <3>2, <4>1, <4>2, SameRoot
    <3> QED
      BY <1>4, <2>1, <3>3, HashTellsHeader
  <2> QED
    BY <2>2, <2>3
<1> HIDE DEF n
<1>6. a = [i \in 1..n |-> a[i]] /\ c = [i \in 1..n |-> c[i]]
  BY <1>2, <1>4
<1> QED
  BY <1>5, <1>6

-----------------------------------------------------------------------------
(* Sums that do not depend on the utxo set *)

Everything == [o \in AllOutputs |-> FALSE]

(* The sums of a transaction whose inputs are all there.                   *)
Solvent(tx) == ~SumsPanic(Everything, tx) /\ ~Overspends(Everything, tx)

LEMMA PresentSum ==
  ASSUME NEW tx \in AllTxs, NEW utxo, SpentBy(tx) \subseteq DOMAIN utxo
  PROVE  InputSum(utxo, tx) = InputSum(Everything, tx)
<1> DEFINE ins  == tx.inputs
           D    == DOMAIN ins
           f(s) == [k \in D |-> IF ins[k].prev_tx_output_hash \in DOMAIN s
                                THEN ins[k].prev_tx_output_hash.amount ELSE 0]
<1>1. SpentBy(tx) \subseteq DOMAIN Everything
  <2> DEFINE Slot == [prev_tx_output_hash : AllOutputs,
                      signature : {o.pubkey : o \in AllOutputs}]
  <2>1. ins \in Seq(Slot)
    BY TxsAssumption
  <2>2. \A k \in D : ins[k] \in Slot
    <3> HIDE DEF Slot, ins
    <3> QED
      BY <2>1 DEF D
  <2>3. \A e \in Slot : e.prev_tx_output_hash \in AllOutputs
    OBVIOUS
  <2> QED
    BY <2>2, <2>3 DEF SpentBy, Everything
<1>2. \A k \in D : ins[k].prev_tx_output_hash \in SpentBy(tx)
  BY DEF SpentBy
<1>3. f(utxo) = f(Everything)
  BY <1>1, <1>2
<1>4. ASSUME NEW s PROVE InputSum(s, tx) = Sum(f(s), D)
  BY SumOfInputs DEF InputSum
<1> QED
  <2>1. InputSum(utxo, tx) = Sum(f(utxo), D)
    BY <1>4
  <2>2. InputSum(Everything, tx) = Sum(f(Everything), D)
    BY <1>4
  <2> QED
    BY <1>3, <2>1, <2>2

LEMMA SumTypes ==
  ASSUME NEW tx \in AllTxs
  PROVE  InputSum(Everything, tx) \in Nat /\ OutputSum(tx) \in Nat
<1>1. OutputSum(tx) \in Nat
  <2>1. /\ IsFiniteSet(CreatedBy(tx)) /\ CreatedBy(tx) \subseteq AllOutputs
        /\ OutputSum(tx) = Sum(Worth, CreatedBy(tx))
    BY OutputSumIs
  <2>2. \A o \in CreatedBy(tx) : Worth[o] \in Nat
    BY <2>1, AmountType
  <2> QED
    BY <2>1, <2>2, SumNat
<1> DEFINE ins == tx.inputs
           D   == DOMAIN ins
           f   == [k \in D |-> IF ins[k].prev_tx_output_hash \in DOMAIN Everything
                               THEN ins[k].prev_tx_output_hash.amount ELSE 0]
<1>2. InputSum(Everything, tx) = Sum(f, D)
  BY SumOfInputs DEF InputSum
<1>3. IsFiniteSet(D)
  <2>1. D = 1..Len(ins) /\ Len(ins) \in Nat
    BY TxsAssumption
  <2> QED
    BY <2>1, FS_Interval
<1>4. \A k \in D : f[k] \in Nat
  BY TxsAssumption DEF Everything
<1>5. Sum(f, D) \in Nat
  <2> HIDE DEF f, D
  <2> QED
    BY <1>3, <1>4, SumNat
<1> QED
  BY <1>1, <1>2, <1>5

LEMMA SolventIn ==
  ASSUME NEW tx \in AllTxs, NEW utxo, SpentBy(tx) \subseteq DOMAIN utxo
  PROVE  Solvent(tx) <=> ~SumsPanic(utxo, tx) /\ ~Overspends(utxo, tx)
BY PresentSum DEF Solvent, SumsPanic, Overspends

LEMMA FeeIsNat ==
  ASSUME NEW tx \in AllTxs, Solvent(tx)
  PROVE  Wrap(InputSum(Everything, tx)) - Wrap(OutputSum(tx)) \in Nat
<1> DEFINE x == InputSum(Everything, tx)
           y == OutputSum(tx)
<1>1. x \in Nat /\ y \in Nat /\ U64 \in Nat \ {0}
  BY SumTypes, NumbersAssumption
<1>2. ~(Wrap(x) < Wrap(y))
  BY DEF Solvent, Overspends
<1> HIDE DEF x, y
<1>3. x % U64 \in Nat /\ y % U64 \in Nat
  BY <1>1
<1>4. Wrap(x) \in Nat /\ Wrap(y) \in Nat
  BY <1>3 DEF Wrap
<1>5. Wrap(x) - Wrap(y) \in Nat
  <2> DEFINE a == Wrap(x)
             c == Wrap(y)
  <2>1. a \in Nat /\ c \in Nat /\ ~(a < c)
    BY <1>2, <1>4
  <2> HIDE DEF a, c
  <2>2. a - c \in Nat
    BY <2>1
  <2> QED
    BY <2>2 DEF a, c
<1> QED
  BY <1>5 DEF x, y

(* The fees of a body are the same over every set that has its inputs.     *)
LEMMA FeesOver ==
  ASSUME NEW b, NEW c, b.transactions \in Seq(AllTxs),
         Len(c.transactions) = Len(b.transactions),
         \A k \in 2..Len(b.transactions) : b.transactions[k] = c.transactions[k],
         NEW utxo,
         \A k \in 2..Len(b.transactions) : SpentBy(b.transactions[k]) \subseteq DOMAIN utxo
  PROVE  MinerFees(c, utxo) = MinerFees(b, Everything)
<1> DEFINE K == 2..Len(b.transactions)
           f == [k \in K |-> Wrap(InputSum(utxo, c.transactions[k]))
                               - Wrap(OutputSum(c.transactions[k]))]
           g == [k \in K |-> Wrap(InputSum(Everything, b.transactions[k]))
                               - Wrap(OutputSum(b.transactions[k]))]
<1>1. MinerFees(c, utxo) = Sum(f, K) /\ MinerFees(b, Everything) = Sum(g, K)
  BY FeesAsSum
<1>2. ASSUME NEW k \in K PROVE InputSum(utxo, c.transactions[k]) = InputSum(Everything, b.transactions[k])
  <2>1. b.transactions[k] \in AllTxs
    OBVIOUS
  <2> QED
    BY <2>1, PresentSum
<1>3. f = g
  BY <1>2
<1> QED
  BY <1>1, <1>3

LEMMA FeesType ==
  ASSUME NEW b, b.transactions \in Seq(AllTxs),
         \A k \in 2..Len(b.transactions) : Solvent(b.transactions[k])
  PROVE  MinerFees(b, Everything) \in Nat
<1> DEFINE K == 2..Len(b.transactions)
           g == [k \in K |-> Wrap(InputSum(Everything, b.transactions[k]))
                               - Wrap(OutputSum(b.transactions[k]))]
<1>1. MinerFees(b, Everything) = Sum(g, K)
  BY FeesAsSum
<1>2. \A k \in K : g[k] \in Nat
  <2> SUFFICES ASSUME NEW k \in K PROVE g[k] \in Nat
    OBVIOUS
  <2>1. b.transactions[k] \in AllTxs
    OBVIOUS
  <2> QED
    BY <2>1, FeeIsNat
<1>3. IsFiniteSet(K)
  <2>1. Len(b.transactions) \in Int
    OBVIOUS
  <2> QED
    BY <2>1, FS_Interval
<1> HIDE DEF g, K
<1> QED
  BY <1>1, <1>2, <1>3, SumNat

(* What has wrapped may be added as well as what it was before.            *)
LEMMA WrapAdds ==
  ASSUME NEW x \in Nat, NEW y \in Nat
  PROVE  Wrap(x + Wrap(y)) = Wrap(x + y)
<1> DEFINE n == U64
           q == y \div n
           r == y % n
           s == (x + r) \div n
           v == (x + r) % n
           t == (x + y) \div n
           w == (x + y) % n
<1>1. n \in Nat \ {0}
  BY NumbersAssumption
<1>2. q \in Int /\ r \in 0..(n - 1) /\ y = n * q + r
  BY <1>1
<1>3. s \in Int /\ v \in 0..(n - 1) /\ x + r = n * s + v
  <2>1. x + r \in Int
    BY <1>2
  <2> QED
    BY <1>1, <2>1
<1>4. t \in Int /\ w \in 0..(n - 1) /\ x + y = n * t + w
  <2>1. x + y \in Int
    OBVIOUS
  <2> QED
    BY <1>1, <2>1
<1> HIDE DEF n, q, r, s, v, t, w
<1>5. n * (q + s - t) = w - v
  <2>1. n * q + n * s + v = n * t + w
    BY <1>1, <1>2, <1>3, <1>4
  <2> QED
    BY <1>1, <1>2, <1>3, <1>4, <2>1
<1>6. q + s - t = 0
  <2> DEFINE d == q + s - t
             e == w - v
  <2>1. d \in Int /\ e \in Int /\ n * d = e /\ e < n /\ -n < e
    BY <1>1, <1>2, <1>3, <1>4, <1>5
  <2> HIDE DEF d, e
  <2>2. CASE d >= 1
    <3>1. n * d >= n
      BY <1>1, <2>1, <2>2
    <3> QED
      BY <1>1, <2>1, <3>1
  <2>3. CASE d <= -1
    <3>1. n * d <= -n
      BY <1>1, <2>1, <2>3
    <3> QED
      BY <1>1, <2>1, <3>1
  <2>4. CASE d = 0
    BY <2>4 DEF d
  <2> QED
    BY <2>1, <2>2, <2>3, <2>4
<1>7. v = w
  BY <1>1, <1>3, <1>4, <1>5, <1>6
<1> QED
  BY <1>7 DEF Wrap, n, r, v, w

-----------------------------------------------------------------------------
(* Templates that the node will take *)

(* Upon whichever chain the template is mined, as long as its tip is the   *)
(* template's predecessor.                                                 *)
Fits(u) ==
  /\ \A k \in 2..Len(u.transactions) : Solvent(u.transactions[k])
  /\ ~Panics(MinerFees(u, Everything))
  /\ \A chain \in Seq(Blocks) : GoodChain(chain) /\ TipOf(chain) = u.prev_block_hash =>
       /\ chain # <<>> => u.target <= chain[Len(chain)].target
       /\ \A k \in 2..Len(u.transactions) : SpentBy(u.transactions[k]) \subseteq Unspent(chain)
       /\ CoinbaseOK(Head(u.transactions), Len(chain), Wrap(MinerFees(u, Everything)))

(* No clock is so far behind that a block mined here is not later than     *)
(* the one before it.                                                      *)
Later ==
  \A b \in OwnBlocks, c \in Blocks : b.prev_block_hash = c.hash => c.timestamp < b.timestamp

(* The node's target is not easier than that of the last block, with which *)
(* the next one is compared.                                               *)
NotEased == blocks # <<>> => target <= Last(blocks).target

LEMMA TipIs == blocks \in Seq(Blocks) => Tip = TipOf(blocks)
BY DEF Tip, TipOf, Last

LEMMA OwnBlockType ==
  ASSUME NEW b \in OwnBlocks
  PROVE  /\ b \in Blocks /\ b.transactions \in Seq(AllTxs) /\ b.transactions # <<>>
         /\ b.merkle_root = Calculate(b.transactions)
         /\ AsTemplate(b).transactions = b.transactions
         /\ AsTemplate(b).prev_block_hash = b.prev_block_hash
         /\ AsTemplate(b).target = b.target
BY BlockFacts, MiningAssumption DEF OwnBlocks, AsTemplate

LEMMA TemplateType ==
  ASSUME NEW u \in Templates
  PROVE  u.transactions \in Seq(AllTxs) /\ u.transactions # <<>>
BY OwnBlockType DEF Templates

(* A block mined from such a template is accepted.                         *)
LEMMA FitsIsTaken ==
  ASSUME Later, IInv, Rooted(blocks), NEW b \in OwnBlocks, Fits(AsTemplate(b)),
         b.hash <= b.target, b.prev_block_hash = Tip, Compatible(b)
  PROVE  Acceptable(b)
<1> DEFINE txs == b.transactions
           n   == Len(blocks)
<1>1. /\ b \in Blocks /\ txs \in Seq(AllTxs) /\ txs # <<>>
      /\ b.merkle_root = Calculate(txs)
      /\ AsTemplate(b).transactions = txs
      /\ AsTemplate(b).prev_block_hash = b.prev_block_hash /\ AsTemplate(b).target = b.target
  BY OwnBlockType
<1>2. /\ blocks \in Seq(Blocks) /\ GoodChain(blocks) /\ TipOf(blocks) = b.prev_block_hash
      /\ DOMAIN utxo_set = Unspent(blocks)
  BY TipIs DEF IInv, TypeOK, GoodChain, UtxoIsUnspent
<1>3. /\ blocks # <<>> => b.target <= blocks[n].target
      /\ \A k \in 2..Len(txs) : SpentBy(txs[k]) \subseteq DOMAIN utxo_set
      /\ CoinbaseOK(Head(txs), n, Wrap(MinerFees(AsTemplate(b), Everything)))
      /\ \A k \in 2..Len(txs) : Solvent(txs[k])
      /\ ~Panics(MinerFees(AsTemplate(b), Everything))
  BY <1>1, <1>2 DEF Fits
<1>4. MinerFees(b, utxo_set) = MinerFees(AsTemplate(b), Everything)
  <2> DEFINE u == AsTemplate(b)
  <2>1. /\ u.transactions \in Seq(AllTxs) /\ Len(u.transactions) = Len(b.transactions)
        /\ \A k \in 2..Len(u.transactions) : u.transactions[k] = b.transactions[k]
        /\ \A k \in 2..Len(u.transactions) : SpentBy(u.transactions[k]) \subseteq DOMAIN utxo_set
    BY <1>1, <1>3
  <2> HIDE DEF u
  <2>2. MinerFees(b, utxo_set) = MinerFees(u, Everything)
    BY <2>1, FeesOver
  <2> QED
    BY <2>2 DEF u
<1>5. VerifyTransactions(b, n, utxo_set)
  <2>1. \A s \in InputSlots(b) : InputAt(b, s).prev_tx_output_hash \in DOMAIN utxo_set
    <3> SUFFICES ASSUME NEW k \in 2..Len(txs), NEW i \in DOMAIN txs[k].inputs
                 PROVE  txs[k].inputs[i].prev_tx_output_hash \in DOMAIN utxo_set
      BY DEF InputSlots, InputAt
    <3>1. txs[k].inputs[i].prev_tx_output_hash \in SpentBy(txs[k])
      BY DEF SpentBy
    <3> QED
      BY <1>3, <3>1
  <2>2. /\ \A s \in InputSlots(b) :
             InputAt(b, s).signature = InputAt(b, s).prev_tx_output_hash.pubkey
        /\ \A s, r \in InputSlots(b) :
             InputAt(b, s).prev_tx_output_hash = InputAt(b, r).prev_tx_output_hash => s = r
    BY DEF Compatible
  <2>3. ASSUME NEW k \in 2..Len(txs)
        PROVE  ~SumsPanic(utxo_set, txs[k]) /\ ~Overspends(utxo_set, txs[k])
    <3>1. txs[k] \in AllTxs
      BY <1>1
    <3> QED
      BY <1>3, <3>1, SolventIn
  <2> QED
    BY <1>1, <1>3, <1>4, <2>1, <2>2, <2>3 DEF VerifyTransactions
<1>6. LinksTo(b, blocks)
  <2>1. CASE blocks = <<>>
    BY <1>2, <2>1 DEF LinksTo, TipOf
  <2>2. CASE blocks # <<>>
    <3> DEFINE c == blocks[n]
    <3>1. c \in Blocks /\ Last(blocks) = c
      BY <1>2, <2>2 DEF Last
    <3>2. b.prev_block_hash = c.hash
      BY <1>2, <2>2 DEF TipOf
    <3>3. c.timestamp < b.timestamp
      BY <3>1, <3>2 DEF Later
    <3>4. b.hash <= c.target /\ b.target <= c.target
      <4>1. b.hash \in Nat /\ b.target \in Nat /\ c.target \in Nat
        BY <1>1, <3>1, BlockFacts
      <4> QED
        BY <1>3, <2>2, <4>1
    <3>5. b.timestamp > c.timestamp
      BY <1>1, <3>1, <3>3, BlockFacts
    <3> QED
      BY <1>1, <2>2, <3>1, <3>2, <3>4, <3>5 DEF LinksTo
  <2> QED
    BY <2>1, <2>2
<1> QED
  BY <1>5, <1>6 DEF Acceptable

LEMMA OfferedIs ==
  ASSUME IInv
  PROVE  /\ Offered \in Seq(AllTxs)
         /\ \A i \in DOMAIN Offered : Offered[i] \in MempoolTxs /\ Offered[i] \in Range(Offered)
<1> DEFINE S == {Len(mempool), BLOCK_TRANSACTION_CAP}
           n == Min(S)
<1>1. mempool \in Seq(Entry) /\ Len(mempool) \in Nat /\ BLOCK_TRANSACTION_CAP \in Nat
  BY MiningAssumption DEF IInv, TypeOK, Entry
<1>2. n \in S /\ n <= Len(mempool)
  <2>1. \E x \in S : \A y \in S : x <= y
    BY <1>1
  <2>2. n \in S /\ \A y \in S : n <= y
    BY <2>1 DEF Min
  <2> QED
    BY <2>2
<1>3. n \in Nat
  BY <1>1, <1>2
<1> HIDE DEF n
<1>4. Offered = [i \in 1..n |-> mempool[i].tx]
  BY DEF Offered, n
<1>5. ASSUME NEW i \in 1..n PROVE mempool[i].tx \in AllTxs /\ mempool[i].tx \in MempoolTxs
  <2>1. i \in DOMAIN mempool
    BY <1>1, <1>2, <1>3
  <2>2. mempool[i] \in Entry /\ mempool[i] \in Range(mempool)
    BY <1>1, <2>1 DEF Range
  <2> QED
    BY <2>2 DEF Entry, AllTxs, MempoolTxs
<1>6. Offered \in Seq(AllTxs)
  BY <1>3, <1>4, <1>5, IsSequence
<1> QED
  BY <1>4, <1>5, <1>6 DEF Range

LEMMA SumOfOutputs ==
  ASSUME NEW outs, NEW D
  PROVE  MapThenSumSet(LAMBDA k : outs[k].amount, D) = Sum([k \in D |-> outs[k].amount], D)
BY DEF MapThenSumSet, MapThenFoldSet, Sum

LEMMA CoinbaseSum ==
  ASSUME NEW tx \in AllTxs, Len(tx.outputs) = 1
  PROVE  OutputSum(tx) = tx.outputs[1].amount
<1> DEFINE outs == tx.outputs
           f    == [k \in DOMAIN outs |-> outs[k].amount]
<1>1. outs \in Seq(AllOutputs)
  BY TxsAssumption
<1>2. DOMAIN outs = 1..1
  BY <1>1
<1>3. 1..1 = {1}
  OBVIOUS
<1>4. f[1] \in Nat /\ f[1] = outs[1].amount
  <2>1. outs[1] \in AllOutputs
    BY <1>1, <1>2, <1>3
  <2> QED
    BY <1>2, <1>3, <2>1, TxsAssumption
<1>5. OutputSum(tx) = Sum(f, DOMAIN outs)
  BY SumOfOutputs DEF OutputSum
<1>6. Sum(f, {1}) = f[1]
  <2> HIDE DEF f
  <2>1. Sum(f, {} \cup {1}) = Sum(f, {}) + f[1]
    BY <1>4, FS_EmptySet, SumAdds
  <2>2. {} \cup {1} = {1}
    OBVIOUS
  <2> QED
    BY <1>4, <2>1, <2>2, SumEmpty
<1> QED
  BY <1>2, <1>3, <1>4, <1>5, <1>6

LEMMA RewardType ==
  ASSUME blocks \in Seq(Blocks)
  PROVE  /\ RewardDivisor(Len(blocks)) \in Nat \ {0}
         /\ CalculateBlockReward \in Nat
<1>1. Len(blocks) \div HALVING_INTERVAL \in Nat
  BY NumbersAssumption
<1>2. RewardDivisor(Len(blocks)) \in Nat \ {0}
  BY <1>1, PowerOfTwoType DEF RewardDivisor
<1> QED
  BY <1>2, NumbersAssumption DEF CalculateBlockReward

(* What the node hands out fits: the checks it makes then are enough for   *)
(* every chain with this tip, as that is the chain it has now.             *)
LEMMA DraftFits ==
  ASSUME FirstOnce, NotEased, IInv, Rooted(blocks), \A tx \in MempoolTxs : Solvent(tx),
         NEW height, Payable(height), NEW u \in Drafts
  PROVE  Fits(u)
<1> DEFINE txs  == u.transactions
           fees == MinerFees(u, Everything)
           n    == Len(blocks)
<1>1. /\ blocks \in Seq(Blocks) /\ GoodChain(blocks) /\ TipOf(blocks) = Tip
      /\ DOMAIN utxo_set = Unspent(blocks)
  BY TipIs DEF IInv, TypeOK, GoodChain, UtxoIsUnspent
<1>2. /\ u \in Templates /\ txs \in Seq(AllTxs) /\ txs # <<>>
      /\ u.prev_block_hash = Tip /\ u.target = target /\ Tail(txs) = Offered
      /\ Head(txs).inputs = <<>> /\ Len(Head(txs).outputs) = 1
      /\ Head(txs).outputs[1].amount = Wrap(CoinbaseDue)
  BY TemplateType DEF Drafts
<1>3. /\ Len(txs) = Len(Offered) + 1 /\ Len(Offered) \in Nat
      /\ \A k \in 2..Len(txs) : txs[k] = Offered[k - 1] /\ k - 1 \in DOMAIN Offered
  <2> DEFINE t == Tail(txs)
  <2>1. /\ Len(t) = Len(txs) - 1 /\ Len(txs) \in Nat /\ Len(txs) # 0
        /\ t \in Seq(AllTxs)
        /\ \A i \in 1..Len(t) : t[i] = txs[i + 1]
    BY <1>2
  <2>2. t = Offered
    BY <1>2
  <2> HIDE DEF t
  <2>3. Len(t) \in Nat /\ DOMAIN t = 1..Len(t) /\ Len(txs) = Len(t) + 1
    BY <2>1
  <2>4. \A k \in 2..Len(txs) : k - 1 \in 1..Len(t) /\ (k - 1) + 1 = k
    BY <2>3
  <2>5. \A k \in 2..Len(txs) : k - 1 \in DOMAIN t /\ t[k - 1] = txs[k]
    BY <2>1, <2>3, <2>4
  <2> QED
    BY <2>2, <2>3, <2>5
<1>4. ASSUME NEW k \in 2..Len(txs)
      PROVE  Solvent(txs[k]) /\ SpentBy(txs[k]) \subseteq DOMAIN utxo_set
  <2>1. txs[k] \in MempoolTxs /\ txs[k] \in Range(Offered)
    BY <1>3, OfferedIs
  <2> QED
    BY <2>1 DEF Payable
<1>5. fees \in Nat
  BY <1>2, <1>4, FeesType
<1>6. TemplateFees = fees
  <2> DEFINE c == [transactions |-> <<PaysTo([amount |-> 0])>> \o Offered]
  <2>1. /\ Len(c.transactions) = Len(txs)
        /\ \A k \in 2..Len(txs) : txs[k] = c.transactions[k]
    <3> DEFINE a == <<PaysTo([amount |-> 0])>>
    <3>1. c.transactions = a \o Offered
      OBVIOUS
    <3> DEFINE X == AllTxs \cup {PaysTo([amount |-> 0])}
    <3>2. Len(a) = 1 /\ a \in Seq(X)
      OBVIOUS
    <3>3. Offered \in Seq(X)
      BY OfferedIs
    <3> HIDE DEF a, c, X
    <3> DEFINE o == Offered
    <3> HIDE DEF o
    <3>5. o \in Seq(X)
      BY <3>3 DEF o
    <3>6. /\ Len(a \o o) = Len(a) + Len(o)
          /\ \A k \in 1..(Len(a) + Len(o)) :
               (a \o o)[k] = IF k <= Len(a) THEN a[k] ELSE o[k - Len(a)]
      BY <3>2, <3>5, ConcatProperties
    <3>7. Len(o) \in Nat
      BY <3>5
    <3>8. /\ Len(a \o o) = 1 + Len(o)
          /\ \A k \in 2..(1 + Len(o)) : (a \o o)[k] = o[k - 1]
      BY <3>2, <3>6, <3>7
    <3>4. /\ Len(a \o Offered) = 1 + Len(Offered)
          /\ \A k \in 2..(1 + Len(Offered)) : (a \o Offered)[k] = Offered[k - 1]
      BY <3>8 DEF o
    <3> QED
      BY <1>3, <3>1, <3>4
  <2>2. TemplateFees = MinerFees(c, utxo_set)
    BY DEF TemplateFees
  <2> HIDE DEF c
  <2> QED
    BY <1>2, <1>4, <2>1, <2>2, FeesOver
<1> DEFINE reward == CalculateBlockReward
<1>7. /\ reward \in Nat /\ U64 \in Nat \ {0}
      /\ RewardDivisor(n) \in Nat /\ RewardDivisor(n) < U64
      /\ reward = INITIAL_REWARD \div RewardDivisor(n)
  BY <1>1, RewardType, NumbersAssumption DEF Payable, RewardPanics, CalculateBlockReward
<1>8. CoinbaseDue = reward + fees /\ ~Panics(reward + fees)
  BY <1>6 DEF Payable, CoinbaseDue
<1> HIDE DEF reward, fees
<1>9. ~Panics(fees)
  BY <1>5, <1>7, <1>8 DEF Panics
<1>10. CoinbaseOK(Head(txs), n, Wrap(fees))
  <2>1. Head(txs) \in AllTxs
    BY <1>2
  <2>2. OutputSum(Head(txs)) = Wrap(reward + fees)
    BY <1>2, <1>8, <2>1, CoinbaseSum
  <2>3. Head(txs).outputs # <<>>
    BY <1>2
  <2>4. Wrap(reward + fees) \in 0..(U64 - 1)
    BY <1>5, <1>7 DEF Wrap
  <2>5. ~Panics(OutputSum(Head(txs)))
    BY <2>2, <2>4 DEF Panics
  <2>6. ~Panics(reward + Wrap(fees))
    <3>1. CASE OverflowChecks
      <4>1. Wrap(fees) = fees
        BY <1>9, <3>1, NotWrapped
      <4> QED
        BY <1>8, <4>1
    <3>2. CASE ~OverflowChecks
      BY <3>2 DEF Panics
    <3> QED
      BY <3>1, <3>2
  <2>7. Wrap(OutputSum(Head(txs))) = Wrap(reward + Wrap(fees))
    <3>1. Wrap(Wrap(reward + fees)) = Wrap(reward + fees)
      <4> DEFINE m == Wrap(reward + fees)
      <4>1. m \in 0..(U64 - 1)
        BY <2>4
      <4> HIDE DEF m
      <4>2. Wrap(m) = m
        BY <1>7, <4>1, NotWrapped
      <4> QED
        BY <4>2 DEF m
    <3> QED
      BY <1>5, <1>7, <2>2, <3>1, WrapAdds
  <2> QED
    BY <1>2, <1>7, <2>3, <2>5, <2>6, <2>7 DEF CoinbaseOK
<1>11. ASSUME NEW chain \in Seq(Blocks), GoodChain(chain), TipOf(chain) = u.prev_block_hash
       PROVE  /\ chain # <<>> => u.target <= chain[Len(chain)].target
              /\ \A k \in 2..Len(txs) : SpentBy(txs[k]) \subseteq Unspent(chain)
              /\ CoinbaseOK(Head(txs), Len(chain), Wrap(fees))
  <2>1. chain = blocks
    BY <1>1, <1>2, <1>11, SameTip
  <2> QED
    BY <1>1, <1>2, <1>4, <1>10, <2>1 DEF NotEased, Last
<1> QED
  BY <1>4, <1>9, <1>11 DEF Fits, fees

-----------------------------------------------------------------------------
(* What there is to make templates from, and what is made from them.       *)

SourcesOK   == RootsOK /\ \A tx \in MempoolTxs : Solvent(tx)
Around      == {current_template, thread.template, Brings} \ {None}
ProductsOK  ==
  /\ \A u \in Around : Fits(u)
  /\ \A b \in InFlight : Fits(AsTemplate(b)) /\ b.hash <= b.target

LEMMA NodeKeepsSources ==
  ASSUME IInv, SourcesOK, [Next]_vars
  PROVE  SourcesOK'
<1>1. RootsOK'
  BY NextRoots DEF SourcesOK
<1>2. ASSUME MempoolTxs' \subseteq MempoolTxs PROVE SourcesOK'
  BY <1>1, <1>2 DEF SourcesOK
<1>3. CASE UNCHANGED mempool
  BY <1>2, <1>3 DEF MempoolTxs
<1>4. ASSUME NEW K \in SUBSET DOMAIN mempool, Retain(K) PROVE SourcesOK'
  <2>1. MempoolTxs' = {mempool[i].tx : i \in K}
    BY <1>4, RetainedTxs
  <2> QED
    BY <1>2, <2>1 DEF MempoolTxs, Range
<1>5. ASSUME NEW b \in Blocks, AddBlock(b) PROVE SourcesOK'
  <2> DEFINE K == {i \in DOMAIN mempool : mempool[i].tx \notin Range(b.transactions)}
  <2>1. K \in SUBSET DOMAIN mempool /\ Retain(K)
    BY <1>5 DEF AddBlock
  <2> QED
    BY <1>4, <2>1
<1>6. ASSUME NEW tx \in Txs, AddToMempool(tx) PROVE SourcesOK'
  <2>1. /\ SpentBy(tx) \subseteq DOMAIN utxo_set
        /\ \/ MempoolTxs' = MempoolTxs
           \/ /\ MempoolTxs' = MempoolTxs \cup {tx}
              /\ ~SumsPanic(utxo_set, tx) /\ ~Overspends(utxo_set, tx)
    BY <1>6, AddToMempoolDoes
  <2>2. tx \in AllTxs
    BY DEF AllTxs
  <2>3. \/ MempoolTxs' = MempoolTxs
        \/ MempoolTxs' = MempoolTxs \cup {tx} /\ Solvent(tx)
    BY <2>1, <2>2, SolventIn
  <2> QED
    BY <1>1, <2>3 DEF SourcesOK
<1>7. CASE CleanupMempool
  <2> DEFINE K == DOMAIN mempool \ {i \in DOMAIN mempool : mempool[i].age > MAX_MEMPOOL_TRANSACTION_AGE}
  <2>1. Retain(K) /\ K \in SUBSET DOMAIN mempool
    BY <1>7 DEF CleanupMempool
  <2> QED
    BY <1>4, <2>1
<1>8. CASE Tick
  BY <1>2, <1>8, TickIInv DEF Tick
<1>9. CASE Restart
  <2>1. mempool' = <<>>
    BY <1>9 DEF Restart
  <2> QED
    BY <1>2, <2>1 DEF MempoolTxs, Range
<1> QED
  BY <1>3, <1>5, <1>6, <1>7, <1>8, <1>9
  DEF Next, vars, Rebuild, Readjust, Save, CrashWhileSaving

(* No step makes a template or a block out of nothing: a template is       *)
(* drafted by the node, a block is mined from the thread's template.       *)
NewTemplate(u) == (\E height : Payable(height)) /\ u \in Drafts
NewBlock(b)    ==
  thread.at = "hashing" /\ b \in OwnBlocks /\ AsTemplate(b) = thread.template /\ b.hash <= b.target

MadeRight ==
  /\ \A u \in Around' : u \in Around \/ NewTemplate(u)
  /\ \A b \in InFlight' : b \in InFlight \/ NewBlock(b)

LEMMA NothingNew ==
  ASSUME Around' \subseteq Around, InFlight' \subseteq InFlight
  PROVE  MadeRight
BY DEF MadeRight

LEMMA HandlersMakeRight ==
  ASSUME MiningInv, Handlers
  PROVE  MadeRight
<1> USE DEF MiningInv
<1>1. UNCHANGED minerVars
  BY DEF Handlers, TcpFetchTemplate, GrpcFetchTemplate, OffersAt, ValidateTemplate,
         TcpSubmitTemplate, GrpcSubmitTemplate
<1>2. mined' = mined /\ current_template' = current_template /\ thread' = thread
  BY <1>1 DEF minerVars
<1>3. wire # <<>> /\ wire' \in {Tail(wire), <<>>}
  BY DEF Handlers, TcpFetchTemplate, GrpcFetchTemplate, OffersAt, ValidateTemplate,
         TcpSubmitTemplate, GrpcSubmitTemplate, Handles, Answers, Refuses
<1>4. InFlight' \subseteq InFlight
  BY <1>2, <1>3, TakesRequest, LosesRequests
<1>5. ASSUME NEW height, OffersAt(height), Payable(height) PROVE MadeRight
  <2> DEFINE u == CHOOSE u \in Drafts : TRUE
  <2>1. u \in Drafts /\ reply' = Answer("template", u)
    BY <1>5 DEF OffersAt, Answers
  <2> HIDE DEF u
  <2>2. Brings' \in {u, None}
    BY <2>1 DEF Brings, Answer
  <2> QED
    BY <1>2, <1>4, <1>5, <2>1, <2>2 DEF MadeRight, Around, NewTemplate
<1>6. ASSUME NEW height, OffersAt(height), ~Payable(height) PROVE Brings' = None
  BY <1>6 DEF OffersAt, Refuses, Brings
<1>7. ValidateTemplate => Brings' = None
  BY DEF ValidateTemplate, Answers, Answer, Brings
<1>8. TcpSubmitTemplate \/ GrpcSubmitTemplate => Brings' \in {Brings, None}
  BY DEF TcpSubmitTemplate, GrpcSubmitTemplate, Answers, Answer, Refuses, Brings
<1>9. Brings' \in {Brings, None} => MadeRight
  BY <1>2, <1>4, NothingNew DEF Around
<1> QED
  BY <1>5, <1>6, <1>7, <1>8, <1>9 DEF Handlers, TcpFetchTemplate, GrpcFetchTemplate

LEMMA LoopMakesRight ==
  ASSUME MiningInv, Loop
  PROVE  MadeRight
<1> USE DEF MiningInv
<1>1. CASE FetchTick \/ ValidateTick
  <2>1. /\ UNCHANGED <<thread, current_template, mined, reply>>
        /\ \/ wire' = wire
           \/ wire' = Append(wire, Ask("fetch"))
           \/ current_template # None /\ wire' = Append(wire, AskValid(current_template))
    BY <1>1 DEF FetchTick, ValidateTick, Calls
  <2>2. Ask("fetch") \in Requests /\ Ask("fetch").ask # "submit"
    BY DEF Requests, Ask
  <2>3. ASSUME current_template # None
        PROVE  AskValid(current_template) \in Requests /\ AskValid(current_template).ask # "submit"
    BY <2>3 DEF Requests, AskValid, MinerOK
  <2>4. wire' = wire => InFlight' = InFlight
    BY <2>1 DEF InFlight, Submits
  <2>5. InFlight' = InFlight
    BY <2>1, <2>2, <2>3, <2>4, AsksSomething
  <2> QED
    BY <2>1, <2>5, NothingNew DEF Around, Brings
<1>2. CASE TcpSubmit \/ GrpcSubmit
  <2>1. /\ UNCHANGED <<thread, current_template, reply>>
        /\ mined # <<>> /\ mined' = Tail(mined)
        /\ wire' = wire \/ wire' = Append(wire, AskSubmit(Head(mined)))
    BY <1>2 DEF TcpSubmit, GrpcSubmit, Calls
  <2>2. InFlight' \subseteq InFlight
    BY <2>1, DropsBlock, SubmitsBlock
  <2> QED
    BY <2>1, <2>2, NothingNew DEF Around, Brings
<1>3. CASE TakeTemplate
  <2>1. /\ UNCHANGED <<thread, mined, wire>> /\ reply' = None
        /\ current_template' = Brings
    BY <1>3 DEF TakeTemplate, Gets, Brings
  <2>2. InFlight' = InFlight
    BY <2>1 DEF InFlight, Submits
  <2> QED
    BY <2>1, <2>2, NothingNew DEF Around, Brings
<1>4. CASE TakeValidity \/ TakeAdded \/ CallFails
  <2>1. /\ UNCHANGED <<thread, current_template, mined, wire>> /\ reply' \in {reply, None}
    BY <1>4 DEF TakeValidity, TakeAdded, CallFails, Gets, callVars
  <2>2. InFlight' = InFlight
    BY <2>1 DEF InFlight, Submits
  <2> QED
    BY <2>1, <2>2, NothingNew DEF Around, Brings
<1>5. CASE MinerRestart
  <2>1. /\ current_template' = None /\ thread'.template = None /\ mined' = <<>>
        /\ wire' = <<>> /\ reply' = None
    BY <1>5 DEF MinerRestart
  <2>2. InFlight' \subseteq InFlight
    BY <2>1, LosesRequests
  <2> QED
    BY <2>1, <2>2, NothingNew DEF Around, Brings
<1> QED
  BY <1>1, <1>2, <1>3, <1>4, <1>5 DEF Loop

LEMMA ThreadMakesRight ==
  ASSUME MiningInv, Thread
  PROVE  MadeRight
<1> USE DEF MiningInv
<1>1. UNCHANGED <<wire, reply, current_template>>
  BY DEF Thread, Look, Clone, Found, NotFound, Clear, At, callVars
<1>2. CASE Look \/ Clone \/ NotFound \/ Clear
  <2>1. mined' = mined
    BY <1>2 DEF Look, Clone, NotFound, Clear
  <2>2. InFlight' = InFlight
    BY <1>1, <2>1 DEF InFlight, Submits
  <2>3. thread'.template \in {thread.template, current_template, None}
    <3>1. thread' = [thread EXCEPT !.at = "looking"] => thread'.template = thread.template
      BY DEF MinerOK, Searching
    <3> QED
      BY <1>2, <3>1 DEF Look, Clone, NotFound, Clear, Idle
  <2> QED
    BY <1>1, <2>2, <2>3, NothingNew DEF Around, Brings
<1>3. CASE Found
  <2>1. thread.at = "hashing" /\ thread'.template = thread.template
    BY <1>3 DEF Found, At, MinerOK, Searching
  <2>2. PICK b \in OwnBlocks : /\ AsTemplate(b) = thread.template /\ b.hash <= b.target
                               /\ mined' = Append(mined, b)
    BY <1>3 DEF Found
  <2>3. b \notin InFlight
    BY <2>1, <2>2 DEF UnusedOK, Used, Taken
  <2>4. InFlight' = InFlight \cup {b}
    BY <1>1, <2>2, <2>3, MinesBlock
  <2>5. Around' = Around
    BY <1>1, <2>1 DEF Around, Brings
  <2> QED
    BY <2>1, <2>2, <2>4, <2>5 DEF MadeRight, NewBlock
<1> QED
  BY <1>2, <1>3 DEF Thread

LEMMA StepsMakeRight ==
  ASSUME MiningInv, [MiningNext]_miningVars
  PROVE  MadeRight
<1>1. CASE NodeStep \/ NodeSave \/ UNCHANGED miningVars
  <2>1. UNCHANGED <<minerVars, callVars>>
    BY <1>1 DEF NodeStep, NodeSave, miningVars
  <2>2. InFlight' = InFlight /\ Brings' = Brings
    BY <2>1, CallsStay DEF MiningInv
  <2> QED
    BY <2>1, <2>2, NothingNew DEF Around, minerVars
<1>2. CASE NodeFault
  <2>1. UNCHANGED minerVars /\ wire' = <<>> /\ reply' \in {reply, None}
    BY <1>2 DEF NodeFault
  <2>2. mined' = mined /\ current_template' = current_template /\ thread' = thread
    BY <2>1 DEF minerVars
  <2>3. InFlight' \subseteq InFlight
    BY <2>1, <2>2, LosesRequests DEF MiningInv
  <2> QED
    BY <2>1, <2>2, <2>3, NothingNew DEF Around, Brings
<1> QED
  BY <1>1, <1>2, HandlersMakeRight, LoopMakesRight, ThreadMakesRight DEF MiningNext

LEMMA NextTemplates ==
  FirstOnce /\ NotEased /\ IInv /\ MiningInv /\ SourcesOK /\ ProductsOK /\ [MiningNext]_miningVars
    => SourcesOK' /\ ProductsOK'
<1> SUFFICES ASSUME FirstOnce, NotEased, IInv, MiningInv, SourcesOK, ProductsOK,
                    [MiningNext]_miningVars
             PROVE  SourcesOK' /\ ProductsOK'
  OBVIOUS
<1>1. SourcesOK'
  BY NodeMoves, NodeKeepsSources
<1>2. MadeRight
  BY StepsMakeRight
<1>3. ASSUME NEW u \in Around' PROVE Fits(u)
  <2>1. CASE u \in Around
    BY <2>1 DEF ProductsOK
  <2>2. CASE NewTemplate(u)
    BY <2>2, DraftFits DEF NewTemplate, SourcesOK, RootsOK
  <2> QED
    BY <1>2, <2>1, <2>2 DEF MadeRight
<1>4. ASSUME NEW b \in InFlight' PROVE Fits(AsTemplate(b)) /\ b.hash <= b.target
  <2>1. CASE b \in InFlight
    BY <2>1 DEF ProductsOK
  <2>2. CASE NewBlock(b)
    <3>1. thread.template # None
      BY <2>2, NoneIsNothing DEF NewBlock, Templates
    <3>2. thread.template \in Around
      BY <3>1 DEF Around
    <3> QED
      BY <2>2, <3>2 DEF NewBlock, ProductsOK
  <2> QED
    BY <1>2, <2>1, <2>2 DEF MadeRight
<1> QED
  BY <1>1, <1>3, <1>4 DEF ProductsOK

LEMMA InitTemplates == MiningInit => SourcesOK /\ ProductsOK
<1> SUFFICES ASSUME MiningInit PROVE SourcesOK /\ ProductsOK
  OBVIOUS
<1>1. /\ blocks = <<>> /\ disk.blocks = <<>> /\ mempool = <<>>
      /\ current_template = None /\ thread.template = None
      /\ mined = <<>> /\ wire = <<>> /\ reply = None
  BY DEF MiningInit, Init, Absent
<1>2. RootsOK
  BY InitRoots DEF MiningInit
<1>3. MempoolTxs = {} /\ Around = {}
  BY <1>1 DEF MempoolTxs, Range, Around, Brings
<1>4. Range(mined) = {} /\ Submits = {}
  BY <1>1 DEF Range, Submits
<1>5. InFlight = {}
  BY <1>4 DEF InFlight
<1> QED
  BY <1>1, <1>2, <1>3, <1>5 DEF SourcesOK, ProductsOK

(* node/src/handler.rs:262-345, node/src/grpc/miner_api.rs:40-120: what    *)
(* the node hands out it takes when it is mined, however long that takes   *)
(* and through whatever happens to chain, mempool and connection on the    *)
(* way.  It does not when a retarget has just made things easier, since a  *)
(* block is compared with the target of the block before it, nor when a    *)
(* clock goes back.                                                        *)
THEOREM TemplatesAreTaken ==
  FirstOnce /\ Later => (MiningSpec /\ []NotEased => []TakesItsTemplates)
<1> SUFFICES ASSUME FirstOnce, Later PROVE MiningSpec /\ []NotEased => []TakesItsTemplates
  OBVIOUS
<1> DEFINE TInv == IInv /\ MiningInv /\ SourcesOK /\ ProductsOK
<1>1. MiningInit => TInv
  BY InitMiningInv, InitTemplates, InitIInv DEF MiningInit
<1>2. NotEased /\ TInv /\ [MiningNext]_miningVars => TInv'
  BY NextMiningInv, NextTemplates, NodeMoves, NextIInv
<1>3. TInv => TakesItsTemplates
  <2> SUFFICES ASSUME TInv, NEW b \in InFlight, b.prev_block_hash = Tip, Compatible(b)
               PROVE  Acceptable(b)
    BY DEF TakesItsTemplates
  <2>1. b \in OwnBlocks
    BY FlightTypes DEF MiningInv
  <2> QED
    BY <2>1, FitsIsTaken DEF ProductsOK, SourcesOK, RootsOK
<1> QED
  BY <1>1, <1>2, <1>3, PTL DEF MiningSpec
=====
