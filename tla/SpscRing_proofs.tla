--------------------------- MODULE SpscRing_proofs ---------------------------
(***************************************************************************)
(* Theorems about the ring of SpscRing, for every CAP, Item and MaxPush.   *)
(***************************************************************************)
EXTENDS SpscRing, TLAPS

(***************************************************************************)
(* The inductive invariant.  Views are ordered behind the indices they     *)
(* view, a thread in the middle of an operation still has the room (or the *)
(* item) it saw, and the history agrees with the indices.                  *)
(***************************************************************************)
ViewsOrdered ==
    /\ headAcq <= headVis /\ headVis <= head
    /\ head <= tailVis
    /\ tailAcq <= tailVis /\ tailVis <= tail
    /\ tail - headVis <= CAP

PushHasRoom ==
    /\ ppc # "idle" => tail - headAcq < CAP /\ pItem \in Item
    /\ ppc = "publish" => buf[SlotOf(tail)] = pItem

PopHasItem == cpc # "idle" => head < tailAcq

HistoryMatches == Len(sent) = tail /\ Len(rcvd) = head

IInv ==
    /\ TypeOK
    /\ ViewsOrdered
    /\ PushHasRoom
    /\ PopHasItem
    /\ HistoryMatches
    /\ UnreadIntact

-----------------------------------------------------------------------------
(***************************************************************************)
(* Two indices less than CAP apart that are different have different       *)
(* slots.                                                                  *)
(***************************************************************************)
\* An index masked is a slot.
LEMMA SlotInRange ==
    ASSUME NEW i \in Nat
    PROVE  SlotOf(i) \in Slot
BY CapAssumption DEF SlotOf, Slot

\* Different indices less than CAP apart have different slots.
LEMMA SlotsDistinct ==
    ASSUME NEW i \in Nat, NEW j \in Nat, i < j, j - i < CAP
    PROVE  SlotOf(i) # SlotOf(j)
<1> DEFINE qi == i \div CAP
           qj == j \div CAP
<1>1. CAP \in Nat /\ CAP > 0
  BY CapAssumption
<1>2. /\ qi \in Nat /\ qj \in Nat
      /\ i = CAP * qi + (i % CAP)
      /\ j = CAP * qj + (j % CAP)
  BY <1>1
<1> SUFFICES ASSUME i % CAP = j % CAP
             PROVE  FALSE
  BY DEF SlotOf
<1> HIDE DEF qi, qj
<1>3. j - i = CAP * (qj - qi)
  BY <1>1, <1>2
<1>4. qj - qi >= 1
  BY <1>1, <1>2, <1>3
<1>5. CAP * (qj - qi) >= CAP
  BY <1>1, <1>2, <1>4
<1> QED
  BY <1>1, <1>2, <1>3, <1>5

\* A newer view of head can only show fewer items inside.
LEMMA FresherViewShowsMoreRoom ==
    ASSUME NEW t \in Nat, NEW old \in Nat, NEW new \in Nat, CAP \in Nat,
           t - old <= CAP, old < new
    PROVE  t - new <= CAP
OBVIOUS

-----------------------------------------------------------------------------
\* The invariant holds initially.
LEMMA InitIInv == Init => IInv
<1> SUFFICES ASSUME Init
             PROVE  IInv
  OBVIOUS
<1> USE CapAssumption DEF Init
<1>1. TypeOK
  BY DEF TypeOK
<1>2. ViewsOrdered /\ PushHasRoom /\ PopHasItem /\ HistoryMatches
  BY DEF ViewsOrdered, PushHasRoom, PopHasItem, HistoryMatches
<1>3. UnreadIntact
  BY DEF UnreadIntact
<1> QED
  BY <1>1, <1>2, <1>3 DEF IInv

-----------------------------------------------------------------------------
(***************************************************************************)
(* Each operation preserves the invariant.                                 *)
(***************************************************************************)
\* A full ring refuses a push.
LEMMA PushRefusedIInv == IInv /\ PushRefused => IInv'
<1> SUFFICES ASSUME IInv, PushRefused
             PROVE  IInv'
  OBVIOUS
<1> USE DEF IInv, PushRefused, LoadHead, consumerVars
<1>1. TypeOK'
  BY DEF TypeOK
<1>2. /\ ViewsOrdered' /\ PushHasRoom' /\ PopHasItem'
      /\ HistoryMatches' /\ UnreadIntact'
  BY DEF TypeOK, ViewsOrdered, PushHasRoom, PopHasItem, HistoryMatches,
         UnreadIntact, SlotOf
<1> QED
  BY <1>1, <1>2

\* A push that sees room begins.
LEMMA PushAdmittedIInv ==
    ASSUME IInv, NEW x \in Item, PushAdmitted(x)
    PROVE  IInv'
<1> USE DEF IInv, PushAdmitted, LoadHead, consumerVars
<1>1. TypeOK'
  BY DEF TypeOK
<1>2. ViewsOrdered' /\ PopHasItem' /\ HistoryMatches' /\ UnreadIntact'
  BY DEF TypeOK, ViewsOrdered, PopHasItem, HistoryMatches, UnreadIntact, SlotOf
<1>3. PushHasRoom'
  BY CapAssumption DEF TypeOK, Full, PushHasRoom
<1> QED
  BY <1>1, <1>2, <1>3

\* push writes its slot, which no unread item is in.
LEMMA PushWriteIInv == IInv /\ PushWrite => IInv'
<1> SUFFICES ASSUME IInv, PushWrite
             PROVE  IInv'
  OBVIOUS
<1> USE DEF IInv, PushWrite, consumerVars
<1>1. SlotOf(tail) \in Slot
  BY SlotInRange DEF TypeOK
<1>2. TypeOK'
  BY <1>1 DEF TypeOK
<1>3. ViewsOrdered' /\ PopHasItem' /\ HistoryMatches'
  BY DEF ViewsOrdered, PopHasItem, HistoryMatches
<1>4. PushHasRoom'
  BY <1>1 DEF TypeOK, PushHasRoom, SlotOf
<1>5. ASSUME NEW i \in head .. tail - 1
      PROVE  buf'[SlotOf(i)] = buf[SlotOf(i)]
  <2>1. i \in Nat /\ i < tail /\ tail - i < CAP
    BY CapAssumption DEF TypeOK, ViewsOrdered, PushHasRoom
  <2>2. SlotOf(i) # SlotOf(tail)
    BY <2>1, SlotsDistinct DEF TypeOK
  <2> QED
    BY <2>2, <1>1 DEF TypeOK
<1>6. UnreadIntact'
  BY <1>5 DEF UnreadIntact, SlotOf
<1> QED
  BY <1>2, <1>3, <1>4, <1>6

\* push publishes the slot with the release store of tail.
LEMMA PushPublishIInv == IInv /\ PushPublish => IInv'
<1> SUFFICES ASSUME IInv, PushPublish
             PROVE  IInv'
  OBVIOUS
<1> USE DEF IInv, PushPublish, consumerVars
<1>1. pItem \in Item
  BY DEF PushHasRoom
<1>2. TypeOK'
  BY <1>1 DEF TypeOK
<1>3. ViewsOrdered'
  BY CapAssumption DEF TypeOK, ViewsOrdered, PushHasRoom
<1>4. PushHasRoom' /\ PopHasItem'
  BY DEF PushHasRoom, PopHasItem
<1>5. HistoryMatches'
  BY <1>1 DEF TypeOK, HistoryMatches
<1>6. /\ \A i \in 1 .. tail : sent'[i] = sent[i]
      /\ sent'[tail + 1] = pItem
  BY <1>1 DEF TypeOK, HistoryMatches
<1>7. ASSUME NEW i \in head' .. tail' - 1
      PROVE  buf'[SlotOf(i)] = sent'[i + 1]
  <2>1. CASE i = tail
    BY <2>1, <1>6 DEF PushHasRoom
  <2>2. CASE i # tail
    <3>1. i \in head .. tail - 1 /\ i + 1 \in 1 .. tail
      BY <2>2 DEF TypeOK
    <3> QED
      BY <3>1, <1>6 DEF UnreadIntact
  <2> QED
    BY <2>1, <2>2
<1>8. cpc' = "free" => head' < tail' /\ cItem' = sent'[head' + 1]
  <2> SUFFICES ASSUME cpc = "free"
               PROVE  head < tail + 1 /\ cItem = sent'[head + 1]
    BY DEF TypeOK
  <2>1. head < tail /\ cItem = sent[head + 1]
    BY DEF UnreadIntact
  <2>2. head < tail + 1 /\ head + 1 \in 1 .. tail
    BY <2>1 DEF TypeOK
  <2>3. sent'[head + 1] = sent[head + 1]
    BY <2>2, <1>6
  <2> QED
    BY <2>1, <2>2, <2>3
<1>9. UnreadIntact'
  BY <1>7, <1>8 DEF UnreadIntact, SlotOf
<1> QED
  BY <1>2, <1>3, <1>4, <1>5, <1>9

\* An empty ring refuses a pop.
LEMMA PopRefusedIInv == IInv /\ PopRefused => IInv'
<1> SUFFICES ASSUME IInv, PopRefused
             PROVE  IInv'
  OBVIOUS
<1> USE DEF IInv, PopRefused, LoadTail, producerVars
<1>1. TypeOK'
  BY DEF TypeOK
<1>2. /\ ViewsOrdered' /\ PushHasRoom' /\ PopHasItem'
      /\ HistoryMatches' /\ UnreadIntact'
  BY DEF TypeOK, ViewsOrdered, PushHasRoom, PopHasItem, HistoryMatches,
         UnreadIntact, SlotOf
<1> QED
  BY <1>1, <1>2

\* A pop that sees an item begins.
LEMMA PopAdmittedIInv == IInv /\ PopAdmitted => IInv'
<1> SUFFICES ASSUME IInv, PopAdmitted
             PROVE  IInv'
  OBVIOUS
<1> USE DEF IInv, PopAdmitted, LoadTail, producerVars
<1>1. TypeOK'
  BY DEF TypeOK
<1>2. ViewsOrdered' /\ PushHasRoom' /\ HistoryMatches' /\ UnreadIntact'
  BY DEF TypeOK, ViewsOrdered, PushHasRoom, HistoryMatches, UnreadIntact, SlotOf
<1>3. PopHasItem'
  BY DEF TypeOK, Empty, PopHasItem
<1> QED
  BY <1>1, <1>2, <1>3

\* pop reads its slot, which holds the oldest unread item.
LEMMA PopReadIInv == IInv /\ PopRead => IInv'
<1> SUFFICES ASSUME IInv, PopRead
             PROVE  IInv'
  OBVIOUS
<1> USE DEF IInv, PopRead, producerVars
<1>1. SlotOf(head) \in Slot
  BY SlotInRange DEF TypeOK
<1>2. TypeOK'
  BY <1>1 DEF TypeOK
<1>3. ViewsOrdered' /\ PushHasRoom' /\ PopHasItem' /\ HistoryMatches'
  BY DEF ViewsOrdered, PushHasRoom, PopHasItem, HistoryMatches, SlotOf
<1>4. head \in head .. tail - 1
  BY DEF TypeOK, ViewsOrdered, PopHasItem
<1>5. UnreadIntact'
  BY <1>4 DEF TypeOK, UnreadIntact, SlotOf
<1> QED
  BY <1>2, <1>3, <1>5

\* pop frees the slot with the release store of head.
LEMMA PopFreeIInv == IInv /\ PopFree => IInv'
<1> SUFFICES ASSUME IInv, PopFree
             PROVE  IInv'
  OBVIOUS
<1> USE DEF IInv, PopFree, producerVars
<1>1. cItem \in Item
  BY DEF TypeOK, UnreadIntact, HistoryMatches
<1>2. TypeOK'
  BY <1>1 DEF TypeOK
<1>3. ViewsOrdered' /\ PushHasRoom' /\ PopHasItem'
  BY DEF TypeOK, ViewsOrdered, PushHasRoom, PopHasItem, SlotOf
<1>4. HistoryMatches'
  BY <1>1 DEF TypeOK, HistoryMatches
<1>5. UnreadIntact'
  BY DEF TypeOK, UnreadIntact, SlotOf
<1> QED
  BY <1>2, <1>3, <1>4, <1>5

\* A newer head becomes visible to the producer.
LEMMA HeadReachesProducerIInv == IInv /\ HeadReachesProducer => IInv'
<1> SUFFICES ASSUME IInv, HeadReachesProducer
             PROVE  IInv'
  OBVIOUS
<1> USE DEF IInv, HeadReachesProducer, consumerVars
<1>1. TypeOK'
  BY DEF TypeOK
<1>2. ViewsOrdered'
  <2>1. headVis' \in Nat /\ headVis < headVis' /\ headVis' <= head
    BY DEF TypeOK
  <2>2. CAP \in Nat
    BY CapAssumption
  <2>3. headAcq' <= headVis' /\ headVis' <= head'
    BY <2>1 DEF TypeOK, ViewsOrdered
  <2>4. head' <= tailVis' /\ tailAcq' <= tailVis' /\ tailVis' <= tail'
    BY DEF ViewsOrdered
  <2>5. tail' - headVis' <= CAP
    BY <2>1, <2>2, FresherViewShowsMoreRoom DEF TypeOK, ViewsOrdered
  <2> QED
    BY <2>3, <2>4, <2>5 DEF ViewsOrdered
<1>3. PushHasRoom' /\ PopHasItem' /\ HistoryMatches' /\ UnreadIntact'
  BY DEF PushHasRoom, PopHasItem, HistoryMatches, UnreadIntact, SlotOf
<1> QED
  BY <1>1, <1>2, <1>3

\* A newer tail becomes visible to the consumer.
LEMMA TailReachesConsumerIInv == IInv /\ TailReachesConsumer => IInv'
<1> SUFFICES ASSUME IInv, TailReachesConsumer
             PROVE  IInv'
  OBVIOUS
<1> USE DEF IInv, TailReachesConsumer, producerVars
<1>1. TypeOK'
  BY DEF TypeOK
<1>2. ViewsOrdered'
  BY CapAssumption DEF TypeOK, ViewsOrdered
<1>3. PushHasRoom' /\ PopHasItem' /\ HistoryMatches' /\ UnreadIntact'
  BY DEF PushHasRoom, PopHasItem, HistoryMatches, UnreadIntact, SlotOf
<1> QED
  BY <1>1, <1>2, <1>3

\* Every step of the ring preserves the invariant.
LEMMA NextIInv == IInv /\ [Next]_vars => IInv'
<1> SUFFICES ASSUME IInv, [Next]_vars
             PROVE  IInv'
  OBVIOUS
<1>1. CASE Producer
  BY <1>1, PushRefusedIInv, PushAdmittedIInv, PushWriteIInv, PushPublishIInv
     DEF Producer, Push
<1>2. CASE Pop
  BY <1>2, PopRefusedIInv, PopAdmittedIInv, PopReadIInv, PopFreeIInv DEF Pop
<1>3. CASE HeadReachesProducer \/ TailReachesConsumer
  BY <1>3, HeadReachesProducerIInv, TailReachesConsumerIInv
<1>4. CASE UNCHANGED vars
  BY <1>4 DEF vars, producerVars, consumerVars, IInv, TypeOK, ViewsOrdered,
     PushHasRoom, PopHasItem, HistoryMatches, UnreadIntact, SlotOf
<1> QED
  BY <1>1, <1>2, <1>3, <1>4 DEF Next

(* The inductive invariant holds in every reachable state of the ring.     *)
THEOREM Inductive == Spec => []IInv
BY InitIInv, NextIInv, PTL DEF Spec

-----------------------------------------------------------------------------
(***************************************************************************)
(* Every variable keeps its type.                                          *)
(***************************************************************************)
\* The ring's variables keep their types.
THEOREM TypeCorrect == Spec => []TypeOK
<1>1. IInv => TypeOK
  BY DEF IInv
<1> QED
  BY <1>1, Inductive, PTL

(***************************************************************************)
(* Neither thread ever races with the other on a slot, whatever the        *)
(* capacity and however stale the indices it reads.                        *)
(***************************************************************************)
THEOREM NoDataRace == Spec => []RaceFree
<1>1. IInv => RaceFree
  <2> SUFFICES ASSUME IInv
               PROVE  RaceFree
    OBVIOUS
  <2> USE DEF IInv
  <2>1. ASSUME ppc = "write", NEW r \in 0 .. Reads - 1,
               SlotOf(r) = SlotOf(tail)
        PROVE  r < headAcq
    <3>1. r \in Nat /\ r < tail
      BY DEF TypeOK, ViewsOrdered, PopHasItem, Reads
    <3>2. tail - r >= CAP
      BY <2>1, <3>1, SlotsDistinct, CapAssumption DEF TypeOK
    <3> QED
      BY <2>1, <3>1, <3>2, CapAssumption DEF TypeOK, PushHasRoom
  <2>2. ASSUME cpc = "read", NEW w \in 0 .. Writes - 1,
               SlotOf(w) = SlotOf(head)
        PROVE  w < tailAcq
    <3>1. w \in Nat /\ head \in Nat /\ head < tailAcq
      BY <2>2 DEF TypeOK, PopHasItem, Writes
    <3>2. w < head + CAP
      BY CapAssumption DEF TypeOK, ViewsOrdered, PushHasRoom, Writes
    <3>3. ~(head < w)
      BY <2>2, <3>1, <3>2, SlotsDistinct, CapAssumption
    <3> QED
      BY <3>1, <3>3 DEF TypeOK
  <2> QED
    BY <2>1, <2>2 DEF RaceFree
<1> QED
  BY <1>1, Inductive, PTL

(***************************************************************************)
(* No unread item is overwritten, and pop returns the oldest unread item.  *)
(***************************************************************************)
THEOREM NothingLost == Spec => []UnreadIntact
<1>1. IInv => UnreadIntact
  BY DEF IInv
<1> QED
  BY <1>1, Inductive, PTL

(***************************************************************************)
(* An owner's len() stays between 0 and CAP and errs to its safe side.     *)
(***************************************************************************)
THEOREM LenSafe == Spec => []OwnerLenInRange
<1>1. IInv => OwnerLenInRange
  BY CapAssumption
     DEF IInv, TypeOK, ViewsOrdered, OwnerLenInRange, ProducerLen, ConsumerLen
<1> QED
  BY <1>1, Inductive, PTL

(***************************************************************************)
(* The ring implements the bounded FIFO queue.                             *)
(***************************************************************************)
THEOREM Refinement == Spec => ImplementsFifo
<1>1. Init => Fifo!Init
  BY DEF Init, Fifo!Init
<1>2. IInv /\ [Next]_vars => [Fifo!Next]_(Fifo!vars)
  <2> SUFFICES ASSUME IInv, [Next]_vars
               PROVE  Fifo!Next \/ UNCHANGED <<sent, rcvd>>
    BY DEF Fifo!vars
  <2> USE DEF IInv
  <2>1. CASE PushPublish
    <3>1. pItem \in Item /\ sent' = Append(sent, pItem) /\ UNCHANGED rcvd
      BY <2>1 DEF PushPublish, PushHasRoom, consumerVars
    <3>2. Len(sent) < Len(rcvd) + CAP
      BY <2>1, CapAssumption DEF PushPublish, PushHasRoom, TypeOK,
         ViewsOrdered, HistoryMatches
    <3> QED
      BY <3>1, <3>2 DEF Fifo!Next, Fifo!Enqueue
  <2>2. CASE PopFree
    <3>1. rcvd' = Append(rcvd, sent[Len(rcvd) + 1]) /\ UNCHANGED sent
      BY <2>2 DEF PopFree, UnreadIntact, HistoryMatches, producerVars
    <3>2. Len(rcvd) < Len(sent)
      BY <2>2 DEF PopFree, UnreadIntact, HistoryMatches
    <3> QED
      BY <3>1, <3>2 DEF Fifo!Next, Fifo!Dequeue
  <2>3. CASE UNCHANGED vars
    BY <2>3 DEF vars, producerVars, consumerVars
  <2>4. CASE /\ Next
             /\ ~PushPublish
             /\ ~PopFree
    BY <2>4 DEF Next, Producer, Push, Pop, PushRefused, PushAdmitted,
       PushWrite, PopRefused, PopAdmitted, PopRead, HeadReachesProducer,
       TailReachesConsumer, producerVars, consumerVars
  <2> QED
    BY <2>1, <2>2, <2>3, <2>4
<1> QED
  BY <1>1, <1>2, Inductive, PTL DEF Spec, ImplementsFifo, Fifo!Spec
=============================================================================
