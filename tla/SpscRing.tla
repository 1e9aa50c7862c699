------------------------------ MODULE SpscRing ------------------------------
(***************************************************************************)
(* The lock-free ring buffer of src/spsc.rs.                               *)
(*                                                                         *)
(* One thread pushes and one thread pops.  Each owns one index and writes  *)
(* it with a Release store; each reads the other's index with an Acquire   *)
(* load, which may return an old value.  The memory model is carried by    *)
(* two pairs of variables:                                                 *)
(*   - headVis / tailVis: the newest value of the other thread's index     *)
(*     that has reached this thread's loads.  It only grows (read          *)
(*     coherence) and lags behind the true value arbitrarily.              *)
(*   - headAcq / tailAcq: the newest value of the other's index that this  *)
(*     thread has ACQUIRED.  Only accesses published before that value     *)
(*     happen-before what this thread does next.                           *)
(* Indices are usize and never wrap here: MaxPush stands for any number of *)
(* pushes below 2^64.                                                      *)
(***************************************************************************)
EXTENDS Integers, Sequences

CONSTANTS CAP,      \* the const generic CAP
          Item,     \* the values of type T
          Uninit,   \* what MaybeUninit holds before the first write
          MaxPush   \* how many items the producer pushes in all

\* SpscRing::new asserts that CAP is a power of two.
ASSUME CapAssumption ==
    /\ CAP \in Nat \ {0}
    /\ \E n \in 0 .. CAP : CAP = 2^n

ASSUME MaxPushAssumption == MaxPush \in Nat

ASSUME UninitAssumption == Uninit \notin Item

VARIABLES
    buf, head, tail,     \* the fields of SpscRing
    headVis, headAcq,    \* the producer's view of head
    tailVis, tailAcq,    \* the consumer's view of tail
    ppc,                 \* where the producer is inside push
    pItem,               \* push's argument
    cpc,                 \* where the consumer is inside pop
    cItem,               \* the item pop has copied out
    sent, rcvd           \* history: items published and items returned

producerVars == <<tail, headVis, headAcq, ppc, pItem, sent>>
consumerVars == <<head, tailVis, tailAcq, cpc, cItem, rcvd>>
vars == <<buf, producerVars, consumerVars>>

Slot == 0 .. CAP - 1

SlotOfModuloMask(i) == i % (CAP - 1)

\* i & (CAP - 1), for a power of two CAP.
SlotOf(i) == i % CAP

-----------------------------------------------------------------------------
Init ==
    /\ buf = [s \in Slot |-> Uninit]
    /\ head = 0 /\ headVis = 0 /\ headAcq = 0
    /\ tail = 0 /\ tailVis = 0 /\ tailAcq = 0
    /\ ppc = "idle" /\ pItem = Uninit
    /\ cpc = "idle" /\ cItem = Uninit
    /\ sent = <<>> /\ rcvd = <<>>

(***************************************************************************)
(* push(item): load both indices (its own is exact), refuse if full, write *)
(* the slot, publish it by storing the new tail.                           *)
(***************************************************************************)
FullOffByOne == tail - headVis > CAP
FullIgnoringHead == tail >= CAP
Full == tail - headVis >= CAP

LoadHeadRelaxed == headAcq' = headAcq
LoadHead == headAcq' = headVis

PushRefused ==
    /\ ppc = "idle"
    /\ Full
    /\ LoadHead
    /\ UNCHANGED <<buf, tail, headVis, ppc, pItem, sent, consumerVars>>

PushAdmitted(x) ==
    /\ ppc = "idle"
    /\ ~Full
    /\ LoadHead
    /\ ppc' = "write"
    /\ pItem' = x
    /\ UNCHANGED <<buf, tail, headVis, sent, consumerVars>>

PushWrite ==
    /\ ppc = "write"
    /\ buf' = [buf EXCEPT ![SlotOf(tail)] = pItem]
    /\ ppc' = "publish"
    /\ UNCHANGED <<tail, headVis, headAcq, pItem, sent, consumerVars>>

\* The Release store of tail.  push returns true.
PushPublish ==
    /\ ppc = "publish"
    /\ tail' = tail + 1
    /\ sent' = Append(sent, pItem)
    /\ ppc' = "idle"
    /\ pItem' = Uninit
    /\ UNCHANGED <<buf, headVis, headAcq, consumerVars>>

(***************************************************************************)
(* pop(): load both indices (its own is exact), refuse if empty, move the  *)
(* item out of its slot, free the slot by storing the new head.            *)
(***************************************************************************)
EmptyOffByOne == head > tailVis
EmptyBelowTwo == head + 1 >= tailVis
Empty == head >= tailVis

LoadTail == tailAcq' = tailVis

PopRefused ==
    /\ cpc = "idle"
    /\ Empty
    /\ LoadTail
    /\ UNCHANGED <<buf, head, tailVis, cpc, cItem, rcvd, producerVars>>

PopAdmitted ==
    /\ cpc = "idle"
    /\ ~Empty
    /\ LoadTail
    /\ cpc' = "read"
    /\ UNCHANGED <<buf, head, tailVis, cItem, rcvd, producerVars>>

\* assume_init_read: a bitwise move; the slot keeps its bits.
PopRead ==
    /\ cpc = "read"
    /\ cItem' = buf[SlotOf(head)]
    /\ cpc' = "free"
    /\ UNCHANGED <<buf, head, tailVis, tailAcq, rcvd, producerVars>>

\* The Release store of head.  pop returns the item.
PopFree ==
    /\ cpc = "free"
    /\ head' = head + 1
    /\ rcvd' = Append(rcvd, cItem)
    /\ cpc' = "idle"
    /\ cItem' = Uninit
    /\ UNCHANGED <<buf, tailVis, tailAcq, producerVars>>

(***************************************************************************)
(* A store reaches the other thread's loads some time after it is made.    *)
(***************************************************************************)
HeadReachesProducer ==
    /\ headVis' \in headVis + 1 .. head
    /\ UNCHANGED <<buf, tail, headAcq, ppc, pItem, sent, consumerVars>>

TailReachesConsumer ==
    /\ tailVis' \in tailVis + 1 .. tail
    /\ UNCHANGED <<buf, head, tailAcq, cpc, cItem, rcvd, producerVars>>

(***************************************************************************)
(* len() as each owner computes it: its own index is exact, the other's is *)
(* the (Relaxed) value that has reached it.                                *)
(***************************************************************************)
ProducerLen == tail - headVis

ConsumerLen == tailVis - head

-----------------------------------------------------------------------------
Push == PushRefused \/ (\E x \in Item : PushAdmitted(x)) \/ PushWrite \/ PushPublish
Pop == PopRefused \/ PopAdmitted \/ PopRead \/ PopFree

\* A call of push starts only while fewer than MaxPush items were pushed.
Producer == (ppc = "idle" => tail < MaxPush) /\ Push

Next == Producer \/ Pop \/ HeadReachesProducer \/ TailReachesConsumer

Spec == Init /\ [][Next]_vars

(***************************************************************************)
(* Both threads are scheduled and keep calling (each caller retries in a   *)
(* yield loop), and a store becomes visible in a finite time.              *)
(***************************************************************************)
Fairness ==
    /\ WF_vars(Producer)
    /\ WF_vars(Pop)
    /\ WF_vars(HeadReachesProducer)
    /\ WF_vars(TailReachesConsumer)

FairSpec == Spec /\ Fairness

-----------------------------------------------------------------------------
TypeOK ==
    /\ buf \in [Slot -> Item \cup {Uninit}]
    /\ head \in Nat /\ headVis \in Nat /\ headAcq \in Nat
    /\ tail \in Nat /\ tailVis \in Nat /\ tailAcq \in Nat
    /\ ppc \in {"idle", "write", "publish"}
    /\ pItem \in Item \cup {Uninit}
    /\ cpc \in {"idle", "read", "free"}
    /\ cItem \in Item \cup {Uninit}
    /\ sent \in Seq(Item)
    /\ rcvd \in Seq(Item)

\* How many slot writes and slot reads have been performed.
Writes == tail + (IF ppc = "publish" THEN 1 ELSE 0)
Reads == head + (IF cpc = "free" THEN 1 ELSE 0)

(***************************************************************************)
(* No data race on a slot.  The plain write of push happens after every    *)
(* read of that slot the consumer has made, and the plain read of pop      *)
(* after every write of that slot the producer has made: each such access  *)
(* was published before an index value this thread has acquired.  With a   *)
(* Relaxed load in place of an Acquire one this fails.                     *)
(***************************************************************************)
RaceFree ==
    /\ ppc = "write" =>
         \A r \in 0 .. Reads - 1 : SlotOf(r) = SlotOf(tail) => r < headAcq
    /\ cpc = "read" =>
         \A w \in 0 .. Writes - 1 : SlotOf(w) = SlotOf(head) => w < tailAcq

(***************************************************************************)
(* Every item that was pushed and not yet popped is still in its slot, and *)
(* the one pop is returning is the oldest of them: push overwrites nothing *)
(* unread and pop returns nothing uninitialised or already moved out.      *)
(***************************************************************************)
UnreadIntact ==
    /\ \A i \in head .. tail - 1 : buf[SlotOf(i)] = sent[i + 1]
    /\ cpc = "free" => head < tail /\ cItem = sent[head + 1]

(***************************************************************************)
(* len() called by either owner never underflows and never exceeds CAP:    *)
(* the producer's value errs upwards, the consumer's downwards.            *)
(***************************************************************************)
OwnerLenInRange ==
    /\ ProducerLen \in tail - head .. CAP
    /\ ConsumerLen \in 0 .. tail - head

\* The ring is a bounded FIFO queue.
Fifo == INSTANCE BoundedFifo

\* Every step of the ring is a step of the queue or leaves it as it is.
ImplementsFifo == Fifo!Spec

\* Whatever is inside the ring comes out, once: pop is never refused for ever.
ImplementsFairFifo == Fifo!FairSpec

(***************************************************************************)
(* A producer that retries refused pushes gets all its items through, and  *)
(* the consumer receives them all: slots are freed and seen to be free.    *)
(***************************************************************************)
AllDelivered == <>(Len(rcvd) = MaxPush)
=============================================================================
