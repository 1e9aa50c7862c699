---------------------------- MODULE BoundedFifo ----------------------------
(***************************************************************************)
(* What a single-producer single-consumer queue of capacity CAP promises,  *)
(* whatever its implementation: items come out in the order they went in,  *)
(* each once, and at most CAP of them are inside.  Refusing a push or a    *)
(* pop changes nothing, so it is a stuttering step here.                   *)
(***************************************************************************)
EXTENDS Naturals, Sequences

CONSTANTS CAP, Item

VARIABLES sent,  \* every item accepted so far, in order
          rcvd   \* every item handed out so far, in order

vars == <<sent, rcvd>>

Init == sent = <<>> /\ rcvd = <<>>

Enqueue(x) ==
    /\ Len(sent) < Len(rcvd) + CAP
    /\ sent' = Append(sent, x)
    /\ UNCHANGED rcvd

Dequeue ==
    /\ Len(rcvd) < Len(sent)
    /\ rcvd' = Append(rcvd, sent[Len(rcvd) + 1])
    /\ UNCHANGED sent

Next == (\E x \in Item : Enqueue(x)) \/ Dequeue

Spec == Init /\ [][Next]_vars

\* The consumer never stops asking, so what is inside comes out.
FairSpec == Spec /\ WF_vars(Dequeue)
=============================================================================
