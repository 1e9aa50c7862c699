------------------------------ MODULE Pipeline ------------------------------
(***************************************************************************)
(* parallel::execute_pipelined: a producer thread evaluates the predicate  *)
(* batch by batch and pushes chunks into an SpscRing, a consumer thread    *)
(* pops and aggregates them, and the caller joins first the producer and   *)
(* then the consumer.  A chunk with no keys ends the stream.               *)
(*                                                                         *)
(* Every access to the ring is a step of SpscRing.  The yield loops of     *)
(* both threads change nothing while they wait, so a turn of the           *)
(* producer's is a stuttering step, and a turn of the consumer's is a      *)
(* refused pop.                                                            *)
(***************************************************************************)
EXTENDS GroupBy

CONSTANTS CAP,          \* 64 in the code
          Uninit,
          Calls,        \* the calls: a table, and the build that makes it
          MaxBatches    \* the length of the longest table

Inputs == {c.table : c \in Calls}

ASSUME PipelineAssumption ==
    /\ CAP \in Nat \ {0} /\ \E n \in 0 .. CAP : CAP = 2^n
    /\ MaxBatches \in Nat
    /\ \A t \in Inputs : t \in Seq(Seq([key : Nat, val : Int])) /\ Len(t) <= MaxBatches
    /\ \A c \in Calls : c.debug \in BOOLEAN

VARIABLES
    buf, head, tail, headVis, headAcq, tailVis, tailAcq,
    ppc, pItem, cpc, cItem, sent, rcvd,   \* the ring
    input,       \* the caller's batches
    debug,       \* overflow checks, debug_assert! and unwinding are on
    answers,     \* what execute_pipelined has returned: none or one answer
    next,        \* index of the chunk the producer is at; the last is the sentinel
    pstate,      \* the producer thread
    cstate,      \* the consumer thread
    agg,         \* the consumer's hash table
    mstate       \* the caller

ringVars == <<buf, head, tail, headVis, headAcq, tailVis, tailAcq,
              ppc, pItem, cpc, cItem, sent, rcvd>>
call == <<input, debug>>
vars == <<ringVars, call, answers, next, pstate, cstate, agg, mstate>>

(***************************************************************************)
(* AggChunk: the columns of a batch and its selection bitmap.              *)
(***************************************************************************)
ChunkOf(batch) == [rows |-> batch, selection |-> EvaluatePredicate(batch)]

Sentinel == [rows |-> <<>>, selection |-> {}]

Chunks ==
    (UNION {{ChunkOf(t[i]) : i \in DOMAIN t} : t \in Inputs}) \cup {Sentinel}

ASSUME RingAssumption == Uninit \notin Chunks

Ring == INSTANCE SpscRing WITH Item <- Chunks, MaxPush <- MaxBatches + 1

-----------------------------------------------------------------------------
Init ==
    /\ Ring!Init
    /\ \E c \in Calls : input = c.table /\ debug = c.debug
    /\ answers = {}
    /\ next = 1
    /\ pstate = "wait"
    /\ cstate = "pop"
    /\ agg = EmptyMap
    /\ mstate = "joinProducer"

(***************************************************************************)
(* The producer: evaluate the predicate, wait for room, push the chunk, go *)
(* on to the next one.  A panic ends the thread, and in a build that       *)
(* aborts on panic the process.                                            *)
(***************************************************************************)
AtSentinel == next = Len(input) + 1

NextChunk == IF AtSentinel THEN Sentinel ELSE ChunkOf(input[next])

NextPanics == ~AtSentinel /\ PredicatePanics(input[next])

ProducerPanics ==
    /\ pstate = "wait"
    /\ NextPanics
    /\ pstate' = "panicked"
    /\ mstate' = IF debug THEN mstate ELSE "aborted"
    /\ UNCHANGED <<ringVars, call, answers, next, cstate, agg>>

NoWait == TRUE
SeesRoom == Ring!ProducerLen < CAP

ProducerSeesRoom ==
    /\ pstate = "wait"
    /\ ~NextPanics
    /\ SeesRoom
    /\ pstate' = "push"
    /\ UNCHANGED <<ringVars, call, answers, next, cstate, agg, mstate>>

NoSentinel ==
    IF next >= Len(input)
    THEN pstate' = "done" /\ UNCHANGED next
    ELSE pstate' = "wait" /\ next' = next + 1

\* The loop goes on to the next batch, then to the sentinel, then returns.
Advance ==
    IF AtSentinel
    THEN pstate' = "done" /\ UNCHANGED next
    ELSE pstate' = "wait" /\ next' = next + 1

\* A refused push drops the chunk; debug_assert!(_ok) panics where it is on.
ProducerPush ==
    /\ pstate = "push"
    /\ IF Ring!Full
       THEN /\ Ring!PushRefused
            /\ IF debug THEN pstate' = "panicked" /\ UNCHANGED next
                             ELSE Advance
       ELSE /\ Ring!PushAdmitted(NextChunk)
            /\ pstate' = "pushing"
            /\ UNCHANGED next
    /\ UNCHANGED <<call, answers, cstate, agg, mstate>>

ProducerWrites ==
    /\ Ring!PushWrite
    /\ UNCHANGED <<call, answers, next, pstate, cstate, agg, mstate>>

ProducerPublishes ==
    /\ Ring!PushPublish
    /\ Advance
    /\ UNCHANGED <<call, answers, cstate, agg, mstate>>

(***************************************************************************)
(* The consumer: pop, stop at an empty chunk, aggregate any other.         *)
(***************************************************************************)
ConsumerPops ==
    /\ cstate = "pop"
    /\ Ring!PopRefused \/ Ring!PopAdmitted \/ Ring!PopRead
    /\ UNCHANGED <<call, answers, next, pstate, cstate, agg, mstate>>

ConsumerTakes ==
    /\ cstate = "pop"
    /\ Ring!PopFree
    /\ cstate' = "chunk"
    /\ UNCHANGED <<call, answers, next, pstate, agg, mstate>>

Chunk == rcvd[Len(rcvd)]

ConsumerStops ==
    /\ cstate = "chunk"
    /\ Chunk.rows = <<>>
    /\ cstate' = "done"
    /\ UNCHANGED <<ringVars, call, answers, next, pstate, agg, mstate>>

ConsumerPanics ==
    /\ cstate = "chunk"
    /\ debug /\ AggregatePanics(Chunk.rows, Chunk.selection, agg)
    /\ cstate' = "panicked"
    /\ UNCHANGED <<ringVars, call, answers, next, pstate, agg, mstate>>

FreshMapPerChunk ==
    agg' = AggregateSelected(Chunk.rows, Chunk.selection, EmptyMap)
Accumulate == agg' = AggregateSelected(Chunk.rows, Chunk.selection, agg)

ConsumerAggregates ==
    /\ cstate = "chunk"
    /\ Chunk.rows # <<>>
    /\ ~(debug /\ AggregatePanics(Chunk.rows, Chunk.selection, agg))
    /\ Accumulate
    /\ cstate' = "pop"
    /\ UNCHANGED <<ringVars, call, answers, next, pstate, mstate>>

(***************************************************************************)
(* The caller: join both threads, in this order; either expect re-raises a *)
(* panic of the thread joined.                                             *)
(***************************************************************************)
JoinProducer ==
    /\ mstate = "joinProducer"
    /\ pstate \in {"done", "panicked"}
    /\ mstate' = IF pstate = "done" THEN "joinConsumer" ELSE "panicked"
    /\ UNCHANGED <<ringVars, call, answers, next, pstate, cstate, agg>>

JoinConsumerIgnoringPanic ==
    /\ mstate = "joinConsumer"
    /\ cstate \in {"done", "panicked"}
    /\ mstate' = "returned"
    /\ answers' = {agg}
    /\ UNCHANGED <<ringVars, call, next, pstate, cstate, agg>>

JoinConsumer ==
    /\ mstate = "joinConsumer"
    /\ cstate \in {"done", "panicked"}
    /\ IF cstate = "done"
       THEN mstate' = "returned" /\ answers' = {agg}
       ELSE mstate' = "panicked" /\ UNCHANGED answers
    /\ UNCHANGED <<ringVars, call, next, pstate, cstate, agg>>

IndexPropagates ==
    /\ Ring!HeadReachesProducer \/ Ring!TailReachesConsumer
    /\ UNCHANGED <<call, answers, next, pstate, cstate, agg, mstate>>

-----------------------------------------------------------------------------
\* Until a panic aborts the process.
Running == mstate # "aborted"

Producer ==
    Running /\ (\/ ProducerPanics \/ ProducerSeesRoom
                \/ ProducerPush \/ ProducerWrites \/ ProducerPublishes)
Consumer ==
    Running /\ (\/ ConsumerPops \/ ConsumerTakes
                \/ ConsumerStops \/ ConsumerPanics \/ ConsumerAggregates)
Caller == JoinProducer \/ JoinConsumer

Next == Producer \/ Consumer \/ Caller \/ (Running /\ IndexPropagates)

Spec == Init /\ [][Next]_vars

(***************************************************************************)
(* The operating system schedules every thread that is not blocked in      *)
(* join, and a store becomes visible to the other thread in a finite time. *)
(***************************************************************************)
Fairness ==
    /\ WF_vars(Producer)
    /\ WF_vars(Consumer)
    /\ WF_vars(Caller)
    /\ WF_vars(Running /\ IndexPropagates)

FairSpec == Spec /\ Fairness

-----------------------------------------------------------------------------
TypeOK ==
    /\ Ring!TypeOK
    /\ input \in Inputs /\ debug \in BOOLEAN
    /\ next \in 1 .. Len(input) + 1
    /\ pstate \in {"wait", "push", "pushing", "done", "panicked"}
    /\ (pstate = "pushing") = (ppc # "idle")
    /\ cstate \in {"pop", "chunk", "done", "panicked"}
    /\ \A k \in DOMAIN agg : InRange(agg[k])
    /\ mstate \in {"joinProducer", "joinConsumer", "returned", "panicked", "aborted"}

(***************************************************************************)
(* "Once we observe len < capacity the push is guaranteed to succeed":     *)
(* whatever the consumer does between the producer's len() and its push,   *)
(* the push is not refused, and no debug_assert!(_ok) fires: the producer  *)
(* panics at an oversized batch only.                                      *)
(***************************************************************************)
PushNeverRefused ==
    /\ pstate = "push" => ~Ring!Full
    /\ pstate = "panicked" => NextPanics

(***************************************************************************)
(* Nothing is skipped, repeated or half-applied on the way: what the       *)
(* consumer has aggregated is the query's answer over exactly the batches  *)
(* whose chunks it has taken.                                              *)
(***************************************************************************)
AggregatedPrefix ==
    LET taken == Len(rcvd) - (IF cstate \in {"chunk", "panicked"} THEN 1 ELSE 0)
        batches == IF taken > Len(input) THEN Len(input) ELSE taken
    IN  agg = Answer(SubSeq(input, 1, batches))

Q == INSTANCE Query

(***************************************************************************)
(* execute_pipelined returns at most once, and with the query's answer,    *)
(* also when one of its threads has panicked.                              *)
(***************************************************************************)
ImplementsQuery == Q!Spec

(***************************************************************************)
(* Every call ends, and as it should: neither thread waits for the other   *)
(* for ever.  It returns, unless the naive engine's sums overflow with     *)
(* overflow checks on, or a batch is too long for its bitmap; then the     *)
(* panic reaches the caller, through expect, or ends the process.          *)
(***************************************************************************)
Ending ==
    IF Oversized(input) /\ ~debug THEN "aborted"
    ELSE IF debug /\ (Oversized(input) \/ Overflows(input)) THEN "panicked"
    ELSE "returned"

EveryCallEnds == <>(mstate = Ending)

\* The result of execute_pipelined is that of the naive engine.
MatchesNaive == answers \subseteq {Naive(input)}

(***************************************************************************)
(* A panic of the consumer (an overflowing sum in a build with overflow    *)
(* checks) reaches the caller through expect("consumer thread panicked").  *)
(***************************************************************************)
ConsumerPanicReported == cstate = "panicked" ~> mstate = "panicked"

(***************************************************************************)
(* With overflow checks on, an answer that is returned is exact: no sum    *)
(* has wrapped.                                                            *)
(***************************************************************************)
AnswerExact ==
    debug => \A m \in answers : \A k \in DOMAIN m : m[k] = ExactSum(input, k)
=============================================================================
