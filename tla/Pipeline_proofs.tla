--------------------------- MODULE Pipeline_proofs ---------------------------
(***************************************************************************)
(* Theorems about execute_pipelined, for every ring capacity, table and    *)
(* interleaving.  The ring's invariant and theorems are those of           *)
(* SpscRing_proofs, for the chunks of the calls.                           *)
(***************************************************************************)
EXTENDS Pipeline, GroupBy_proofs

RP == INSTANCE SpscRing_proofs WITH Item <- Chunks, MaxPush <- MaxBatches + 1

ChunkAt(i) == IF i = Len(input) + 1 THEN Sentinel ELSE ChunkOf(input[i])

(***************************************************************************)
(* The inductive invariant.  What has been pushed are the first chunks in  *)
(* order, and the room the producer saw is still there; what has been      *)
(* popped is a prefix of that, and aggregated but for the chunk in hand.   *)
(***************************************************************************)
ProducerInv ==
    /\ next \in 1 .. Len(input) + 1
    /\ pstate \in {"wait", "push", "pushing", "done", "panicked"}
    /\ (pstate = "pushing") = (ppc # "idle")
    /\ pstate = "pushing" => pItem = NextChunk
    /\ pstate = "push" => tail - headVis < CAP
    /\ pstate = "panicked" => NextPanics
    /\ pstate = "done" => AtSentinel
    /\ tail = IF pstate = "done" THEN next ELSE next - 1
    /\ \A i \in 1 .. tail : sent[i] = ChunkAt(i)

Taken == head - (IF cstate \in {"chunk", "panicked"} THEN 1 ELSE 0)

RowsOfFirst(n) == {p \in PassingRows(input) : p[1] <= n}

ConsumerInv ==
    /\ cstate \in {"pop", "chunk", "done", "panicked"}
    /\ cpc # "idle" => cstate = "pop"
    /\ \A i \in 1 .. head : rcvd[i] = ChunkAt(i)
    /\ cstate # "pop" => head > 0
    /\ cstate = "done" => Chunk.rows = <<>>
    /\ agg = AnswerOver(input, RowsOfFirst(Taken))
    /\ debug => Exact(input, RowsOfFirst(Taken))

CallerInv ==
    /\ mstate \in {"joinProducer", "joinConsumer", "returned", "panicked", "aborted"}
    /\ mstate \in {"joinConsumer", "returned"} => pstate = "done"
    /\ IF mstate = "returned" THEN cstate = "done" /\ answers = {agg} ELSE answers = {}

PInv ==
    /\ input \in Inputs /\ debug \in BOOLEAN
    /\ RP!IInv
    /\ ProducerInv
    /\ ConsumerInv
    /\ CallerInv

-----------------------------------------------------------------------------
(***************************************************************************)
(* The ring.                                                               *)
(***************************************************************************)
\* The ring's assumptions hold of the pipeline's chunks.
LEMMA RingAssumptions ==
    CAP \in Nat \ {0} /\ (\E n \in 0 .. CAP : CAP = 2^n)
    /\ MaxBatches + 1 \in Nat /\ Uninit \notin Chunks
  BY PipelineAssumption, RingAssumption

\* The ring in the pipeline and the ring of the proofs are the same module.
LEMMA SameRing ==
    /\ Ring!Init <=> RP!Init
    /\ Ring!Next <=> RP!Next
    /\ UNCHANGED Ring!vars <=> UNCHANGED RP!vars
    /\ Ring!RaceFree <=> RP!RaceFree
<1>1. Ring!Init <=> RP!Init
  BY DEF Ring!Init, RP!Init, Ring!Slot, RP!Slot
<1>2. Ring!Next <=> RP!Next
  BY DEF Ring!Next, RP!Next, Ring!Producer, RP!Producer, Ring!Pop, RP!Pop,
         Ring!Push, RP!Push, Ring!PushRefused, RP!PushRefused,
         Ring!PushAdmitted, RP!PushAdmitted, Ring!PushWrite, RP!PushWrite,
         Ring!PushPublish, RP!PushPublish, Ring!Full, RP!Full,
         Ring!LoadHead, RP!LoadHead, Ring!LoadTail, RP!LoadTail, Ring!Empty, RP!Empty,
         Ring!consumerVars, RP!consumerVars, Ring!producerVars, RP!producerVars,
         Ring!PopRefused, RP!PopRefused, Ring!PopAdmitted, RP!PopAdmitted,
         Ring!PopRead, RP!PopRead, Ring!PopFree, RP!PopFree,
         Ring!HeadReachesProducer, RP!HeadReachesProducer,
         Ring!TailReachesConsumer, RP!TailReachesConsumer, Ring!SlotOf, RP!SlotOf
<1>3. UNCHANGED Ring!vars <=> UNCHANGED RP!vars
  BY DEF Ring!vars, RP!vars, Ring!consumerVars, RP!consumerVars,
         Ring!producerVars, RP!producerVars
<1>4. Ring!RaceFree <=> RP!RaceFree
  BY DEF Ring!RaceFree, RP!RaceFree, Ring!Reads, RP!Reads, Ring!Writes, RP!Writes,
         Ring!SlotOf, RP!SlotOf
<1> QED
  BY <1>1, <1>2, <1>3, <1>4

\* The ring starts in its invariant.
LEMMA RingInit == Ring!Init => RP!IInv
  BY RP!InitIInv, SameRing, RingAssumptions

\* A step of the ring keeps the ring's invariant.
LEMMA RingStep == RP!IInv /\ [Ring!Next]_(Ring!vars) => RP!IInv'
<1>1. RP!IInv /\ [RP!Next]_(RP!vars) => RP!IInv'
  BY RP!NextIInv, RingAssumptions
<1>2. [Ring!Next]_(Ring!vars) <=> [RP!Next]_(RP!vars)
  BY SameRing
<1> QED
  BY <1>1, <1>2

\* What the ring's invariant says of its indices and histories.
LEMMA RingFacts ==
    ASSUME RP!IInv
    PROVE  /\ head \in Nat /\ headVis \in Nat /\ tail \in Nat /\ tailVis \in Nat
           /\ headVis <= head /\ head <= tail
           /\ Len(sent) = tail /\ Len(rcvd) = head
           /\ sent \in Seq(Chunks) /\ rcvd \in Seq(Chunks)
           /\ cpc = "free" => head < tail /\ cItem = sent[head + 1]
           /\ cpc \in {"idle", "read", "free"} /\ ppc \in {"idle", "write", "publish"}
  BY DEF RP!IInv, RP!TypeOK, RP!ViewsOrdered, RP!HistoryMatches, RP!UnreadIntact

\* The input is a table with a bounded number of batches.
LEMMA InputFacts ==
    ASSUME PInv
    PROVE  /\ IsTable(input) /\ Len(input) \in Nat /\ Len(input) <= MaxBatches
           /\ DOMAIN input = 1 .. Len(input)
  BY PipelineAssumption DEF PInv, IsTable

\* What the producer pushes next: the chunk of batch next, or the sentinel.
LEMMA NextChunkIsAt == PInv => NextChunk = ChunkAt(next) /\ NextChunk \in Chunks
<1> SUFFICES ASSUME PInv PROVE NextChunk = ChunkAt(next) /\ NextChunk \in Chunks
  OBVIOUS
<1>1. CASE AtSentinel
  BY <1>1 DEF NextChunk, ChunkAt, AtSentinel, Chunks
<1>2. CASE ~AtSentinel
  <2>1. next \in DOMAIN input /\ next # Len(input) + 1
    BY <1>2, InputFacts DEF PInv, ProducerInv, AtSentinel
  <2> QED
    BY <1>2, <2>1 DEF NextChunk, ChunkAt, Chunks, PInv
<1> QED
  BY <1>1, <1>2

(***************************************************************************)
(* The threads use the ring as its own specification allows: one producer, *)
(* one consumer, and no more pushes than there are chunks.                 *)
(***************************************************************************)
LEMMA NextIsRingStep ==
    ASSUME PInv, [Next]_vars
    PROVE  [Ring!Next]_(Ring!vars)
<1> USE DEF Ring!Next, Ring!Pop
<1>1. CASE ProducerPush
  <2>1. ~Ring!Full
    BY <1>1, RingFacts, RingAssumptions DEF ProducerPush, PInv, ProducerInv, Ring!Full
  <2>2. Ring!PushAdmitted(NextChunk)
    BY <1>1, <2>1 DEF ProducerPush
  <2>3. tail < MaxBatches + 1
    BY <1>1, InputFacts, PipelineAssumption DEF ProducerPush, PInv, ProducerInv
  <2> QED
    BY <2>2, <2>3, NextChunkIsAt DEF Ring!Producer, Ring!Push
<1>2. CASE ProducerWrites \/ ProducerPublishes
  BY <1>2 DEF ProducerWrites, ProducerPublishes, Ring!Producer, Ring!Push,
              Ring!PushWrite, Ring!PushPublish
<1>3. CASE ConsumerPops \/ ConsumerTakes
  BY <1>3 DEF ConsumerPops, ConsumerTakes
<1>4. CASE IndexPropagates
  BY <1>4 DEF IndexPropagates
<1>5. CASE \/ ProducerPanics \/ ProducerSeesRoom \/ ConsumerStops \/ ConsumerPanics
           \/ ConsumerAggregates \/ JoinProducer \/ JoinConsumer \/ UNCHANGED vars
  <2>1. UNCHANGED ringVars
    BY <1>5 DEF ProducerPanics, ProducerSeesRoom, ConsumerStops, ConsumerPanics,
                ConsumerAggregates, JoinProducer, JoinConsumer, vars
  <2> QED
    BY <2>1 DEF ringVars, Ring!vars, Ring!producerVars, Ring!consumerVars
<1> QED
  BY <1>1, <1>2, <1>3, <1>4, <1>5 DEF Next, Producer, Consumer, Caller

-----------------------------------------------------------------------------
(***************************************************************************)
(* What each part of the invariant depends on.                             *)
(***************************************************************************)
\* The producer's part only speaks of its own state and of what was sent.
LEMMA ProducerInvKept ==
    ASSUME ProducerInv, UNCHANGED <<input, next, pstate, ppc, pItem, tail, headVis, sent>>
    PROVE  ProducerInv'
  BY DEF ProducerInv, NextChunk, ChunkAt, AtSentinel, NextPanics

\* A step that leaves the consumer's state alone keeps its part.
LEMMA ConsumerInvKept ==
    ASSUME ConsumerInv, UNCHANGED <<input, debug, cstate, cpc, head, rcvd, agg>>
    PROVE  ConsumerInv'
  BY DEF ConsumerInv, ChunkAt, Chunk, Taken, RowsOfFirst

\* A step that ends no thread and no join keeps the caller's part.
LEMMA CallerInvKept ==
    ASSUME CallerInv, UNCHANGED <<mstate, answers>>,
           pstate = "done" => pstate' = "done",
           cstate = "done" => cstate' = "done" /\ agg' = agg
    PROVE  CallerInv'
  BY DEF CallerInv

(***************************************************************************)
(* The rows of the first batches.                                          *)
(***************************************************************************)
LEMMA FirstRows ==
    ASSUME PInv, NEW n \in Nat
    PROVE  /\ RowsOfFirst(n) \in SUBSET Rows(input)
           /\ RowsOfFirst(0) = {}
           /\ \A p \in RowsOfFirst(n) : p[1] # n + 1
           /\ RowsOfFirst(n + 1) = RowsOfFirst(n) \cup PassingOf(input, n + 1)
           /\ n >= Len(input) => RowsOfFirst(n) = PassingRows(input)
<1>1. \A p \in PassingRows(input) : p \in Rows(input) /\ p[1] \in 1 .. Len(input)
  BY InputFacts, RowFacts DEF PassingRows
<1>2. Len(input) \in Nat
  BY InputFacts
<1> QED
  BY <1>1, <1>2 DEF RowsOfFirst, PassingOf

\* A chunk without rows adds nothing.
LEMMA EmptyBatch ==
    ASSUME PInv, NEW n \in Nat, ChunkAt(n).rows = <<>>
    PROVE  PassingOf(input, n) = {}
<1> SUFFICES ASSUME NEW p \in PassingOf(input, n)
             PROVE  FALSE
  OBVIOUS
<1>1. p \in Rows(input) /\ p[1] = n
  BY DEF PassingOf, PassingRows
<1>2. n \in DOMAIN input /\ p[2] \in DOMAIN input[n]
  BY <1>1, InputFacts, RowFacts
<1>3. n # Len(input) + 1
  BY <1>2, InputFacts
<1>4. input[n] = <<>>
  BY <1>3 DEF ChunkAt, ChunkOf
<1> QED
  BY <1>2, <1>4

-----------------------------------------------------------------------------
\* The invariant holds initially.
LEMMA InitPInv == Init => PInv
<1> SUFFICES ASSUME Init
             PROVE  PInv
  OBVIOUS
<1>1. RP!IInv
  BY RingInit DEF Init
<1>2. /\ head = 0 /\ tail = 0 /\ headVis = 0 /\ cpc = "idle" /\ ppc = "idle"
  BY DEF Init, Ring!Init
<1>3. input \in Inputs /\ debug \in BOOLEAN
  BY PipelineAssumption DEF Init, Inputs
<1>4. IsTable(input) /\ Len(input) \in Nat
  BY <1>3, PipelineAssumption DEF IsTable
<1>5. ProducerInv
  BY <1>2, <1>4, RingAssumptions DEF Init, ProducerInv, AtSentinel
<1>6. RowsOfFirst(Taken) = {}
  <2>1. \A p \in PassingRows(input) : p[1] \in 1 .. Len(input)
    BY <1>4, RowFacts DEF PassingRows, IsTable
  <2> QED
    BY <1>2, <1>4, <2>1 DEF Init, RowsOfFirst, Taken
<1>7. Exact(input, {})
  <2>1. \A k : SumOver(input, {}, k) = 0
    BY <1>4, SumOverFacts DEF KeysOver
  <2> QED
    BY <2>1, IntBoundAssumption DEF Exact, InRange
<1>8. ConsumerInv
  BY <1>2, <1>6, <1>7, OverNothing DEF Init, ConsumerInv
<1>9. CallerInv
  BY DEF Init, CallerInv
<1> QED
  BY <1>1, <1>3, <1>5, <1>8, <1>9 DEF PInv


-----------------------------------------------------------------------------
(***************************************************************************)
(* The producer's steps.                                                   *)
(***************************************************************************)
\* The producer panics in evaluate_predicate.
LEMMA ProducerPanicsPInv ==
    ASSUME PInv, RP!IInv', Running, ProducerPanics
    PROVE  PInv'
<1> USE DEF PInv, ProducerPanics, ringVars, call
<1>1. ProducerInv'
  BY DEF ProducerInv, NextChunk, ChunkAt, AtSentinel, NextPanics
<1>2. ConsumerInv'
  BY ConsumerInvKept
<1>3. CallerInv'
  BY DEF CallerInv, Running
<1> QED
  BY <1>1, <1>2, <1>3

\* The producer leaves its wait for room.
LEMMA ProducerSeesRoomPInv ==
    ASSUME PInv, RP!IInv', ProducerSeesRoom
    PROVE  PInv'
<1> USE DEF PInv, ProducerSeesRoom, ringVars, call
<1>1. ProducerInv'
  BY DEF ProducerInv, NextChunk, ChunkAt, AtSentinel, NextPanics, SeesRoom,
         Ring!ProducerLen
<1>2. ConsumerInv'
  BY ConsumerInvKept
<1>3. CallerInv'
  BY CallerInvKept
<1> QED
  BY <1>1, <1>2, <1>3

\* The room that len() showed is still there: a consumer only makes more.
LEMMA PushIsAdmitted ==
    ASSUME PInv, pstate = "push"
    PROVE  ~Ring!Full
  BY RingFacts, RingAssumptions DEF PInv, ProducerInv, Ring!Full

\* It calls push, which sees the room too.
LEMMA ProducerPushPInv ==
    ASSUME PInv, RP!IInv', ProducerPush
    PROVE  PInv'
<1> USE DEF PInv, call
<1>1. Ring!PushAdmitted(NextChunk) /\ pstate' = "pushing" /\ UNCHANGED next
  BY PushIsAdmitted DEF ProducerPush
<1>2. /\ pstate = "push" /\ ppc' = "write" /\ pItem' = NextChunk
      /\ UNCHANGED <<tail, headVis, sent, head, cpc, rcvd>>
      /\ UNCHANGED <<input, debug, answers, cstate, agg, mstate>>
  BY <1>1 DEF ProducerPush, Ring!PushAdmitted, Ring!consumerVars
<1>3. ProducerInv'
  BY <1>1, <1>2 DEF ProducerInv, NextChunk, ChunkAt, AtSentinel, NextPanics
<1>4. ConsumerInv'
  BY <1>2, ConsumerInvKept
<1>5. CallerInv'
  BY <1>2, CallerInvKept
<1> QED
  BY <1>2, <1>3, <1>4, <1>5

\* push writes the slot.
LEMMA ProducerWritesPInv ==
    ASSUME PInv, RP!IInv', ProducerWrites
    PROVE  PInv'
<1> USE DEF PInv, call
<1>1. /\ ppc = "write" /\ ppc' = "publish"
      /\ UNCHANGED <<pItem, tail, headVis, sent, head, cpc, rcvd>>
      /\ UNCHANGED <<input, debug, answers, next, pstate, cstate, agg, mstate>>
  BY DEF ProducerWrites, Ring!PushWrite, Ring!consumerVars
<1>2. ProducerInv'
  BY <1>1 DEF ProducerInv, NextChunk, ChunkAt, AtSentinel, NextPanics
<1>3. ConsumerInv'
  BY <1>1, ConsumerInvKept
<1>4. CallerInv'
  BY <1>1, CallerInvKept
<1> QED
  BY <1>1, <1>2, <1>3, <1>4

\* push publishes tail: the chunk is sent, and the producer goes on to the
\* next batch, the sentinel, or its end.
LEMMA ProducerPublishesPInv ==
    ASSUME PInv, RP!IInv', ProducerPublishes
    PROVE  PInv'
<1> USE DEF PInv, call
<1>1. /\ ppc = "publish" /\ ppc' = "idle" /\ tail' = tail + 1 /\ sent' = Append(sent, pItem)
      /\ UNCHANGED <<headVis, head, cpc, rcvd>>
      /\ UNCHANGED <<input, debug, answers, cstate, agg, mstate>>
      /\ Advance
  BY DEF ProducerPublishes, Ring!PushPublish, Ring!consumerVars
<1>2. pstate = "pushing" /\ pItem = ChunkAt(next)
  BY <1>1, NextChunkIsAt DEF ProducerInv
<1>3. next \in 1 .. Len(input) + 1 /\ Len(input) \in Nat /\ tail = next - 1
  BY <1>2, InputFacts DEF ProducerInv
<1>4. sent \in Seq(Chunks) /\ Len(sent) = tail /\ tail \in Nat
  BY RingFacts
<1>5. pItem \in Chunks
  BY <1>2, NextChunkIsAt
<1>6. \A i \in 1 .. tail' : sent'[i] = ChunkAt(i)'
  <2> SUFFICES ASSUME NEW i \in 1 .. tail'
               PROVE  sent'[i] = ChunkAt(i)'
    OBVIOUS
  <2>1. ChunkAt(i)' = ChunkAt(i)
    BY <1>1 DEF ChunkAt
  <2>2. CASE i = tail + 1
    <3>1. sent'[i] = pItem
      BY <1>1, <1>4, <1>5, <2>2
    <3> QED
      BY <1>2, <1>3, <2>1, <2>2, <3>1
  <2>3. CASE i # tail + 1
    <3>1. i \in 1 .. tail
      BY <1>1, <1>4, <2>3
    <3>2. sent'[i] = sent[i]
      BY <1>1, <1>4, <1>5, <3>1
    <3> QED
      BY <2>1, <3>1, <3>2 DEF ProducerInv
  <2> QED
    BY <2>2, <2>3
<1>7. ProducerInv'
  <2>1. CASE AtSentinel
    <3>1. pstate' = "done" /\ next' = next /\ AtSentinel' /\ ppc' = "idle"
      BY <1>1, <2>1 DEF Advance, AtSentinel
    <3>2. tail' = next' /\ next' \in 1 .. Len(input') + 1
      BY <1>1, <1>3, <3>1
    <3> HIDE DEF PInv
    <3> QED
      BY <1>6, <3>1, <3>2 DEF ProducerInv
  <2>2. CASE ~AtSentinel
    <3>1. pstate' = "wait" /\ next' = next + 1 /\ ppc' = "idle"
      BY <1>1, <2>2 DEF Advance
    <3>2. tail' = next' - 1 /\ next' \in 1 .. Len(input') + 1
      BY <1>1, <1>3, <2>2, <3>1 DEF AtSentinel
    <3> HIDE DEF PInv
    <3> QED
      BY <1>6, <3>1, <3>2 DEF ProducerInv
  <2> QED
    BY <2>1, <2>2
<1>8. ConsumerInv'
  BY <1>1, ConsumerInvKept
<1>9. CallerInv'
  BY <1>1, <1>2, CallerInvKept
<1> QED
  BY <1>1, <1>7, <1>8, <1>9

(***************************************************************************)
(* The consumer's steps.                                                   *)
(***************************************************************************)
LEMMA ConsumerPopsPInv ==
    ASSUME PInv, RP!IInv', ConsumerPops
    PROVE  PInv'
<1> USE DEF PInv, call
<1>1. /\ cstate = "pop"
      /\ UNCHANGED <<pItem, ppc, tail, headVis, sent, head, rcvd>>
      /\ UNCHANGED <<input, debug, answers, next, pstate, cstate, agg, mstate>>
  BY DEF ConsumerPops, Ring!PopRefused, Ring!PopAdmitted, Ring!PopRead, Ring!producerVars
<1>2. ProducerInv'
  BY <1>1, ProducerInvKept
<1>3. ConsumerInv'
  BY <1>1 DEF ConsumerInv, ChunkAt, Chunk, Taken, RowsOfFirst
<1>4. CallerInv'
  BY <1>1, CallerInvKept
<1> QED
  BY <1>1, <1>2, <1>3, <1>4

\* The consumer has the popped chunk in hand.
LEMMA ConsumerTakesPInv ==
    ASSUME PInv, RP!IInv', ConsumerTakes
    PROVE  PInv'
<1> USE DEF PInv, call
<1>1. /\ cpc = "free" /\ cpc' = "idle" /\ head' = head + 1 /\ rcvd' = Append(rcvd, cItem)
      /\ cstate = "pop" /\ cstate' = "chunk"
      /\ UNCHANGED <<pItem, ppc, tail, headVis, sent>>
      /\ UNCHANGED <<input, debug, answers, next, pstate, agg, mstate>>
  BY DEF ConsumerTakes, Ring!PopFree, Ring!producerVars
<1>2. /\ head < tail /\ cItem = sent[head + 1] /\ rcvd \in Seq(Chunks)
      /\ Len(rcvd) = head /\ head \in Nat /\ tail \in Nat
      /\ sent \in Seq(Chunks) /\ Len(sent) = tail
  BY <1>1, RingFacts
<1>3. cItem = ChunkAt(head + 1) /\ cItem \in Chunks
  BY <1>2 DEF ProducerInv
<1>4. ProducerInv'
  BY <1>1, ProducerInvKept
<1>5. \A i \in 1 .. head' : rcvd'[i] = ChunkAt(i)'
  <2> SUFFICES ASSUME NEW i \in 1 .. head'
               PROVE  rcvd'[i] = ChunkAt(i)'
    OBVIOUS
  <2>1. ChunkAt(i)' = ChunkAt(i)
    BY <1>1 DEF ChunkAt
  <2>2. CASE i = head + 1
    <3>1. rcvd'[i] = cItem
      BY <1>1, <1>2, <1>3, <2>2
    <3> QED
      BY <1>3, <2>1, <2>2, <3>1
  <2>3. CASE i # head + 1
    <3>1. i \in 1 .. head
      BY <1>1, <1>2, <2>3
    <3>2. rcvd'[i] = rcvd[i]
      BY <1>1, <1>2, <1>3, <3>1
    <3> QED
      BY <2>1, <3>1, <3>2 DEF ConsumerInv
  <2> QED
    BY <2>2, <2>3
<1>6. Taken' = Taken
  BY <1>1, <1>2 DEF Taken
<1>7. RowsOfFirst(Taken)' = RowsOfFirst(Taken)
  BY <1>1, <1>6 DEF RowsOfFirst
<1>8. ConsumerInv'
  BY <1>1, <1>2, <1>5, <1>7 DEF ConsumerInv
<1>9. CallerInv'
  BY <1>1, CallerInvKept
<1> QED
  BY <1>1, <1>4, <1>8, <1>9

\* The chunk in hand.
LEMMA ChunkInHand ==
    ASSUME PInv, cstate \in {"chunk", "panicked", "done"}
    PROVE  /\ head \in Nat \ {0} /\ head - 1 \in Nat /\ head <= Len(input) + 1
           /\ Chunk = ChunkAt(head)
  <1>1. /\ Len(rcvd) = head /\ head \in Nat /\ head <= tail /\ tail \in Nat
    BY RingFacts DEF PInv
  <1>2. tail <= Len(input) + 1
    BY InputFacts DEF PInv, ProducerInv, AtSentinel
  <1> QED
    BY <1>1, <1>2, InputFacts DEF PInv, ConsumerInv, Chunk

\* An empty chunk ends the consumer's loop.
LEMMA ConsumerStopsPInv ==
    ASSUME PInv, RP!IInv', ConsumerStops
    PROVE  PInv'
<1> USE DEF PInv, call
<1>1. /\ cstate = "chunk" /\ cstate' = "done" /\ Chunk.rows = <<>>
      /\ UNCHANGED <<pItem, ppc, cpc, tail, headVis, sent, head, rcvd>>
      /\ UNCHANGED <<input, debug, answers, next, pstate, agg, mstate>>
  BY DEF ConsumerStops, ringVars
<1>2. head \in Nat \ {0} /\ head - 1 \in Nat /\ Chunk = ChunkAt(head) /\ (head - 1) + 1 = head
  BY <1>1, ChunkInHand
<1>3. Taken = head - 1 /\ Taken' = head
  BY <1>1, <1>2 DEF Taken
<1>4. RowsOfFirst(head) = RowsOfFirst(head - 1)
  BY <1>1, <1>2, FirstRows, EmptyBatch
<1>5. RowsOfFirst(Taken)' = RowsOfFirst(Taken)
  BY <1>1, <1>3, <1>4 DEF RowsOfFirst
<1>6. ProducerInv'
  BY <1>1, ProducerInvKept
<1>7. ConsumerInv'
  BY <1>1, <1>2, <1>5 DEF ConsumerInv, Chunk, ChunkAt
<1>8. CallerInv'
  BY <1>1, CallerInvKept
<1> QED
  BY <1>1, <1>6, <1>7, <1>8

\* An overflow ends the consumer in a debug build.
LEMMA ConsumerPanicsPInv ==
    ASSUME PInv, RP!IInv', ConsumerPanics
    PROVE  PInv'
<1> USE DEF PInv, call
<1>1. /\ cstate = "chunk" /\ cstate' = "panicked"
      /\ UNCHANGED <<pItem, ppc, cpc, tail, headVis, sent, head, rcvd>>
      /\ UNCHANGED <<input, debug, answers, next, pstate, agg, mstate>>
  BY DEF ConsumerPanics, ringVars
<1>2. Taken' = Taken
  BY <1>1 DEF Taken
<1>3. RowsOfFirst(Taken)' = RowsOfFirst(Taken)
  BY <1>1, <1>2 DEF RowsOfFirst
<1>4. ProducerInv'
  BY <1>1, ProducerInvKept
<1>5. ConsumerInv'
  BY <1>1, <1>3 DEF ConsumerInv, ChunkAt
<1>6. CallerInv'
  BY <1>1, CallerInvKept
<1> QED
  BY <1>1, <1>4, <1>5, <1>6

\* A chunk with rows is aggregated: one more batch in the map.
LEMMA ConsumerAggregatesPInv ==
    ASSUME PInv, RP!IInv', ConsumerAggregates
    PROVE  PInv'
<1> USE DEF PInv, call
<1>1. /\ cstate = "chunk" /\ cstate' = "pop" /\ Chunk.rows # <<>>
      /\ UNCHANGED <<pItem, ppc, cpc, tail, headVis, sent, head, rcvd>>
      /\ UNCHANGED <<input, debug, answers, next, pstate, mstate>>
      /\ agg' = AggregateSelected(Chunk.rows, Chunk.selection, agg)
      /\ debug => ~AggregatePanics(Chunk.rows, Chunk.selection, agg)
  BY DEF ConsumerAggregates, Accumulate, ringVars
<1>2. /\ head \in Nat \ {0} /\ head - 1 \in Nat /\ Chunk = ChunkAt(head)
      /\ (head - 1) + 1 = head /\ head <= Len(input) + 1
  BY <1>1, ChunkInHand
<1>3. Taken = head - 1 /\ Taken' = head
  BY <1>1, <1>2 DEF Taken
<1>4. head # Len(input) + 1
  BY <1>1, <1>2 DEF ChunkAt, Sentinel
<1>5. head \in DOMAIN input
  BY <1>2, <1>4, InputFacts
<1>6. Chunk.rows = input[head] /\ Chunk.selection = EvaluatePredicate(input[head])
  BY <1>2, <1>4 DEF ChunkAt, ChunkOf
<1>7. /\ RowsOfFirst(head - 1) \in SUBSET Rows(input)
      /\ \A p \in RowsOfFirst(head - 1) : p[1] # head
      /\ RowsOfFirst(head) = RowsOfFirst(head - 1) \cup PassingOf(input, head)
  BY <1>2, FirstRows
<1>8. agg = AnswerOver(input, RowsOfFirst(head - 1))
  BY <1>3 DEF ConsumerInv
<1>9. agg' = AnswerOver(input, RowsOfFirst(head))
  <2>1. agg' = LateBatch(agg, input[head])
    BY <1>1, <1>6 DEF LateBatch
  <2> QED
    BY <1>5, <1>7, <1>8, <2>1, InputFacts, LateAdds
<1>10. ASSUME debug PROVE Exact(input, RowsOfFirst(head))
  <2>1. Exact(input, RowsOfFirst(head - 1))
    BY <1>3, <1>10 DEF ConsumerInv
  <2>2. ~AggregatePanics(input[head], EvaluatePredicate(input[head]), agg)
    BY <1>1, <1>6, <1>10
  <2> QED
    BY <1>5, <1>7, <1>8, <2>1, <2>2, InputFacts, StaysExact
<1>11. RowsOfFirst(Taken)' = RowsOfFirst(head)
  BY <1>1, <1>3 DEF RowsOfFirst
<1>12. ProducerInv'
  BY <1>1, ProducerInvKept
<1>13. ConsumerInv'
  BY <1>1, <1>9, <1>10, <1>11 DEF ConsumerInv, ChunkAt
<1>14. CallerInv'
  BY <1>1, CallerInvKept
<1> QED
  BY <1>1, <1>12, <1>13, <1>14

(***************************************************************************)
(* The caller's steps, and the propagation of the indices.                 *)
(***************************************************************************)
LEMMA CallerPInv ==
    ASSUME PInv, RP!IInv', JoinProducer \/ JoinConsumer
    PROVE  PInv'
<1> USE DEF PInv, call
<1>1. /\ UNCHANGED <<pItem, ppc, cpc, tail, headVis, sent, head, rcvd>>
      /\ UNCHANGED <<input, debug, next, pstate, cstate, agg>>
  BY DEF JoinProducer, JoinConsumer, ringVars
<1>2. ProducerInv'
  BY <1>1, ProducerInvKept
<1>3. ConsumerInv'
  BY <1>1, ConsumerInvKept
<1>4. CallerInv'
  BY <1>1 DEF CallerInv, JoinProducer, JoinConsumer
<1> QED
  BY <1>1, <1>2, <1>3, <1>4

\* A fresher view of head shows no less room.
LEMMA StillRoom ==
    ASSUME NEW t \in Nat, NEW old \in Nat, NEW new \in Nat, NEW c \in Nat,
           t - old < c, new >= old
    PROVE  t - new < c
  OBVIOUS

\* A view of an index gets fresher.
LEMMA IndexPropagatesPInv ==
    ASSUME PInv, RP!IInv', IndexPropagates
    PROVE  PInv'
<1> USE DEF PInv, call
<1>1. /\ UNCHANGED <<pItem, ppc, cpc, tail, sent, head, rcvd>>
      /\ UNCHANGED <<input, debug, answers, next, pstate, cstate, agg, mstate>>
      /\ headVis' = headVis \/ headVis' \in headVis + 1 .. head
  BY DEF IndexPropagates, Ring!HeadReachesProducer, Ring!TailReachesConsumer,
         Ring!producerVars, Ring!consumerVars
<1>2. headVis' \in Nat /\ headVis' >= headVis
  BY <1>1, RingFacts
<1>3. pstate = "push" => tail - headVis' < CAP
  <2>1. CAP \in Nat /\ tail \in Nat /\ headVis \in Nat
    BY RingFacts, RingAssumptions
  <2>2. pstate = "push" => tail - headVis < CAP
    BY DEF ProducerInv
  <2> HIDE DEF PInv
  <2> QED
    BY <1>2, <2>1, <2>2, StillRoom
<1>4. ProducerInv'
  BY <1>1, <1>3 DEF ProducerInv, NextChunk, ChunkAt, AtSentinel, NextPanics
<1>5. ConsumerInv'
  BY <1>1, ConsumerInvKept
<1>6. CallerInv'
  BY <1>1, CallerInvKept
<1> QED
  BY <1>1, <1>4, <1>5, <1>6

\* A stuttering step.
LEMMA StutterPInv == PInv /\ RP!IInv' /\ UNCHANGED vars => PInv'
<1> SUFFICES ASSUME PInv, RP!IInv', UNCHANGED vars
             PROVE  PInv'
  OBVIOUS
<1>1. UNCHANGED <<pItem, ppc, cpc, tail, headVis, sent, head, rcvd>>
      /\ UNCHANGED <<input, debug, answers, next, pstate, cstate, agg, mstate>>
  BY DEF vars, ringVars, call
<1> QED
  BY <1>1, ProducerInvKept, ConsumerInvKept, CallerInvKept DEF PInv

\* Every step keeps the invariant.
LEMMA NextPInv == PInv /\ [Next]_vars => PInv'
<1> SUFFICES ASSUME PInv, [Next]_vars
             PROVE  PInv'
  OBVIOUS
<1>1. RP!IInv'
  BY NextIsRingStep, RingStep DEF PInv
<1>2. CASE Producer
  BY <1>1, <1>2, ProducerPanicsPInv, ProducerSeesRoomPInv, ProducerPushPInv,
     ProducerWritesPInv, ProducerPublishesPInv DEF Producer
<1>3. CASE Consumer
  BY <1>1, <1>3, ConsumerPopsPInv, ConsumerTakesPInv, ConsumerStopsPInv,
     ConsumerPanicsPInv, ConsumerAggregatesPInv DEF Consumer
<1>4. CASE Caller
  BY <1>1, <1>4, CallerPInv DEF Caller
<1>5. CASE Running /\ IndexPropagates
  BY <1>1, <1>5, IndexPropagatesPInv
<1>6. CASE UNCHANGED vars
  BY <1>1, <1>6, StutterPInv
<1> QED
  BY <1>2, <1>3, <1>4, <1>5, <1>6 DEF Next

(***************************************************************************)
(* The invariant holds in every reachable state.                           *)
(***************************************************************************)
THEOREM Invariant == Spec => []PInv
<1>1. PInv /\ [Next]_vars => PInv'
  BY NextPInv
<1> QED
  BY <1>1, InitPInv, PTL DEF Spec

(***************************************************************************)
(* Type correctness.                                                       *)
(***************************************************************************)
THEOREM TypeCorrect == Spec => []TypeOK
<1>1. PInv => TypeOK
  <2> SUFFICES ASSUME PInv
               PROVE  TypeOK
    OBVIOUS
  <2>1. Ring!TypeOK
    BY DEF PInv, RP!IInv, RP!TypeOK, Ring!TypeOK, RP!Slot, Ring!Slot
  <2>2. \A k \in DOMAIN agg : InRange(agg[k])
    <3>1. Taken \in Nat
      BY RingFacts DEF PInv, ConsumerInv, Taken
    <3>2. agg \in HashMaps
      BY <3>1, InputFacts, FirstRows, OverInHashMaps DEF PInv, ConsumerInv
    <3> QED
      BY <3>2 DEF HashMaps, InRange
  <2> QED
    BY <2>1, <2>2 DEF TypeOK, PInv, ProducerInv, ConsumerInv, CallerInv
<1> QED
  BY <1>1, Invariant, PTL

(***************************************************************************)
(* execute_pipelined uses the ring as the ring's specification allows it   *)
(* to be used: one thread pushes, one pops.                                *)
(***************************************************************************)
THEOREM RingUsedAsSpecified == Spec => Ring!Spec
<1>1. Init => Ring!Init
  BY DEF Init
<1>2. PInv /\ [Next]_vars => [Ring!Next]_(Ring!vars)
  BY NextIsRingStep
<1> QED
  BY <1>1, <1>2, Invariant, PTL DEF Spec, Ring!Spec

(***************************************************************************)
(* No data race on a slot of the ring, while a query runs.                 *)
(***************************************************************************)
THEOREM SlotsRaceFree == Spec => []Ring!RaceFree
<1>1. RP!Spec => []RP!RaceFree
  BY RP!NoDataRace, RingAssumptions
<1>2. /\ Ring!RaceFree <=> RP!RaceFree
      /\ Ring!Init <=> RP!Init
      /\ [Ring!Next]_(Ring!vars) <=> [RP!Next]_(RP!vars)
  BY SameRing
<1> QED
  BY <1>1, <1>2, RingUsedAsSpecified, PTL DEF Ring!Spec, RP!Spec

(***************************************************************************)
(* A push that len() has shown room for is not refused, and the producer   *)
(* panics at an oversized batch only.                                      *)
(***************************************************************************)
THEOREM PushAdmitted == Spec => []PushNeverRefused
<1>1. PInv => PushNeverRefused
  BY PushIsAdmitted DEF PushNeverRefused, PInv, ProducerInv
<1> QED
  BY <1>1, Invariant, PTL

-----------------------------------------------------------------------------
(***************************************************************************)
(* The batches whose chunks the consumer has taken.                        *)
(***************************************************************************)
\* The answer over the rows of the first batches is the answer of that prefix.
LEMMA RowsOfPrefix ==
    ASSUME PInv, NEW n \in Nat, n <= Len(input)
    PROVE  AnswerOver(input, RowsOfFirst(n)) = Answer(SubSeq(input, 1, n))
<1> DEFINE u == SubSeq(input, 1, n)
<1>1. IsTable(input) /\ Len(input) \in Nat
  BY InputFacts
<1>2. IsTable(u) /\ Len(u) = n /\ \A i \in 1 .. n : u[i] = input[i]
  BY <1>1 DEF IsTable
<1>3. DOMAIN u = 1 .. n /\ DOMAIN input = 1 .. Len(input)
  BY <1>1, <1>2 DEF IsTable
<1> HIDE DEF u
<1>4. \A r \in Rows(u) : r \in Rows(input) /\ RowAt(u, r) = RowAt(input, r)
  <2> SUFFICES ASSUME NEW r \in Rows(u)
               PROVE  r \in Rows(input) /\ RowAt(u, r) = RowAt(input, r)
    OBVIOUS
  <2>1. r = <<r[1], r[2]>> /\ r[1] \in DOMAIN u /\ r[2] \in DOMAIN u[r[1]]
    BY <1>2, RowFacts
  <2>2. r[1] \in DOMAIN input /\ u[r[1]] = input[r[1]]
    BY <1>2, <1>3, <2>1
  <2> QED
    BY <2>1, <2>2, RowIn DEF RowAt
<1>5. PassingRows(u) = RowsOfFirst(n)
  <2>1. \A r : r \in PassingRows(u) => r \in RowsOfFirst(n)
    <3> SUFFICES ASSUME NEW r \in PassingRows(u)
                 PROVE  r \in RowsOfFirst(n)
      OBVIOUS
    <3>1. r \in Rows(u) /\ Passes(RowAt(u, r))
      BY DEF PassingRows
    <3>2. r[1] \in 1 .. n
      BY <1>2, <1>3, <3>1, RowFacts
    <3> QED
      BY <1>4, <3>1, <3>2 DEF RowsOfFirst, PassingRows
  <2>2. \A r : r \in RowsOfFirst(n) => r \in PassingRows(u)
    <3> SUFFICES ASSUME NEW r \in RowsOfFirst(n)
                 PROVE  r \in PassingRows(u)
      OBVIOUS
    <3>1. r \in Rows(input) /\ Passes(RowAt(input, r)) /\ r[1] <= n
      BY DEF RowsOfFirst, PassingRows
    <3>2. /\ r = <<r[1], r[2]>> /\ r[1] \in DOMAIN input /\ r[2] \in DOMAIN input[r[1]]
      BY <1>1, <3>1, RowFacts
    <3>3. r[1] \in DOMAIN u /\ u[r[1]] = input[r[1]]
      BY <1>2, <1>3, <3>1, <3>2
    <3>4. r \in Rows(u)
      BY <3>2, <3>3, RowIn
    <3> QED
      BY <1>4, <3>1, <3>4 DEF PassingRows
  <2> QED
    BY <2>1, <2>2
<1> QED
  BY <1>1, <1>2, <1>4, <1>5, PartOfTable DEF u

\* Behind the last batch there are no more rows to take.
LEMMA TakenRows ==
    ASSUME PInv
    PROVE  /\ Taken \in Nat
           /\ Taken > Len(input) => RowsOfFirst(Taken) = RowsOfFirst(Len(input))
<1>1. Taken \in Nat
  BY RingFacts DEF PInv, ConsumerInv, Taken
<1>2. Len(input) \in Nat
  BY InputFacts
<1> QED
  BY <1>1, <1>2, FirstRows

(***************************************************************************)
(* What the consumer has aggregated is the query's answer over the batches *)
(* whose chunks it has taken, with every row of theirs once.               *)
(***************************************************************************)
THEOREM PrefixAggregated == Spec => []AggregatedPrefix
<1>1. PInv => AggregatedPrefix
  <2> SUFFICES ASSUME PInv
               PROVE  AggregatedPrefix
    OBVIOUS
  <2> DEFINE batches == IF Taken > Len(input) THEN Len(input) ELSE Taken
  <2>1. batches \in Nat /\ batches <= Len(input)
    BY TakenRows, InputFacts
  <2>2. RowsOfFirst(Taken) = RowsOfFirst(batches)
    BY TakenRows
  <2>3. agg = AnswerOver(input, RowsOfFirst(batches))
    BY <2>2 DEF PInv, ConsumerInv
  <2> HIDE DEF batches
  <2>4. agg = Answer(SubSeq(input, 1, batches))
    BY <2>1, <2>3, RowsOfPrefix
  <2>5. Len(rcvd) = head
    BY RingFacts DEF PInv
  <2> QED
    BY <2>4, <2>5 DEF batches, AggregatedPrefix, Taken
<1> QED
  BY <1>1, Invariant, PTL

(***************************************************************************)
(* A table without an empty batch is aggregated whole before the consumer  *)
(* stops.  (An empty batch is a chunk without rows: it ends the stream.)   *)
(***************************************************************************)
NoEmptyBatch == \A t \in Inputs : \A b \in DOMAIN t : t[b] # <<>>

\* If no batch is without rows, the consumer stops at the sentinel only, and
\* has every passing row.
LEMMA StopsAtSentinel ==
    ASSUME NoEmptyBatch, PInv, cstate = "done"
    PROVE  RowsOfFirst(Taken) = PassingRows(input)
<1>1. /\ head \in Nat \ {0} /\ head <= Len(input) + 1 /\ Chunk = ChunkAt(head)
  BY ChunkInHand
<1>2. Chunk.rows = <<>> /\ Taken = head
  BY <1>1 DEF PInv, ConsumerInv, Taken
<1>3. head = Len(input) + 1
  <2> SUFFICES ASSUME head # Len(input) + 1
               PROVE  FALSE
    OBVIOUS
  <2>1. head \in DOMAIN input
    BY <1>1, InputFacts
  <2>2. input[head] = <<>>
    BY <1>1, <1>2 DEF ChunkAt, ChunkOf
  <2> QED
    BY <2>1, <2>2 DEF NoEmptyBatch, PInv
<1>4. Taken \in Nat /\ Taken >= Len(input)
  BY <1>2, <1>3, InputFacts
<1> QED
  BY <1>4, FirstRows

\* Then its map is the answer.
LEMMA AggIsAnswer ==
    ASSUME NoEmptyBatch, PInv, cstate = "done"
    PROVE  agg = Answer(input)
  BY StopsAtSentinel, AnswerIsOver DEF PInv, ConsumerInv

(***************************************************************************)
(* With overflow checks on, an answer that is returned is exact.           *)
(***************************************************************************)
THEOREM ReturnsExact == ASSUME NoEmptyBatch PROVE Spec => []AnswerExact
<1>1. PInv => AnswerExact
  <2> SUFFICES ASSUME PInv, debug, NEW m \in answers, NEW k \in DOMAIN m
               PROVE  m[k] = ExactSum(input, k)
    BY DEF AnswerExact
  <2>1. cstate = "done" /\ m = agg
    BY DEF PInv, CallerInv
  <2>2. m = Answer(input) /\ Exact(input, PassingRows(input))
    BY <2>1, AggIsAnswer, StopsAtSentinel DEF PInv, ConsumerInv
  <2>3. SumOver(input, PassingRows(input), k) = ExactSum(input, k)
    BY DEF SumOver, Vals, ExactSum
  <2>4. InRange(ExactSum(input, k)) /\ ExactSum(input, k) \in Int
    BY <2>2, <2>3 DEF Exact, InRange
  <2> QED
    BY <2>2, <2>4, WrapFits DEF Answer
<1> QED
  BY <1>1, Invariant, PTL

\* The abstract query's answer is the pipeline's.
LEMMA SameAnswer == \A t : Q!Answer(t) = Answer(t)
  BY DEF Q!Answer, Q!Groups, Q!ExactSum, Q!PassingRows, Q!Rows, Q!RowAt, Q!Passes, Q!Wrap,
         Q!SumFunctionOnSet, Q!FoldFunctionOnSet, Q!MapThenFoldSet,
         Answer, Groups, ExactSum, PassingRows, Rows, RowAt, Passes, Wrap,
         SumFunctionOnSet, FoldFunctionOnSet, MapThenFoldSet

(***************************************************************************)
(* execute_pipelined implements the query: it returns at most once, and    *)
(* then with the query's answer, whatever the interleaving of its threads  *)
(* and whichever of them panics.                                           *)
(***************************************************************************)
THEOREM Refinement == ASSUME NoEmptyBatch PROVE Spec => ImplementsQuery
<1>1. Init => Q!Init
  BY DEF Init, Q!Init, Inputs
<1>2. PInv /\ [Next]_vars => [Q!Return]_(Q!vars)
  <2> SUFFICES ASSUME PInv, [Next]_vars, ~UNCHANGED Q!vars
               PROVE  Q!Return
    OBVIOUS
  <2>1. JoinConsumer /\ answers' # answers
    BY DEF Next, Producer, Consumer, Caller, ProducerPanics, ProducerSeesRoom, ProducerPush,
           ProducerWrites, ProducerPublishes, ConsumerPops, ConsumerTakes, ConsumerStops,
           ConsumerPanics, ConsumerAggregates, JoinProducer, JoinConsumer, IndexPropagates,
           call, vars, Q!vars
  <2>2. cstate = "done" /\ answers' = {agg} /\ input' = input /\ mstate = "joinConsumer"
    BY <2>1 DEF JoinConsumer, call
  <2>3. answers = {}
    BY <2>2 DEF PInv, CallerInv
  <2> QED
    BY <2>2, <2>3, AggIsAnswer, SameAnswer DEF Q!Return
<1> QED
  BY <1>1, <1>2, Invariant, PTL DEF Spec, ImplementsQuery, Q!Spec
=============================================================================
