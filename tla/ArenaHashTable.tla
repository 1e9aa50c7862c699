--------------------------- MODULE ArenaHashTable ---------------------------
(***************************************************************************)
(* The open-addressing table of src/engine/arena_agg.rs, probe by probe,   *)
(* and the aggregation built on it: one table per batch, filled by         *)
(* aggregate_selected_arena, and merge_arena_tables over all of them.      *)
(* The hash of a key is an arbitrary function of the key.                  *)
(***************************************************************************)
EXTENDS GroupBy

CONSTANTS Inputs,
          Key,           \* the keys, u32
          EmptyKey,      \* EMPTY_KEY
          Requests,      \* the arguments of ArenaHashTable::new
          DebugBuild     \* debug_assert! and overflow checks are on

ASSUME ArenaAssumption ==
    /\ Key \subseteq Nat /\ EmptyKey \in Key
    /\ Requests \subseteq Nat \ {0}
    /\ DebugBuild \in BOOLEAN
    /\ \A t \in Inputs : t \in Seq(Seq([key : Key, val : -IntBound .. IntBound - 1]))

\* A selection comes in a bitmap, which has no bits beyond BATCH_SIZE.
ASSUME SelectionAssumption == \A t \in Inputs : ~Oversized(t)

\* (requested_capacity * 4).div_ceil(3)
MinSlotsFor(r) == (r * 4 + 2) \div 3

PowersOfTwo[n \in Nat] == IF n = 0 THEN 1 ELSE 2 * PowersOfTwo[n - 1]

IsPowerOfTwo(c) == \E n \in 0 .. c : c = PowersOfTwo[n]

VARIABLES input, answers,
          requested,   \* the capacity asked for
          hash,     \* hash_key(key) & mask
          table,    \* the table being filled
          tables,   \* the tables filled before it
          row,      \* aggregate_selected_arena's position in batch Len(tables) + 1
          idx,      \* insert_or_add's position in the table
          pc        \* "scan", "probe", "returned" or "panicked"

callVars == <<input, requested, hash>>
vars == <<callVars, answers, table, tables, row, idx, pc>>

NextPowerOfTwo(m) == Min({c \in m .. 2 * m : IsPowerOfTwo(c)})

UnpaddedCapacity == NextPowerOfTwo(requested)
Capacity == NextPowerOfTwo(MinSlotsFor(requested))

Slot == 0 .. Capacity - 1

-----------------------------------------------------------------------------
NewTable == [keys |-> [s \in Slot |-> EmptyKey],
             vals |-> [s \in Slot |-> 0],
             occupied |-> [s \in Slot |-> FALSE],
             len |-> 0]

Init ==
    /\ input \in Inputs
    /\ answers = {}
    /\ requested \in Requests
    /\ hash \in [Key -> Slot]
    /\ table = NewTable
    /\ tables = <<>>
    /\ row = 1
    /\ idx = 0
    /\ pc = "scan"

Batch == input[Len(tables) + 1]

Scanning == pc = "scan" /\ Len(tables) < Len(input)

\* A row that is not selected is skipped.
SkipRow ==
    /\ Scanning
    /\ row \in DOMAIN Batch \ EvaluatePredicate(Batch)
    /\ row' = row + 1
    /\ UNCHANGED <<callVars, answers, table, tables, idx, pc>>

\* insert_or_add(key, value) begins.
BeginInsert ==
    /\ Scanning
    /\ row \in EvaluatePredicate(Batch)
    /\ IF DebugBuild /\ Batch[row].key = EmptyKey
       THEN pc' = "panicked" /\ UNCHANGED idx
       ELSE pc' = "probe" /\ idx' = hash[Batch[row].key]
    /\ UNCHANGED <<callVars, answers, table, tables, row>>

Free == ~table.occupied[idx]

InsertKeepsLen ==
    /\ pc = "probe"
    /\ Free
    /\ table' = [table EXCEPT !.keys[idx] = Batch[row].key,
                              !.vals[idx] = Batch[row].val,
                              !.occupied[idx] = TRUE]
    /\ row' = row + 1
    /\ pc' = "scan"
    /\ UNCHANGED <<callVars, answers, tables, idx>>

InsertHere ==
    /\ pc = "probe"
    /\ Free
    /\ table' = [table EXCEPT !.keys[idx] = Batch[row].key,
                              !.vals[idx] = Batch[row].val,
                              !.occupied[idx] = TRUE,
                              !.len = @ + 1]
    /\ row' = row + 1
    /\ pc' = "scan"
    /\ UNCHANGED <<callVars, answers, tables, idx>>

AccumulateReplaces ==
    /\ pc = "probe"
    /\ ~Free
    /\ table.keys[idx] = Batch[row].key
    /\ table' = [table EXCEPT !.vals[idx] = Batch[row].val]
    /\ row' = row + 1
    /\ pc' = "scan"
    /\ UNCHANGED <<callVars, answers, tables, idx>>

Accumulate ==
    /\ pc = "probe"
    /\ ~Free
    /\ table.keys[idx] = Batch[row].key
    /\ IF DebugBuild /\ ~InRange(table.vals[idx] + Batch[row].val)
       THEN pc' = "panicked" /\ UNCHANGED <<table, row>>
       ELSE /\ table' = [table EXCEPT !.vals[idx] = Wrap(@ + Batch[row].val)]
            /\ row' = row + 1
            /\ pc' = "scan"
    /\ UNCHANGED <<callVars, answers, tables, idx>>

StepByTwo == (idx + 2) % Capacity
NextSlot == (idx + 1) % Capacity

Collide ==
    /\ pc = "probe"
    /\ ~Free
    /\ table.keys[idx] # Batch[row].key
    /\ idx' = NextSlot
    /\ UNCHANGED <<callVars, answers, table, tables, row, pc>>

\* The batch is done; the next one gets a table of its own.
FinishTable ==
    /\ Scanning
    /\ row > Len(Batch)
    /\ tables' = Append(tables, table)
    /\ table' = NewTable
    /\ row' = 1
    /\ UNCHANGED <<callVars, answers, idx, pc>>

\* merge_arena_tables: every occupied slot of every table is added in, table
\* by table.
Entries == {e \in (DOMAIN tables) \X Slot : tables[e[1]].occupied[e[2]]}

KeyOf(e) == tables[e[1]].keys[e[2]]

\* What the first n tables hold for k.
SumOfFirst(n, k) ==
    SumFunctionOnSet([e \in Entries |-> tables[e[1]].vals[e[2]]],
                     {e \in Entries : e[1] <= n /\ KeyOf(e) = k})

MergeArenaTables ==
    [k \in {KeyOf(e) : e \in Entries} |-> Wrap(SumOfFirst(Len(tables), k))]

\* With overflow checks, some addition of merge_arena_tables panics.
ArenaMergePanics == \E e \in Entries : ~InRange(SumOfFirst(e[1], KeyOf(e)))

Merge ==
    /\ pc = "scan"
    /\ Len(tables) = Len(input)
    /\ IF DebugBuild /\ ArenaMergePanics
       THEN pc' = "panicked" /\ UNCHANGED answers
       ELSE pc' = "returned" /\ answers' = {MergeArenaTables}
    /\ UNCHANGED <<callVars, table, tables, row, idx>>

Next ==
    \/ SkipRow \/ BeginInsert
    \/ InsertHere \/ Accumulate \/ Collide
    \/ FinishTable \/ Merge

Spec == Init /\ [][Next]_vars

\* The thread that aggregates keeps running.
FairSpec == Spec /\ WF_vars(Next)

-----------------------------------------------------------------------------
TypeOK ==
    /\ input \in Inputs
    /\ requested \in Requests
    /\ hash \in [Key -> Slot]
    /\ table \in [keys : [Slot -> Key],
                  vals : [Slot -> -IntBound .. IntBound - 1],
                  occupied : [Slot -> BOOLEAN],
                  len : 0 .. Capacity]
    /\ table.len = Cardinality({s \in Slot : table.occupied[s]})
    /\ row \in Nat
    /\ idx \in Slot
    /\ pc \in {"scan", "probe", "returned", "panicked"}

(***************************************************************************)
(* A key can be found again: it sits in one slot only, and every slot from *)
(* its hash up to that slot, around the end of the table, is occupied, so  *)
(* a probe for it never stops early at a free slot.                        *)
(***************************************************************************)
ProbeChains ==
    \A s \in Slot : table.occupied[s] =>
        /\ \A t \in Slot : table.occupied[t] /\ table.keys[t] = table.keys[s] => t = s
        /\ \E d \in Slot :
             /\ s = (hash[table.keys[s]] + d) % Capacity
             /\ \A e \in 0 .. d : table.occupied[(hash[table.keys[s]] + e) % Capacity]

(***************************************************************************)
(* "Size the internal table to keep load factor <= 0.75": as long as the   *)
(* rows so far have no more keys than the table was asked for, at most     *)
(* three quarters of its slots are occupied and a probe meets a free one.  *)
(***************************************************************************)
KeysSoFar == {Batch[i].key : i \in EvaluatePredicate(Batch) \cap (1 .. row - 1)}

LoadBelowThreeQuarters ==
    Len(tables) < Len(input) /\ Cardinality(KeysSoFar) <= requested =>
        /\ 4 * Cardinality({s \in Slot : table.occupied[s]}) <= 3 * Capacity
        /\ \E s \in Slot : ~table.occupied[s]

Q == INSTANCE Query

(***************************************************************************)
(* The arena-backed aggregation returns once, and with the query's answer, *)
(* for every hash, and also for rows whose key is EMPTY_KEY.               *)
(***************************************************************************)
ImplementsQuery == Q!FairSpec
=============================================================================
