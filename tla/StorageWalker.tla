--------------------------- MODULE StorageWalker ---------------------------
(***************************************************************************)
(* The historical storage walk of debug_storageRangeAt                    *)
(* (core/storage_walker.cpp): StorageWalker::walk_of_storages merges the   *)
(* PlainState cursor (the slots of the account now) with the               *)
(* StorageHistory cursor (per slot, the blocks that changed it, in shards) *)
(* and reads a slot's value at a block from PlainStorageChangeSet;         *)
(* storage_range_at collects what it emits.                                *)
(*                                                                         *)
(* The database is drawn in Init from every history of MaxBlock blocks     *)
(* over the slots Locs of one account (one incarnation), and the tables    *)
(* are derived from it the way the node writes them.  The walk is one      *)
(* action per loop iteration.  A location is a number, NoLoc (0) the empty *)
(* key, which compares below every location as empty bytes do.            *)
(***************************************************************************)
EXTENDS Integers, Sequences, SequencesExt, FiniteSets

CONSTANTS
    Locs,          \* the account's storage locations, numbers > 0
    Values,        \* the non-zero values a slot can hold
    MaxBlock,      \* the history has blocks 1..MaxBlock
    ShardSize,     \* blocks per StorageHistory shard
    MaxResults     \* the max_result arguments (int16_t) tried

ASSUME Locs \subseteq Nat \ {0} /\ 0 \notin Values /\ ShardSize >= 1

NoLoc == 0           \* empty key2
NoWrite == -1        \* a block that does not change a slot
\* The key of a location's last shard (~0ull): above every block queried.
LastShard == MaxBlock + 2

VARIABLES
    writes,        \* block -> location -> the value written, or NoWrite
    plain_state,   \* the PlainState entries of the account, in key order
    storage_history, \* the StorageHistory entries of the account, in key order
    change_sets,   \* PlainStorageChangeSet: block -> location -> prior value
    arg,           \* storage_range_at's block_number, start_location, max_result
    pc,            \* "seek", "walk" (the while loop) or "done"
    ps,            \* ps_skv: position in plain_state, Len + 1 when empty
    sh,            \* sh_skv: position in storage_history, Len + 1 when empty
    h_loc,         \* h_loc
    storage        \* storage_range_at's std::set<StorageItem>: location -> value

db == <<writes, plain_state, storage_history, change_sets>>
vars == <<writes, plain_state, storage_history, change_sets, arg, pc, ps, sh, h_loc, storage>>

-----------------------------------------------------------------------------
(* The database.                                                           *)

\* The value of a slot once blocks 1..b of history w are applied; 0 is no
\* slot.
RECURSIVE ValueIn(_, _, _)
ValueIn(w, b, l) ==
    IF b = 0 THEN 0
    ELSE IF w[b][l] = NoWrite THEN ValueIn(w, b - 1, l) ELSE w[b][l]

ValueAfter(b, l) == ValueIn(writes, b, l)

\* Every history in which each write changes the slot (a change set holds
\* only the slots whose value a block changed).
Histories ==
    {w \in [1..MaxBlock -> [Locs -> {NoWrite, 0} \cup Values]] :
        \A b \in 1..MaxBlock, l \in Locs : w[b][l] # ValueIn(w, b - 1, l)}

Ascending(S) == SetToSortSeq(S, <)

\* The account's PlainState dup-sort entries in location order.
PlainStateOf(w) ==
    LET live == Ascending({l \in Locs : ValueIn(w, MaxBlock, l) # 0})
    IN  [i \in DOMAIN live |-> [loc |-> live[i], value |-> ValueIn(w, MaxBlock, live[i])]]

\* A location's StorageHistory shards: its change blocks in ShardSize chunks,
\* each keyed by its last block, the last one by LastShard.
Shards(w, l) ==
    LET s == Ascending({b \in 1..MaxBlock : w[b][l] # NoWrite})
        n == (Len(s) + ShardSize - 1) \div ShardSize
    IN  [i \in 1..n |->
            LET chunk == SubSeq(s, (i - 1) * ShardSize + 1, IF i = n THEN Len(s) ELSE i * ShardSize)
            IN  [loc |-> l, key |-> IF i = n THEN LastShard ELSE chunk[Len(chunk)],
                 bitmap |-> ToSet(chunk)]]

\* The account's StorageHistory entries in (location, key) order.
StorageHistoryOf(w) == FoldLeft(LAMBDA acc, l : acc \o Shards(w, l), <<>>, Ascending(Locs))

\* PlainStorageChangeSet: per block, the slots it changed with their values
\* before it.
ChangeSetsOf(w) ==
    [b \in 1..MaxBlock |-> [l \in {m \in Locs : w[b][m] # NoWrite} |-> ValueIn(w, b - 1, l)]]

-----------------------------------------------------------------------------
(* The cursors.                                                            *)

\* walk_of_storages runs at block_number + 1: the state after block_number.
WalkBlock == arg.block + 1

PsLive == ps <= Len(plain_state)
ShLive == sh <= Len(storage_history)
ShEmpty == Len(storage_history) + 1
PsKey2 == IF PsLive THEN plain_state[ps].loc ELSE NoLoc
PsValue == IF PsLive THEN plain_state[ps].value ELSE 0
ShKey2(i) == IF i <= Len(storage_history) THEN storage_history[i].loc ELSE NoLoc

\* seek / seek_both to start_location: the first entry at or after it.
SeekFirst(entries) ==
    LET at == {i \in DOMAIN entries : entries[i].loc >= arg.start}
    IN  IF at = {} THEN Len(entries) + 1 ELSE Min(at)

\* next(cursor, number) from position j on: skip shards keyed below number.
RECURSIVE SkipBefore(_, _)
SkipBefore(j, number) ==
    IF j > Len(storage_history) THEN ShEmpty
    ELSE IF storage_history[j].key < number THEN SkipBefore(j + 1, number) ELSE j

\* Seeded fault for HistoryCursorAligned: the loop of next(cursor, number,
\* block, loc) also skips a shard keyed at number.
RECURSIVE AdvanceOrAt(_, _, _)
AdvanceOrAt(j, number, tmp_loc) ==
    IF j > Len(storage_history) THEN ShEmpty
    ELSE IF storage_history[j].loc = tmp_loc \/ storage_history[j].key <= number
         THEN AdvanceOrAt(j + 1, number, tmp_loc) ELSE j

\* The loop of next(cursor, number, block, loc) once it has read position j:
\* go on while the shard is loc's or keyed below number.
RECURSIVE Advance(_, _, _)
Advance(j, number, tmp_loc) ==
    IF j > Len(storage_history) THEN ShEmpty
    ELSE IF storage_history[j].loc = tmp_loc \/ storage_history[j].key < number
         THEN Advance(j + 1, number, tmp_loc) ELSE j

\* Seeded fault for WalkTerminates: the loop condition without
\* tmp_loc == loc, so a shard keyed at or above number is never left.
NextShardNoLoc(i, number, block, loc) ==
    IF loc = NoLoc \/ block >= number THEN ShEmpty ELSE SkipBefore(i + 1, number)

\* next(cursor, number, block, loc) from position i: the default (empty)
\* value when loc is empty, else the first shard of a later location keyed
\* at or above number.
NextShard(i, number, block, loc) ==
    IF loc = NoLoc THEN ShEmpty ELSE Advance(i + 1, number, loc)

\* key1 of an empty cursor is empty bytes: below the account's address.
Cmp ==
    IF PsLive # ShLive THEN (IF PsLive THEN 1 ELSE -1)
    ELSE IF PsKey2 < h_loc THEN -1 ELSE IF PsKey2 = h_loc THEN 0 ELSE 1

\* The loop's two breaks.
Stop == (~PsLive /\ ~ShLive) \/ (PsLive = ShLive /\ PsKey2 = NoLoc /\ h_loc = NoLoc)

\* bitmap::seek on the current shard: its first block at or above the walk's
\* block, 0 if none (an empty sh_skv has no bitmap).
Found ==
    LET later == IF ShLive THEN {b \in storage_history[sh].bitmap : b >= WalkBlock} ELSE {}
    IN  IF later = {} THEN 0 ELSE Min(later)

\* cs_cursor->seek_both(storage_change_key(found, ...), h_loc): the first
\* entry at or after h_loc in the block's change set.  Its value part, 0
\* when it is empty (a deleted slot) or there is no entry.
CsData(found) ==
    LET after == {l \in DOMAIN change_sets[found] : l >= h_loc}
    IN  IF after = {} THEN 0 ELSE change_sets[found][Min(after)]

-----------------------------------------------------------------------------
(* storage_range_at's collector.                                           *)

\* storage.size() <= max_result: the int16_t converts to size_t.
Fits(size, max_result) == max_result < 0 \/ size <= max_result

\* The AccountCollector lambda: addressOk says addr is the account (an empty
\* key1 gives the zero address).  Returns whether to go on, and the set.
Collect(addressOk, loc, data) ==
    IF ~addressOk THEN [go |-> FALSE, st |-> storage]
    ELSE IF data = 0 \/ loc \in DOMAIN storage THEN [go |-> TRUE, st |-> storage]
    ELSE LET st == storage @@ (loc :> data)
         IN  [go |-> Fits(Cardinality(DOMAIN st), arg.max), st |-> st]

\* The collector call of one iteration of the while loop, if any.
Emit(cmp) ==
    IF cmp < 0 THEN Collect(PsLive, PsKey2, PsValue)
    ELSE IF Found # 0
         THEN IF CsData(Found) # 0 THEN Collect(PsLive, PsKey2, CsData(Found))
              ELSE [go |-> TRUE, st |-> storage]
    ELSE IF cmp = 0 THEN Collect(PsLive, PsKey2, PsValue)
    ELSE [go |-> TRUE, st |-> storage]

-----------------------------------------------------------------------------
(* The walk.                                                               *)

Init ==
    /\ writes \in Histories
    /\ plain_state = PlainStateOf(writes)
    /\ storage_history = StorageHistoryOf(writes)
    /\ change_sets = ChangeSetsOf(writes)
    /\ arg \in [block : 0..MaxBlock, start : Locs, max : MaxResults]
    /\ pc = "seek"
    /\ ps = 1 /\ sh = 1 /\ h_loc = NoLoc
    /\ storage = <<>>

\* storage_range_at reads the account, then walk_of_storages seeks both
\* cursors to start_location and reads h_loc and block from the first shard.
\* If that shard is keyed below the block, next(cursor, number) moves on;
\* h_loc keeps the first shard's location.  (With no shard, block is read
\* from empty bytes; either way sh_skv stays empty.)
Seek ==
    LET s0 == SeekFirst(storage_history)
    IN  /\ pc = "seek"
        /\ ps' = SeekFirst(plain_state)
        /\ h_loc' = ShKey2(s0)
        /\ sh' = IF ShKey2(s0) # NoLoc /\ storage_history[s0].key < WalkBlock
                 THEN SkipBefore(s0 + 1, WalkBlock) ELSE s0
        /\ pc' = "walk"
        /\ UNCHANGED <<db, arg, storage>>

\* One iteration of the while loop: compare the cursors, hand the
\* collector the plain value or the change-set value, then advance the
\* plain-state cursor (cmp <= 0) and / or the history cursor (cmp >= 0).
Iterate ==
    /\ pc = "walk"
    /\ ~Stop
    /\ LET cmp == Cmp
           e == Emit(cmp)
           block == IF ShLive THEN storage_history[sh].key ELSE 0
           next == NextShard(sh, WalkBlock, block, h_loc)
       IN  /\ storage' = e.st
           /\ IF e.go
              THEN /\ ps' = IF cmp <= 0 THEN ps + 1 ELSE ps
                   /\ sh' = IF cmp >= 0 THEN next ELSE sh
                   /\ h_loc' = IF cmp >= 0 THEN ShKey2(next) ELSE h_loc
                   /\ pc' = "walk"
              ELSE /\ pc' = "done"
                   /\ UNCHANGED <<ps, sh, h_loc>>
    /\ UNCHANGED <<db, arg>>

\* The loop breaks: both cursors are empty.
Finish ==
    /\ pc = "walk"
    /\ Stop
    /\ pc' = "done"
    /\ UNCHANGED <<db, arg, ps, sh, h_loc, storage>>

Next == Seek \/ Iterate \/ Finish

\* Every co_await of the walk resumes once the database answers.
Spec == Init /\ [][Next]_vars /\ WF_vars(Next)

-----------------------------------------------------------------------------
(* Properties.                                                             *)

\* The storage at block_number from start_location on: the reference the
\* walk reconstructs.
Historical ==
    LET live == {l \in Locs : l >= arg.start /\ ValueAfter(arg.block, l) # 0}
    IN  [l \in live |-> ValueAfter(arg.block, l)]

\* While the walk runs, sh_skv is the first shard of location h_loc that is
\* keyed at or above the block (so its bitmap holds h_loc's first change at
\* or after the block, if any): what next(cursor, number) and
\* next(cursor, number, block, loc) and h_loc's update must maintain.
HistoryCursorAligned ==
    pc = "walk" /\ ShLive =>
        /\ h_loc = storage_history[sh].loc
        /\ storage_history[sh].key >= WalkBlock
        /\ \A j \in 1..(sh - 1) : storage_history[j].loc = h_loc => storage_history[j].key < WalkBlock

\* The while loop of walk_of_storages ends: every iteration advances a
\* cursor, and the history cursor never runs out before the plain one.
WalkTerminates == <>(pc = "done")

\* Every slot storage_range_at collects holds its value at block_number.
StoredValuesHistorical ==
    \A l \in DOMAIN storage : l \in DOMAIN Historical /\ storage[l] = Historical[l]

\* When the walk ends, storage_range_at holds the first max_result + 1
\* slots of the storage at block_number from start_location on (all of them
\* if max_result is negative).
RangeMatchesHistory ==
    pc = "done" =>
        LET ls == Ascending(DOMAIN Historical)
            k == IF arg.max < 0 \/ arg.max + 1 > Len(ls) THEN Len(ls) ELSE arg.max + 1
        IN  storage = [l \in ToSet(SubSeq(ls, 1, k)) |-> Historical[l]]

=============================================================================
