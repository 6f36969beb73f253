----------------------------- MODULE StateCache -----------------------------
(***************************************************************************)
(* The coherent state cache of silkrpc (CoherentStateCache, ethdb/kv/     *)
(* state_cache.cpp), read through CachedDatabase::get_one (ethdb/kv/      *)
(* cached_database.cpp) by request coroutines and fed by the state-change *)
(* subscription task, together with the remote node that commits views   *)
(* and streams one change batch per view.                                  *)
(*                                                                         *)
(* Concurrency follows the code: every coroutine runs on one io_context   *)
(* thread (its context); a std::shared_mutex guards the roots and the     *)
(* eviction lists; a coroutine that blocks on the mutex blocks its whole  *)
(* thread, so no other coroutine of that context runs until it gets it.   *)
(* A coroutine is "running" while it is inside a synchronous segment that *)
(* acquires or works under the mutex; it is suspended while it awaits a   *)
(* remote reply.                                                           *)
(***************************************************************************)
EXTENDS Integers, Sequences, FiniteSets, SequencesExt

CONSTANTS
    Readers,        \* request coroutines that read PlainState / Code
    Contexts,       \* io_context threads of the context pool
    ReaderCtx,      \* [Readers -> Contexts]: the context each request runs on
    SubscriberCtx,  \* the context the state-change subscription runs on
    Accounts,       \* account addresses (PlainState keys)
    Locations,      \* storage locations; storage keys are <<address, location>>
    CodeBytes,      \* contract codes
    Keccak,         \* [CodeBytes -> code hashes], injective
    Vals,           \* non-empty account / storage values
    Empty,          \* the empty byte string: absent value or tombstone
    NotCached,      \* marks a key that a root's map does not hold
    NoValue,        \* a reader that has not produced a value yet
    MaxViews, MaxStateKeys, MaxCodeKeys, WithStorage,  \* CoherentCacheConfig
    FirstView,      \* view of the node when the model starts
    MaxView,        \* last view the node commits (bound)
    MaxBatchChanges,\* account changes per batch (bound)
    InitialDb,      \* node state at FirstView
    LossyStream,    \* the subscription stream may break and lose batches
    EmptyBatches,   \* the node may send a batch without any block
    WarmStart       \* the cache has already applied the batch of FirstView

Codes == {Keccak[c] : c \in CodeBytes}
StorageKeys == Accounts \X Locations
Keys == Accounts \cup StorageKeys \cup Codes
Tables == {"PlainState", "Code"}
Views == FirstView..MaxView
Value == Vals \cup CodeBytes \cup {Empty}
Subscriber == "subscriber"
Procs == Readers \cup {Subscriber}

\* Keys a request reads through CachedDatabase::get_one: accounts from
\* PlainState, code hashes from Code (storage is read with get_both_range,
\* which bypasses the cache).
ReadKeys(t) == IF t = "PlainState" THEN Accounts ELSE Codes
MaxKeys(t) == IF t = "PlainState" THEN MaxStateKeys ELSE MaxCodeKeys

ASSUME /\ MaxViews \in Nat \ {0}
       /\ FirstView \in Nat \ {0} /\ MaxView >= FirstView
       /\ ReaderCtx \in [Readers -> Contexts] /\ SubscriberCtx \in Contexts
       /\ InitialDb \in [Tables -> [Keys -> Value]]

\* An account change of remote::StateChangeBatch, one record per action.
Change ==
         [action: {"UPSERT"}, address: Accounts, data: Vals]
    \cup [action: {"UPSERT_CODE"}, address: Accounts, data: Vals, code: CodeBytes]
    \cup [action: {"REMOVE"}, address: Accounts]
    \cup [action: {"STORAGE"}, address: Accounts, location: Locations, data: Vals]
    \cup [action: {"CODE"}, address: Accounts, code: CodeBytes]

BatchChanges == UNION {[1..n -> Change] : n \in 1..MaxBatchChanges}
Batch == [view: Views, empty: BOOLEAN, changes: Seq(Change)]

EmptyCache == [t \in Tables |-> [k \in Keys |-> NotCached]]
\* A CoherentStateRoot as get_root creates it.
NewRoot == [cache |-> EmptyCache, ready |-> FALSE, canonical |-> FALSE]

VARIABLES
    db, dbView, stream,                        \* remote node and subscription stream
    roots, latest, evictions, shared,          \* CoherentStateCache and its mutex
    subPc, subBatch,                           \* subscription task
    pc, txView, table, key, result, rootLost   \* request coroutines

node == <<db, dbView, stream>>
cache == <<roots, latest, evictions, shared>>
sub == <<subPc, subBatch>>
req == <<pc, txView, table, key, result, rootLost>>
vars == <<node, cache, sub, req>>

-----------------------------------------------------------------------------
(* Threads and the shared_mutex.                                           *)

Ctx(p) == IF p = Subscriber THEN SubscriberCtx ELSE ReaderCtx[p]
\* Segments in which a coroutine holds its thread: waiting for the mutex or
\* working under it.
RunningPcs == {"gv_lock", "get_lock", "lru_push", "add_lock"}
Running(p) == IF p = Subscriber THEN subPc = "lock" ELSE pc[p] \in RunningPcs
\* A suspended coroutine resumes only when no other coroutine holds its thread.
Runnable(p) == \A q \in Procs \ {p} : Ctx(q) = Ctx(p) => ~Running(q)
\* Exclusive owners release the mutex within the step that acquired it, so the
\* mutex is free for a writer exactly when no coroutine holds it shared.
ExclusiveFree == shared = {}

CachedKeys(c) == {k \in Keys : c[k] # NotCached}

-----------------------------------------------------------------------------
(* The remote node (Erigon): what a committed change does to its tables.   *)

DbApply(s, c) ==
    CASE c.action = "UPSERT" -> [s EXCEPT !["PlainState"][c.address] = c.data]
      [] c.action = "UPSERT_CODE" ->
            [s EXCEPT !["PlainState"][c.address] = c.data,
                      !["Code"][Keccak[c.code]] = c.code]
      [] c.action = "REMOVE" -> [s EXCEPT !["PlainState"][c.address] = Empty]
      [] c.action = "STORAGE" ->
            [s EXCEPT !["PlainState"][<<c.address, c.location>>] = c.data]
      [] c.action = "CODE" -> [s EXCEPT !["Code"][Keccak[c.code]] = c.code]

-----------------------------------------------------------------------------
(* CoherentStateCache helpers.  A cache state st is a record holding the   *)
(* maps of one root and the two eviction lists (most recent first).        *)

\* Seeded fault for CacheCoherent: std::set::insert alone, which keeps the
\* old entry of a key already present.
InsertNoReplace(c, t, k, v) == IF c[t][k] = NotCached THEN [c EXCEPT ![t][k] = v] ELSE c

\* cache.insert, and for a key already present erase and insert again.
Insert(c, t, k, v) == [c EXCEPT ![t][k] = v]

\* add / add_code: insert or replace the entry, and on the latest view keep
\* the eviction list and drop its oldest entry beyond the configured size.
Add(t, k, v, st, latestId, view) ==
    LET inserted == st.cache[t][k] = NotCached
        c1 == Insert(st.cache, t, k, v)
        ev1 == <<k>> \o (IF inserted THEN st.ev[t] ELSE Remove(st.ev[t], k))
        oldest == ev1[Len(ev1)]
    IN  IF latestId # view THEN [st EXCEPT !.cache = c1]
        ELSE IF Len(ev1) > MaxKeys(t)
             THEN [cache |-> [c1 EXCEPT ![t][oldest] = NotCached],
                   ev |-> [st.ev EXCEPT ![t] = Front(ev1)]]
             ELSE [cache |-> c1, ev |-> [st.ev EXCEPT ![t] = ev1]]

\* The switch of on_new_block over one account change.
ProcessChange(st, c, view) ==
    CASE c.action = "UPSERT" -> Add("PlainState", c.address, c.data, st, view, view)
      [] c.action = "UPSERT_CODE" ->
            Add("Code", Keccak[c.code], c.code,
                Add("PlainState", c.address, c.data, st, view, view), view, view)
      [] c.action = "REMOVE" -> Add("PlainState", c.address, Empty, st, view, view)
      [] c.action = "STORAGE" ->
            IF WithStorage
            THEN Add("PlainState", <<c.address, c.location>>, c.data, st, view, view)
            ELSE st
      [] c.action = "CODE" -> Add("Code", Keccak[c.code], c.code, st, view, view)

\* Eviction list rebuilt from a root's map by push_front in std::set order;
\* keys are model values, SetToSeq fixes one order standing for key order.
Rebuilt(m) == Reverse(SetToSeq(CachedKeys(m)))

\* Seeded fault for RootsDroppedOnlyWhenOld: the bound is one view newer.
MaxViewIdToDeleteOver(latestId) ==
    IF latestId + 1 >= MaxViews THEN latestId + 2 - MaxViews ELSE MaxView + 1

\* latest_state_view_id_ - max_views + 1 computed in uint64_t: when it
\* wraps, the result exceeds every view id the model reaches.
MaxViewIdToDelete(latestId) ==
    IF latestId + 1 >= MaxViews THEN latestId + 1 - MaxViews ELSE MaxView + 1

\* evict_roots: drop old roots once there are more than max_views of them.
EvictRoots(rs, nextView, latestId) ==
    IF Cardinality(DOMAIN rs) <= MaxViews THEN rs
    ELSE IF nextView = 0
         THEN [v \in {nextView} \cap DOMAIN rs |-> rs[v]]
         ELSE [v \in {w \in DOMAIN rs : w > MaxViewIdToDelete(latestId)} |-> rs[v]]

GetRoot(rs, v) == IF v \in DOMAIN rs THEN rs ELSE rs @@ (v :> NewRoot)

-----------------------------------------------------------------------------
(* Initial state: the node at FirstView; the cache either empty (daemon    *)
(* start) or having applied the batch of FirstView.                        *)

Init ==
    /\ db = [v \in Views |-> InitialDb]
    /\ dbView = FirstView
    /\ stream = <<>>
    /\ roots = IF WarmStart
               THEN FirstView :> [NewRoot EXCEPT !.ready = TRUE, !.canonical = TRUE]
               ELSE [v \in {} |-> NewRoot]
    /\ latest = IF WarmStart THEN FirstView ELSE 0
    /\ evictions = [t \in Tables |-> <<>>]
    /\ shared = {}
    /\ subPc = "recv"
    /\ subBatch = [view |-> FirstView, empty |-> TRUE, changes |-> <<>>]
    /\ pc = [r \in Readers |-> "idle"]
    /\ txView = [r \in Readers |-> FirstView]
    /\ table = [r \in Readers |-> "PlainState"]
    /\ key = [r \in Readers |-> CHOOSE a \in Accounts : TRUE]
    /\ result = [r \in Readers |-> NoValue]
    /\ rootLost = [r \in Readers |-> FALSE]

-----------------------------------------------------------------------------
(* Remote node.                                                            *)

\* A commit produces view dbView+1 and streams its change batch.
Commit ==
    /\ dbView < MaxView
    /\ \E cs \in BatchChanges :
          /\ db' = [db EXCEPT ![dbView + 1] = FoldLeft(DbApply, db[dbView], cs)]
          /\ stream' = Append(stream, [view |-> dbView + 1, empty |-> FALSE, changes |-> cs])
    /\ dbView' = dbView + 1
    /\ UNCHANGED <<cache, sub, req>>

\* A new view announced by a batch that carries no block.
CommitEmpty ==
    /\ EmptyBatches /\ dbView < MaxView
    /\ db' = [db EXCEPT ![dbView + 1] = db[dbView]]
    /\ stream' = Append(stream, [view |-> dbView + 1, empty |-> TRUE, changes |-> <<>>])
    /\ dbView' = dbView + 1
    /\ UNCHANGED <<cache, sub, req>>

\* The stream breaks; the batch in flight is lost while the task reconnects.
StreamBreak ==
    /\ LossyStream /\ stream # <<>>
    /\ stream' = Tail(stream)
    /\ UNCHANGED <<db, dbView, cache, sub, req>>

-----------------------------------------------------------------------------
(* State-change subscription task.                                         *)

\* The task reads the next batch; on_new_block skips an empty one.
Recv ==
    /\ subPc = "recv" /\ stream # <<>> /\ Runnable(Subscriber)
    /\ stream' = Tail(stream)
    /\ IF Head(stream).empty
       THEN UNCHANGED sub
       ELSE subPc' = "lock" /\ subBatch' = Head(stream)
    /\ UNCHANGED <<db, dbView, cache, req>>

\* Seeded fault for EvictionsMatchLatest: the eviction lists are kept as they
\* are when the predecessor is not canonical.
AdvanceRootNoRebuild(v) ==
    LET created == GetRoot(roots, v)
        prevCanonical == (v - 1) \in DOMAIN created /\ created[v - 1].canonical
    IN  [roots |-> EvictRoots(created, v, latest),
         start |-> IF prevCanonical THEN created[v - 1].cache ELSE created[v].cache,
         ev |-> evictions]

\* advance_root: get_root, then inherit the maps of a canonical predecessor
\* or rebuild the eviction lists from the root's own maps, mark it canonical,
\* evict_roots, move latest.  Yields the roots kept, the maps the new root
\* starts from (written into it even when evict_roots erased it) and the
\* eviction lists.
AdvanceRoot(v) ==
    LET created == GetRoot(roots, v)
        prevCanonical == (v - 1) \in DOMAIN created /\ created[v - 1].canonical
        start == IF prevCanonical THEN created[v - 1].cache ELSE created[v].cache
    IN  [roots |-> EvictRoots(created, v, latest),
         start |-> start,
         ev |-> IF prevCanonical THEN evictions
                ELSE [t \in Tables |-> Rebuilt(start[t])]]

\* on_new_block under the exclusive lock: advance_root, apply every change
\* of the batch in order, mark the root ready.  Writes into a root that
\* evict_roots has just erased go to freed memory.
OnNewBlock ==
    /\ subPc = "lock" /\ ExclusiveFree
    /\ LET v == subBatch.view
           adv == AdvanceRoot(v)
           final == FoldLeft(LAMBDA st, c : ProcessChange(st, c, v),
                             [cache |-> adv.start, ev |-> adv.ev], subBatch.changes)
       IN /\ roots' = IF v \in DOMAIN adv.roots
                      THEN [adv.roots EXCEPT ![v] = [cache |-> final.cache, ready |-> TRUE,
                                                     canonical |-> TRUE]]
                      ELSE adv.roots
          /\ evictions' = final.ev
          /\ latest' = v
          /\ rootLost' = [r \in Readers |->
                            rootLost[r] \/ (pc[r] \in {"db_wait", "add_lock"}
                                            /\ txView[r] \notin DOMAIN adv.roots)]
    /\ subPc' = "recv"
    /\ UNCHANGED <<node, shared, subBatch, pc, txView, table, key, result>>

-----------------------------------------------------------------------------
(* Request coroutines: CachedDatabase::get_one(PlainState | Code, key)     *)
(* inside a remote transaction.                                            *)

RootCacheOf(r) == IF rootLost[r] THEN EmptyCache ELSE roots[txView[r]].cache

\* Seeded fault for TypeOK: the transaction is given the view after the
\* node's current one.
BeginAhead(r) ==
    /\ pc[r] = "idle" /\ Runnable(r)
    /\ \E t \in Tables, k \in Keys :
          /\ k \in ReadKeys(t)
          /\ table' = [table EXCEPT ![r] = t]
          /\ key' = [key EXCEPT ![r] = k]
    /\ txView' = [txView EXCEPT ![r] = dbView + 1]
    /\ pc' = [pc EXCEPT ![r] = "gv_lock"]
    /\ UNCHANGED <<node, cache, sub, result, rootLost>>

\* The transaction begins at the node's current view; get_one then enters
\* get_view and blocks its thread on the exclusive lock.
Begin(r) ==
    /\ pc[r] = "idle" /\ Runnable(r)
    /\ \E t \in Tables, k \in Keys :
          /\ k \in ReadKeys(t)
          /\ table' = [table EXCEPT ![r] = t]
          /\ key' = [key EXCEPT ![r] = k]
    /\ txView' = [txView EXCEPT ![r] = dbView]
    /\ pc' = [pc EXCEPT ![r] = "gv_lock"]
    /\ UNCHANGED <<node, cache, sub, result, rootLost>>

\* get_view: get_root creates a missing root; only a ready root yields a
\* view, otherwise get_one reads the transaction directly.
GetView(r) ==
    /\ pc[r] = "gv_lock" /\ ExclusiveFree
    /\ roots' = GetRoot(roots, txView[r])
    /\ pc' = [pc EXCEPT ![r] = IF roots'[txView[r]].ready THEN "get_lock" ELSE "db_direct"]
    /\ UNCHANGED <<node, latest, evictions, shared, sub, txView, table, key, result, rootLost>>

\* get / get_code under the shared lock: a missing root answers nullopt
\* (get_one turns it into empty bytes); a hit on the latest view moves the
\* key to the front of the eviction list (remove, then push_front); a miss
\* keeps the shared lock across the remote read.
Lookup(r) ==
    /\ pc[r] = "get_lock"
    /\ LET v == txView[r]
           t == table[r]
       IN \/ /\ v \notin DOMAIN roots
             /\ result' = [result EXCEPT ![r] = Empty]
             /\ pc' = [pc EXCEPT ![r] = "done"]
             /\ UNCHANGED <<evictions, shared>>
          \/ /\ v \in DOMAIN roots /\ roots[v].cache[t][key[r]] # NotCached
             /\ result' = [result EXCEPT ![r] = roots[v].cache[t][key[r]]]
             /\ IF v = latest
                THEN /\ evictions' = [evictions EXCEPT ![t] = Remove(@, key[r])]
                     /\ shared' = shared \cup {r}
                     /\ pc' = [pc EXCEPT ![r] = "lru_push"]
                ELSE /\ pc' = [pc EXCEPT ![r] = "done"]
                     /\ UNCHANGED <<evictions, shared>>
          \/ /\ v \in DOMAIN roots /\ roots[v].cache[t][key[r]] = NotCached
             /\ shared' = shared \cup {r}
             /\ pc' = [pc EXCEPT ![r] = "db_wait"]
             /\ UNCHANGED <<evictions, result>>
    /\ UNCHANGED <<node, roots, latest, sub, txView, table, key, rootLost>>

\* Seeded fault for LatestCacheBounded: the hit forgets the push_front.
LruPushLost(r) ==
    /\ pc[r] = "lru_push"
    /\ shared' = shared \ {r}
    /\ pc' = [pc EXCEPT ![r] = "done"]
    /\ UNCHANGED <<node, roots, latest, evictions, sub, txView, table, key, result, rootLost>>

\* Second half of the hit path: push_front, then release the shared lock.
LruPush(r) ==
    /\ pc[r] = "lru_push"
    /\ evictions' = [evictions EXCEPT ![table[r]] = <<key[r]>> \o @]
    /\ shared' = shared \ {r}
    /\ pc' = [pc EXCEPT ![r] = "done"]
    /\ UNCHANGED <<node, roots, latest, sub, txView, table, key, result, rootLost>>

\* The remote read of a miss returns the value at the transaction's view;
\* empty returns nullopt, otherwise the shared lock is released and the
\* thread blocks on the exclusive lock.
DbReply(r) ==
    /\ pc[r] = "db_wait" /\ Runnable(r)
    /\ LET val == db[txView[r]][table[r]][key[r]]
       IN /\ result' = [result EXCEPT ![r] = val]
          /\ pc' = [pc EXCEPT ![r] = IF val = Empty THEN "done" ELSE "add_lock"]
    /\ shared' = shared \ {r}
    /\ UNCHANGED <<node, roots, latest, evictions, sub, txView, table, key, rootLost>>

\* add / add_code through the iterator found before the remote read.
AddMiss(r) ==
    /\ pc[r] = "add_lock" /\ ExclusiveFree
    /\ LET st == Add(table[r], key[r], result[r],
                     [cache |-> RootCacheOf(r), ev |-> evictions], latest, txView[r])
       IN /\ roots' = IF rootLost[r] THEN roots
                      ELSE [roots EXCEPT ![txView[r]].cache = st.cache]
          /\ evictions' = st.ev
    /\ pc' = [pc EXCEPT ![r] = "done"]
    /\ UNCHANGED <<node, latest, shared, sub, txView, table, key, result, rootLost>>

\* Fallback of get_one: TransactionDatabase::get_one at the transaction view.
DbDirect(r) ==
    /\ pc[r] = "db_direct" /\ Runnable(r)
    /\ result' = [result EXCEPT ![r] = db[txView[r]][table[r]][key[r]]]
    /\ pc' = [pc EXCEPT ![r] = "done"]
    /\ UNCHANGED <<node, cache, sub, txView, table, key, rootLost>>

\* The handler replies and closes its transaction; nothing of the request
\* survives it.
Finish(r) ==
    /\ pc[r] = "done" /\ Runnable(r)
    /\ pc' = [pc EXCEPT ![r] = "idle"]
    /\ txView' = [txView EXCEPT ![r] = FirstView]
    /\ table' = [table EXCEPT ![r] = "PlainState"]
    /\ key' = [key EXCEPT ![r] = CHOOSE a \in Accounts : TRUE]
    /\ result' = [result EXCEPT ![r] = NoValue]
    /\ rootLost' = [rootLost EXCEPT ![r] = FALSE]
    /\ UNCHANGED <<node, cache, sub>>

-----------------------------------------------------------------------------

Next ==
    \/ Commit \/ CommitEmpty \/ StreamBreak
    \/ Recv \/ OnNewBlock
    \/ \E r \in Readers :
          \/ Begin(r) \/ GetView(r) \/ Lookup(r) \/ LruPush(r)
          \/ DbReply(r) \/ AddMiss(r) \/ DbDirect(r) \/ Finish(r)

Spec == Init /\ [][Next]_vars

-----------------------------------------------------------------------------
(* Properties.                                                             *)

TypeOK ==
    /\ db \in [Views -> [Tables -> [Keys -> Value]]]
    /\ dbView \in Views
    /\ stream \in Seq(Batch)
    /\ DOMAIN roots \subseteq Views
    /\ \A v \in DOMAIN roots :
          roots[v] \in [cache: [Tables -> [Keys -> Value \cup {NotCached}]],
                        ready: BOOLEAN, canonical: BOOLEAN]
    /\ latest \in {0} \cup Views
    /\ evictions \in [Tables -> Seq(Keys)]
    /\ shared \subseteq Readers
    /\ subPc \in {"recv", "lock"} /\ subBatch \in Batch
    /\ pc \in [Readers -> {"idle", "db_wait", "db_direct", "done"} \cup RunningPcs]
    /\ txView \in [Readers -> Views] /\ table \in [Readers -> Tables]
    /\ key \in [Readers -> Keys] /\ result \in [Readers -> Value \cup {NoValue}]
    /\ rootLost \in [Readers -> BOOLEAN]

\* Coherence (on_new_block, advance_root, add after a miss): every entry held
\* by the root of view v, whoever wrote it and whichever root it was
\* inherited from, is the node's value for that key at view v.
CacheCoherent ==
    \A v \in DOMAIN roots, t \in Tables, k \in Keys :
        roots[v].cache[t][k] \in {NotCached, db[v][t][k]}

\* add / add_code: the latest root never holds more entries of a table than
\* max_state_keys / max_code_keys, however reads and batches interleave.
LatestCacheBounded ==
    latest \in DOMAIN roots =>
        \A t \in Tables : Cardinality(CachedKeys(roots[latest].cache[t])) <= MaxKeys(t)

\* Keys whose hit is between the remove and the push_front of the LRU move.
Touched(t) == {key[r] : r \in {q \in Readers : pc[q] = "lru_push" /\ table[q] = t}}

\* The eviction lists hold each key of the latest root exactly once, apart
\* from keys a hit is moving to the front; so the erase of the oldest entry in
\* add always finds it (SILKWORM_ASSERT(num_erased == 1)).
EvictionsMatchLatest ==
    latest \in DOMAIN roots =>
        \A t \in Tables :
            /\ IsInjective(evictions[t])
            /\ ToSet(evictions[t]) \cap Touched(t) = {}
            /\ ToSet(evictions[t]) \cup Touched(t) = CachedKeys(roots[latest].cache[t])

\* CachedDatabase::get_one returns what the transaction's view holds: the
\* spec says a read the cache cannot answer falls through to the database.
ReadCoherent ==
    \A r \in Readers : pc[r] = "done" => result[r] = db[txView[r]][table[r]][key[r]]

\* get / get_code: the root found before the remote read of a miss still
\* exists when the exclusive lock is taken to insert into it.
NoWriteToErasedRoot ==
    \A r \in Readers : pc[r] = "add_lock" => ~rootLost[r]

\* advance_root: evict_roots never erases the root it is advancing to.
LatestRootPresent == latest # 0 => latest \in DOMAIN roots

\* evict_roots (spec 3, "roots older than max_views positions behind the
\* latest are dropped"): a step drops only roots at least max_views views
\* behind the new latest view.  evict_roots runs inside advance_root with
\* the previous latest id, before latest_state_view_id_ is updated.
RootsDroppedOnlyWhenOld ==
    [][\A w \in DOMAIN roots \ DOMAIN roots' : w + MaxViews <= latest']_vars

\* A coroutine blocked on the exclusive lock: get_view, add after a miss,
\* on_new_block.
WaitsExclusive(p) ==
    IF p = Subscriber THEN subPc = "lock" ELSE pc[p] \in {"gv_lock", "add_lock"}

\* No thread blocks on the exclusive lock while a coroutine of the same
\* thread holds the shared lock across a remote read (it could never resume
\* to release it).
NoSelfDeadlock ==
    \A p \in Procs, q \in shared :
        (WaitsExclusive(p) /\ p # q) => Ctx(p) # Ctx(q)

====
