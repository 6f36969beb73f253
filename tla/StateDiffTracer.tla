-------------------------- MODULE StateDiffTracer --------------------------
(***************************************************************************)
(* The stateDiff tracer of the trace_* methods (core/evm_trace.cpp):       *)
(* StateDiffTracer, the IntraBlockStateTracer that runs after it for      *)
(* every transaction of a block, and the StateAddresses overlay they      *)
(* share (TraceCallExecutor::trace_block and execute), driven by         *)
(* trace_block_transactions or by trace_calls (trace_callMany).           *)
(*                                                                         *)
(* An account is "none" or a record of balance, nonce, code and storage.  *)
(* The EVM's execution of a transaction is one step that changes the      *)
(* accounts it touches and reports the keys each SSTOREs.                 *)
(***************************************************************************)
EXTENDS Integers, FiniteSets, Sequences

CONSTANTS
    Addrs,      \* addresses
    Keys,       \* storage keys
    NumTxs      \* transactions of the block

Vals == {0, 1}     \* balances, nonces and storage values
Codes == {0, 1}    \* code: 0 is empty code
None == -1         \* an empty std::optional / an address absent from a map

\* Accounts as IntraBlockState reads them; a missing one reads as zero.
Live == [exists: {TRUE}, balance: Vals, nonce: Vals, code: Codes, storage: [Keys -> Vals]]
NoAccount == [exists |-> FALSE, balance |-> 0, nonce |-> 0, code |-> 0,
              storage |-> [k \in Keys |-> 0]]
\* An existing account may be empty (no balance, nonce or code): such
\* accounts predate EIP-161, and whether a touched empty account is already
\* deleted when on_reward_granted runs is up to the executor, which is not
\* in the repository, so both outcomes are states of the model.
Empty(acc) == acc.balance = 0 /\ acc.nonce = 0 /\ acc.code = 0
Accounts == Live \cup {NoAccount}

VARIABLES
    initial,        \* initial_ibs: the block's pre-state
    world,          \* the executor's IntraBlockState
    original,       \* the state at the start of the transaction
                    \* (get_original_storage)
    balances_,      \* StateAddresses::balances_, None where absent
    nonces_,        \* StateAddresses::nonces_
    codes_,         \* StateAddresses::codes_
    touched,        \* intra_block_state.touched()
    diff_storage_,  \* StateDiffTracer::diff_storage_
    state_diff_,    \* StateDiffTracer::state_diff_: address -> entry
    tx,             \* transactions traced
    phase,          \* "execute", "reward", or "done" once trace_calls breaks
    method,         \* "block": trace_block_transactions; "calls": trace_calls
    traces,         \* the results: per transaction its pre_check_error
                    \* and its state diff
    pre_check_error \* TraceManyCallResult::pre_check_error is set

vars == <<initial, world, original, balances_, nonces_, codes_, touched,
          diff_storage_, state_diff_, tx, phase, method, traces, pre_check_error>>

-----------------------------------------------------------------------------
(* StateAddresses: the overlay's getters fall back to initial_ibs.         *)

GetBalance(a) == IF balances_[a] # None THEN balances_[a] ELSE initial[a].balance
GetNonce(a) == IF nonces_[a] # None THEN nonces_[a] ELSE initial[a].nonce
GetCode(a) == IF codes_[a] # None THEN codes_[a] ELSE initial[a].code
\* StateAddresses::exists (not in the repository): initial_ibs_.exists.
Exists(a) == initial[a].exists

-----------------------------------------------------------------------------
(* StateDiffTracer.                                                        *)

\* DiffValue: a pair of optionals; to_json writes "*", "-", "+" or "=".
DV(from, to) == [from |-> from, to |-> to]
Marker(dv) == CASE dv.from # None /\ dv.to # None -> "*"
                [] dv.from # None -> "-"
                [] dv.to # None -> "+"
                [] OTHER -> "="
\* state_diff_[address_key] of an absent key: a default StateDiffEntry.
EmptyEntry == [balance |-> DV(None, None), code |-> DV(None, None),
               nonce |-> DV(None, None), storage |-> <<>>]

\* A DiffValue from -> to, left default when the two are equal.
Changed(from, to) == IF from # to THEN DV(from, to) ELSE DV(None, None)

\* Seeded fault for DiffCoversChanges: all_equals ignores the storage.
AllEqualsNoStorage(a, sk) ==
    GetBalance(a) = world[a].balance /\ GetCode(a) = world[a].code /\ GetNonce(a) = world[a].nonce

\* all_equals: balance, code and nonce are as StateAddresses had them and
\* no SSTOREd slot changed.
AllEquals(a, sk) ==
    GetBalance(a) = world[a].balance /\ GetCode(a) = world[a].code /\ GetNonce(a) = world[a].nonce
    /\ sk = {}

\* The entry of one touched address and whether it is erased.
DiffEntry(a) ==
    LET post == world[a]
        keys == diff_storage_[a]
    IN  CASE Exists(a) /\ post.exists ->
              LET sk == {k \in keys : original[a].storage[k] # post.storage[k]}
                  e == [balance |-> Changed(GetBalance(a), post.balance),
                        code |-> Changed(GetCode(a), post.code),
                        nonce |-> Changed(GetNonce(a), post.nonce),
                        storage |-> [k \in sk |-> DV(original[a].storage[k], post.storage[k])]]
              IN  [entry |-> e, erase |-> AllEquals(a, sk)]
          [] Exists(a) ->
              [entry |-> [balance |-> DV(GetBalance(a), None),
                          code |-> DV(GetCode(a), None),
                          nonce |-> DV(GetNonce(a), None),
                          storage |-> [k \in keys |-> DV(original[a].storage[k], None)]],
               erase |-> FALSE]
          [] post.exists ->
              [entry |-> [balance |-> DV(None, post.balance),
                          code |-> DV(None, post.code),
                          nonce |-> DV(None, post.nonce),
                          storage |-> [k \in {k \in keys : post.storage[k] # 0} |->
                                         DV(None, post.storage[k])]],
               erase |-> post.balance = 0 /\ post.code = 0 /\ post.nonce = 0 /\ keys = {}]
          [] OTHER -> [entry |-> EmptyEntry, erase |-> FALSE]

\* on_reward_granted: the entries of the touched addresses that are kept.
StateDiff ==
    LET kept == {a \in touched : ~DiffEntry(a).erase}
    IN  [a \in kept |-> DiffEntry(a).entry]

\* Seeded fault for OverlayCurrent: only accounts that still exist are
\* recorded.
RecordExisting(m, field) ==
    [a \in Addrs |-> IF a \in touched /\ world[a].exists THEN world[a][field] ELSE m[a]]

\* IntraBlockStateTracer::on_reward_granted: record the touched accounts'
\* balance, nonce and code in StateAddresses.
Record(m, field) == [a \in Addrs |-> IF a \in touched THEN world[a][field] ELSE m[a]]

-----------------------------------------------------------------------------

Init ==
    /\ initial \in [Addrs -> Accounts]
    /\ world = initial
    /\ original = initial
    /\ balances_ = [a \in Addrs |-> None]
    /\ nonces_ = [a \in Addrs |-> None]
    /\ codes_ = [a \in Addrs |-> None]
    /\ touched = {}
    /\ diff_storage_ = [a \in Addrs |-> {}]
    /\ state_diff_ = <<>>
    /\ tx = 0
    /\ phase = "execute"
    /\ method \in {"block", "calls"}
    /\ traces = <<>>
    /\ pre_check_error = FALSE

\* The executor runs transaction tx with a fresh StateDiffTracer: the
\* accounts in T change, and StateDiffTracer::on_instruction_start records
\* every key an SSTORE of a running contract writes (at least those whose
\* value changes).
Execute ==
    /\ phase = "execute" /\ tx < NumTxs
    /\ \E T \in SUBSET Addrs \ {{}}, post \in [Addrs -> Accounts],
          sstored \in [Addrs -> SUBSET Keys] :
          /\ \A a \in Addrs \ T : post[a] = world[a] /\ sstored[a] = {}
          /\ \A a \in T, k \in Keys :
                world[a].storage[k] # post[a].storage[k] => k \in sstored[a]
          /\ world' = post
          /\ touched' = T
          /\ diff_storage_' = sstored
    /\ original' = world
    /\ state_diff_' = <<>>
    /\ phase' = "reward"
    /\ UNCHANGED <<initial, balances_, nonces_, codes_, tx, method, traces,
                   pre_check_error>>

\* on_reward_granted of the tracers in the order trace_block pushes them:
\* StateDiffTracer, then IntraBlockStateTracer.
RewardGranted ==
    /\ phase = "reward"
    /\ state_diff_' = StateDiff
    /\ balances_' = Record(balances_, "balance")
    /\ nonces_' = Record(nonces_, "nonce")
    /\ codes_' = Record(codes_, "code")
    /\ traces' = Append(traces, [error |-> FALSE, diff |-> state_diff_'])
    /\ tx' = tx + 1
    /\ phase' = "execute"
    /\ UNCHANGED <<initial, world, original, touched, diff_storage_, method,
                   pre_check_error>>

\* executor.call fails its gas pre-check: no tracer runs and the state is
\* unchanged.  trace_block_transactions records the error at the
\* transaction's index and goes on; trace_calls sets pre_check_error,
\* clears result.traces and breaks.
PreCheckFailed ==
    /\ phase = "execute" /\ tx < NumTxs
    /\ pre_check_error' = TRUE
    /\ \/ /\ method = "block"
          /\ traces' = Append(traces, [error |-> TRUE, diff |-> <<>>])
          /\ tx' = tx + 1
          /\ UNCHANGED phase
       \/ /\ method = "calls"
          /\ traces' = <<>>
          /\ phase' = "done"
          /\ UNCHANGED tx
    /\ UNCHANGED <<initial, world, original, balances_, nonces_, codes_,
                   touched, diff_storage_, state_diff_, method>>

Next == Execute \/ RewardGranted \/ PreCheckFailed

Spec == Init /\ [][Next]_vars

-----------------------------------------------------------------------------
(* Properties.  A transaction is traced once RewardGranted has run.        *)

Traced == phase = "execute" /\ tx > 0

\* Spec 4.9 compares each touched account's state before the transaction
\* with its state after it.  Before(a): the account existed at the start
\* of the transaction.
Before(a) == original[a].exists

\* The account of `a` changed in the transaction: it was born or died, or
\* its balance, nonce, code or an SSTOREd slot differs.
Delta(a) ==
    \/ Before(a) # world[a].exists
    \/ /\ world[a].exists
       /\ \/ \E f \in {"balance", "nonce", "code"} : original[a][f] # world[a][f]
          \/ \E k \in diff_storage_[a] : original[a].storage[k] # world[a].storage[k]

\* Spec 4.9: a newly created account with empty balance, code and nonce and
\* no storage mutation is removed from the diff.
BornEmpty(a) ==
    ~Before(a) /\ world[a].exists /\ Empty(world[a]) /\ diff_storage_[a] = {}

\* The DiffValue spec 4.9 gives a field: Born{to}, Died{from},
\* Changed{from,to} or Same.
FieldDiff(a, f) ==
    LET from == IF Before(a) THEN original[a][f] ELSE None
        to == IF world[a].exists THEN world[a][f] ELSE None
    IN  IF from = to THEN DV(None, None) ELSE DV(from, to)

\* The slots a diff lists: the changed SSTOREd ones of a live account, the
\* non-zero ones of a born account, every SSTOREd one of a dead account.
StorageDiff(a) ==
    LET old(k) == IF Before(a) THEN original[a].storage[k] ELSE None
        new(k) == IF world[a].exists THEN world[a].storage[k] ELSE None
        listed == {k \in diff_storage_[a] :
                     IF Before(a) /\ world[a].exists THEN old(k) # new(k)
                     ELSE IF Before(a) THEN TRUE ELSE new(k) # 0}
    IN  [k \in listed |-> DV(old(k), new(k))]

\* The diff of a touched address is the one spec 4.9 gives its change: an
\* entry whose balance, code, nonce and storage DiffValues are the change,
\* none for a born empty account.
DiffIsChange(a) ==
    Delta(a) =>
        IF BornEmpty(a) THEN a \notin DOMAIN state_diff_
        ELSE /\ a \in DOMAIN state_diff_
             /\ \A f \in {"balance", "nonce", "code"} : state_diff_[a][f] = FieldDiff(a, f)
             /\ state_diff_[a].storage = StorageDiff(a)

\* An account born or deleted by an earlier transaction of the block: its
\* existence at the transaction's start differs from initial_ibs.
Reborn(a) == initial[a].exists # Before(a)

\* After every transaction of a block, StateAddresses answers each
\* address's balance, nonce and code as the executor's state has them:
\* IntraBlockStateTracer records every touched account, the deleted ones
\* included, so the next transaction's stateDiff starts from its
\* pre-state (spec 4.9).
OverlayCurrent ==
    phase # "reward" =>
        \A a \in Addrs : /\ GetBalance(a) = world[a].balance
                        /\ GetNonce(a) = world[a].nonce
                        /\ GetCode(a) = world[a].code

\* Every touched address whose account changed since the transaction's
\* start has the entry spec 4.9 gives the change, through on_reward_
\* granted's three branches, its all_equals and to_be_removed erasures,
\* and the "from" values the overlay recorded for the earlier
\* transactions; an account born or deleted earlier in the block is left
\* to DiffAgainstTxPreState.
DiffCoversChanges ==
    Traced => \A a \in touched : ~Reborn(a) => DiffIsChange(a)

\* Spec 4.9 for every touched address, an account born or deleted by an
\* earlier transaction of the block included.  on_reward_granted takes
\* existence from StateAddresses::exists, which falls back to initial_ibs.
DiffAgainstTxPreState ==
    Traced => \A a \in touched : DiffIsChange(a)

\* Spec 4.9: an address whose fields are all Same is removed from the
\* diff, so no entry to_json writes has "=" for balance, code and nonce and
\* no storage.
NoSpuriousEntries ==
    Traced => \A a \in DOMAIN state_diff_ :
        \/ \E f \in {"balance", "nonce", "code"} : Marker(state_diff_[a][f]) # "="
        \/ DOMAIN state_diff_[a].storage # {}

=============================================================================
