----------------------------- MODULE ParityApi -----------------------------
(***************************************************************************)
(* The two handlers of commands/parity_api.cpp, parity_getBlockReceipts   *)
(* and parity_listStorageKeys, for one account address.  An action is one *)
(* step between two co_awaits.  Every remote call (begin, get_block_number,*)
(* read_account, the cursor's seek_both and next_dup, read_block,         *)
(* get_receipts, close) either returns or throws; the handler's try block *)
(* turns what its calls throw into the reply, and tx->close() follows it. *)
(*                                                                         *)
(* A storage location is a number (locations sort as their numbers); a    *)
(* PlainState dup of (address, incarnation) is a location.  A receipt     *)
(* stands for its transaction's index and the price written into it.      *)
(***************************************************************************)
EXTENDS Naturals, SequencesExt, TLC

CONSTANTS
    Locs,           \* storage locations
    Incs,           \* account incarnations
    NumBlocks,      \* blocks 0..NumBlocks-1; the last is the latest
    MaxTxs,         \* transactions per block
    Quantities,     \* the `quantity` values requested
    Offsets,        \* the `offset` values requested
    None            \* an absent optional, a null param, an empty value

Blocks == 0 .. NumBlocks - 1
Latest == NumBlocks - 1
\* block_id strings: the latest tag or a block number.
BlockIds == {"latest"} \cup {ToString(b) : b \in Blocks}

\* A request: params of the wrong count ("few"), of the wrong JSON type
\* ("mistyped"), or parsed.
Requests ==
    [method : {"parity_listStorageKeys", "parity_getBlockReceipts"},
     params : {"few", "mistyped"}]
    \cup [method : {"parity_listStorageKeys"}, params : {"ok"}, quantity : Quantities,
          offset : Offsets \cup {None}, block_id : BlockIds]
    \cup [method : {"parity_getBlockReceipts"}, params : {"ok"}, block_id : BlockIds]

\* The account at a block, and a block's transactions, whether its
\* receipts are stored and its header's base fee.
AccountVals == {None} \cup [inc : Incs, storage : SUBSET Locs]
BlockVals == [txs : 0 .. MaxTxs, stored : BOOLEAN, base_fee : {None, 1}]

Result(v) == [result |-> v]
Error100 == [error |-> 100]
NullResult == Result(None)    \* make_json_content(id, {})

VARIABLES
    req,            \* the request
    accounts,       \* the account at each block (history and PlainState)
    blocks,         \* the blocks and their stored receipts
    pc,             \* the handler's position; "done", "thrown", "crashed"
    tx,             \* the database transaction: "none", "open", "closed"
    failure,        \* the kind of exception the try block caught, or None
    block_number,
    account,        \* the incarnation read_account returned
    v,              \* the cursor's current value, None when empty
    keys,           \* the keys collected
    receipts,       \* get_receipts' result
    reply

input == <<req, accounts, blocks>>
locals == <<block_number, account, v, keys, receipts>>
vars == <<input, pc, tx, failure, locals, reply>>

IsList == req.method = "parity_listStorageKeys"
Off == IF req.offset = None THEN 0 ELSE req.offset   \* seek_val: offset or empty

\* The PlainState dups of (address, inc): the latest block's storage of
\* the account's current incarnation.
Plain(inc) ==
    IF accounts[Latest] # None /\ accounts[Latest].inc = inc
    THEN accounts[Latest].storage ELSE {}

\* Seeded fault for StorageKeysPage: the offset key itself is skipped.
FirstAfter(S, from) ==
    IF \E l \in S : l > from THEN Min({l \in S : l > from}) ELSE None

\* The first dup at or after `from` (seek_both's range), or None.
FirstFrom(S, from) ==
    IF \E l \in S : l >= from THEN Min({l \in S : l >= from}) ELSE None

\* The catch clauses: invalid_argument gives an empty result, any other
\* std::exception an error with code 100.
CatchReply == IF failure = "invalid_argument" THEN NullResult ELSE Error100

\* txs[i].effective_gas_price(base_fee_per_gas.value_or(0)).
Price(b, i) == <<i, IF blocks[b].base_fee = None THEN 0 ELSE blocks[b].base_fee>>

\* Seeded fault for ReceiptsPriced: the loop stops one transaction early.
PriceReceiptsShort(rs, b) ==
    [i \in DOMAIN rs |-> IF i < blocks[b].txs THEN [rs[i] EXCEPT !.price = Price(b, i)] ELSE rs[i]]

\* for (i < block.transactions.size()) receipts[i].effective_gas_price = ...
PriceReceipts(rs, b) ==
    [i \in DOMAIN rs |-> IF i <= blocks[b].txs THEN [rs[i] EXCEPT !.price = Price(b, i)] ELSE rs[i]]

-----------------------------------------------------------------------------

Init ==
    /\ req \in Requests
    \* Only the requested method's tables are read; the other's are fixed.
    /\ accounts \in IF IsList THEN [Blocks -> AccountVals] ELSE {[b \in Blocks |-> None]}
    /\ blocks \in IF IsList THEN {[b \in Blocks |-> [txs |-> 0, stored |-> FALSE, base_fee |-> None]]}
                  ELSE [Blocks -> BlockVals]
    /\ pc = "start" /\ tx = "none" /\ failure = None /\ reply = None
    /\ block_number = None /\ account = None /\ v = None
    /\ keys = << >> /\ receipts = << >>

\* A call of the try block throws: the catch clauses run next.
Throw(kind) == failure' = kind /\ pc' = "catch" /\ UNCHANGED <<tx, locals, reply>>

\* The checks before the transaction: a wrong param count replies an
\* error; params[i].get<T>() of a mistyped param throws out of the handler.
ParseParams ==
    /\ pc = "start"
    /\ \/ req.params = "few" /\ reply' = Error100 /\ pc' = "done"
       \/ req.params = "mistyped" /\ pc' = "thrown" /\ UNCHANGED reply
       \/ req.params = "ok" /\ pc' = "begin" /\ UNCHANGED reply
    /\ UNCHANGED <<input, tx, failure, locals>>

\* co_await database_->begin(), outside the try.
Begin ==
    /\ pc = "begin"
    /\ \/ tx' = "open" /\ pc' = "block_number"
       \/ pc' = "thrown" /\ UNCHANGED tx
    /\ UNCHANGED <<input, failure, locals, reply>>

\* co_await get_block_number(block_id, tx_database).
GetBlockNumber ==
    /\ pc = "block_number"
    /\ \/ Throw("invalid_argument") \/ Throw("error")
       \/ /\ block_number' = IF req.block_id = "latest" THEN Latest
                             ELSE CHOOSE b \in Blocks : ToString(b) = req.block_id
          /\ pc' = IF IsList THEN "read_account" ELSE "read_block"
          /\ UNCHANGED <<tx, failure, account, v, keys, receipts, reply>>
    /\ UNCHANGED input

\* co_await read_account(address, block_number); an absent account
\* throws domain_error.
ReadAccount ==
    /\ pc = "read_account"
    /\ \/ Throw("error")
       \/ accounts[block_number] = None /\ Throw("domain_error")
       \/ /\ accounts[block_number] # None
          /\ account' = accounts[block_number].inc
          /\ pc' = "seek"
          /\ UNCHANGED <<tx, failure, block_number, v, keys, receipts, reply>>
    /\ UNCHANGED input

\* cursor_dup_sort(kPlainState), then seek_both(storage_prefix(address,
\* incarnation), seek_val).
SeekBoth ==
    /\ pc = "seek"
    /\ \/ Throw("error")
       \/ /\ v' = FirstFrom(Plain(account), Off)
          /\ pc' = "loop"
          /\ UNCHANGED <<tx, failure, block_number, account, keys, receipts, reply>>
    /\ UNCHANGED input

\* One pass of while (v.size() >= kHashLength && keys.size() != quantity):
\* push the key, then next_dup; past the last dup the key differs, the
\* loop breaks and the keys are the reply.
NextDup ==
    /\ pc = "loop" /\ v # None /\ Len(keys) # req.quantity
    /\ \/ Throw("error")
       \/ /\ keys' = Append(keys, v)
          /\ LET nx == FirstFrom(Plain(account), v + 1) IN
               IF nx = None THEN reply' = Result(keys') /\ pc' = "close" /\ UNCHANGED v
               ELSE v' = nx /\ UNCHANGED <<pc, reply>>
          /\ UNCHANGED <<tx, failure, block_number, account, receipts>>
    /\ UNCHANGED input

\* The loop test fails: the keys are the reply.
LoopExit ==
    /\ pc = "loop" /\ (v = None \/ Len(keys) = req.quantity)
    /\ reply' = Result(keys) /\ pc' = "close"
    /\ UNCHANGED <<input, tx, failure, locals>>

\* co_await read_block_by_number(block_cache, tx_database, block_number).
ReadBlock ==
    /\ pc = "read_block"
    /\ \/ Throw("error")
       \/ pc' = "receipts" /\ UNCHANGED <<tx, failure, locals, reply>>
    /\ UNCHANGED input

\* co_await get_receipts: the stored receipts, or none when they are not
\* stored; then the pricing loop indexes them by the block's transactions,
\* and past the end of an empty vector the write faults.
GetReceipts ==
    /\ pc = "receipts"
    /\ \/ Throw("error")
       \/ LET got == IF blocks[block_number].stored
                     THEN [i \in 1 .. blocks[block_number].txs |-> [tx |-> i, price |-> None]]
                     ELSE << >>
          IN  /\ receipts' = got
              /\ IF Len(got) < blocks[block_number].txs
                 THEN pc' = "crashed" /\ UNCHANGED reply
                 ELSE reply' = Result(PriceReceipts(got, block_number)) /\ pc' = "close"
              /\ UNCHANGED <<tx, failure, block_number, account, v, keys>>
    /\ UNCHANGED input

\* The catch clauses set the reply.
Catch ==
    /\ pc = "catch"
    /\ reply' = CatchReply /\ pc' = "close"
    /\ UNCHANGED <<input, tx, failure, locals>>

\* co_await tx->close(), after the try; a failing close throws out.
Close ==
    /\ pc = "close"
    /\ \/ tx' = "closed" /\ pc' = "done"
       \/ pc' = "thrown" /\ UNCHANGED tx
    /\ UNCHANGED <<input, failure, locals, reply>>

Next == ParseParams \/ Begin \/ GetBlockNumber \/ ReadAccount \/ SeekBoth
        \/ NextDup \/ LoopExit \/ ReadBlock \/ GetReceipts \/ Catch \/ Close

Spec == Init /\ [][Next]_vars

-----------------------------------------------------------------------------
(* Properties.                                                             *)

\* The first q locations of S at or after off, in order.
Page(S, off, q) ==
    LET from == SetToSortSeq({l \in S : l >= off}, <)
    IN  SubSeq(from, 1, IF q < Len(from) THEN q ELSE Len(from))

Parsed == req.params = "ok" /\ failure = None

\* parity_listStorageKeys at the latest block replies the account's
\* storage locations from `offset` on, at most `quantity` of them, in
\* order: the seek, the next_dup loop and its two exits skip and repeat
\* none.
StorageKeysPage ==
    IsList /\ pc = "done" /\ Parsed /\ block_number = Latest =>
        reply = Result(Page(accounts[Latest].storage, Off, req.quantity))

\* parity_listStorageKeys at any block replies that block's storage.
StorageKeysAtBlock ==
    IsList /\ pc = "done" /\ Parsed =>
        reply = Result(Page(accounts[block_number].storage, Off, req.quantity))

\* parity_getBlockReceipts replies one receipt per transaction of the
\* block, each with its transaction's effective gas price.
ReceiptsPriced ==
    ~IsList /\ pc = "done" /\ Parsed =>
        reply = Result([i \in 1 .. blocks[block_number].txs |->
                          [tx |-> i, price |-> Price(block_number, i)]])

\* The pricing loop of parity_getBlockReceipts writes no receipt past the
\* end of get_receipts' result.
ReceiptsInBounds == pc # "crashed"

\* Spec 7: no exception escapes a handler (mistyped params, a failing
\* begin or close).
NoExceptionEscapes == pc # "thrown"

\* Spec 7: a transport or internal failure (any exception other than
\* invalid_argument or a domain rejection) surfaces as error -32000.
ErrorCodesSpec ==
    pc = "done" /\ failure = "error" => reply = [error |-> -32000]
=============================================================================
