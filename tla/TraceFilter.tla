---------------------------- MODULE TraceFilter ----------------------------
(***************************************************************************)
(* trace_filter (core/evm_trace.cpp): walks the blocks from..to, has       *)
(* trace_block trace each one and write the call frames that pass the      *)
(* address filter, skipping `after` of them and writing at most `count`,   *)
(* to the JSON stream's result array, followed per block by a reward trace *)
(* when no address is filtered.  `after` and `count` live in one Filter    *)
(* shared by every trace_block call.                                      *)
(*                                                                         *)
(* A block is the sequence of its transactions' call frames (trace_block   *)
(* leaves both nested loops on the same count test, so the transaction     *)
(* boundaries do not matter); a frame is its sender and recipient.  An     *)
(* action is one trace_filter step between two co_awaits: trace_block      *)
(* runs its loops after its only co_await (trace_block_transactions).      *)
(***************************************************************************)
EXTENDS Naturals, SequencesExt

CONSTANTS
    Addrs,          \* addresses
    None,           \* the absent `to` of a create frame
    FrameKinds,     \* the frames a block may hold
    AddressFilters, \* the from_addresses / to_addresses pairs requested
    Afters,         \* the `after` values requested
    Counts,         \* the `count` values requested
    NumBlocks,      \* the chain holds blocks 0..NumBlocks-1
    MaxFrames,      \* call frames per block
    CountMax        \* Filter::count's largest value (2^32 - 1)

Blocks == 0 .. NumBlocks - 1

VARIABLES
    req,            \* the TraceFilter request and the chain it runs on
    pc,             \* "start", "loop", "next", "close", "closed", "error"
    block_number,   \* trace_filter's block_number
    block,          \* the number of block_with_hash
    filter,         \* Filter's after and count
    written,        \* the items written to the result array
    reads           \* the blocks read from the database

vars == <<req, pc, block_number, block, filter, written, reads>>

Requests ==
    { [from |-> f, to |-> t, chain |-> ch, after |-> a, count |-> c,
       from_addresses |-> af.from_addresses, to_addresses |-> af.to_addresses] :
         f \in Blocks, t \in Blocks, ch \in [Blocks -> BoundedSeq(FrameKinds, MaxFrames)],
         a \in Afters, c \in Counts, af \in AddressFilters }

NoAddressFilter == req.from_addresses = {} /\ req.to_addresses = {}

\* filter.count-- on an unsigned count.
Dec(c) == IF c = 0 THEN CountMax ELSE c - 1

\* trace_block's skip: a frame is kept when no address is filtered, or
\* its `from` is in from_addresses, or it has a `to` in to_addresses.
Selected(fr) ==
    NoAddressFilter \/ fr.from \in req.from_addresses \/ fr.to \in req.to_addresses

\* One kept frame: it uses up one `after`, or is written and uses up
\* one `count`.
Take(st, item) ==
    IF st.after > 0 THEN [st EXCEPT !.after = @ - 1]
    ELSE [st EXCEPT !.count = Dec(@), !.out = Append(@, item)]

\* trace_block's loops over block b's frames from the i-th on, leaving
\* them once count is 0.
RECURSIVE ScanFrames(_, _, _)
ScanFrames(b, i, st) ==
    IF i > Len(req.chain[b]) THEN st
    ELSE LET nx == IF Selected(req.chain[b][i]) THEN Take(st, <<b, i>>) ELSE st
         IN  IF nx.count = 0 THEN nx ELSE ScanFrames(b, i + 1, nx)

\* Seeded fault for WindowSpec: the reward trace does not use up `after`.
RewardIgnoresAfter(b, st) ==
    IF NoAddressFilter /\ st.count > 0 /\ st.after = 0
    THEN [st EXCEPT !.count = Dec(@), !.out = Append(@, <<b, 0>>)]
    ELSE st

\* trace_block's tail: with an address filter it returns; else the reward
\* trace is written if count and after allow, or uses up one `after`.
Reward(b, st) ==
    CASE ~NoAddressFilter             -> st
      [] st.count > 0 /\ st.after = 0 -> [st EXCEPT !.count = Dec(@), !.out = Append(@, <<b, 0>>)]
      [] st.after > 0                 -> [st EXCEPT !.after = @ - 1]
      [] OTHER                        -> st

\* trace_block(block_with_hash, filter, stream).
TraceBlock(b) ==
    Reward(b, ScanFrames(b, 1, [after |-> filter.after, count |-> filter.count, out |-> << >>]))

Init ==
    /\ req \in Requests
    /\ pc = "start"
    /\ block_number = 0 /\ block = 0
    /\ filter = [after |-> 0, count |-> 0]
    /\ written = << >>
    /\ reads = {}

\* trace_filter reads its from and to blocks, answers an error if from is
\* above to, else opens the result array and fills Filter.
Start ==
    /\ pc = "start"
    /\ reads' = {req.from, req.to}
    /\ IF req.from > req.to
       THEN /\ pc' = "error"
            /\ UNCHANGED <<block_number, block, filter>>
       ELSE /\ pc' = "loop"
            /\ filter' = [after |-> req.after, count |-> req.count]
            /\ block_number' = req.from
            /\ block' = req.from
    /\ UNCHANGED <<req, written>>

\* while (block_number++ <= to): trace the block.
TraceStep ==
    /\ pc = "loop" /\ block_number <= req.to
    /\ block_number' = block_number + 1
    /\ LET st == TraceBlock(block) IN
          /\ filter' = [after |-> st.after, count |-> st.count]
          /\ written' = written \o st.out
    /\ pc' = "next"
    /\ UNCHANGED <<req, block, reads>>

\* while (block_number++ <= to) fails: the loop ends.
LoopEnd ==
    /\ pc = "loop" /\ block_number > req.to
    /\ block_number' = block_number + 1
    /\ pc' = "close"
    /\ UNCHANGED <<req, block, filter, written, reads>>

\* After trace_block: leave once count is 0, else take to_block or read
\* block block_number.
Advance ==
    /\ pc = "next"
    /\ IF filter.count = 0
       THEN /\ pc' = "close"
            /\ UNCHANGED <<block, reads>>
       ELSE /\ pc' = "loop"
            /\ block' = block_number
            /\ reads' = IF block_number = req.to THEN reads ELSE reads \cup {block_number}
    /\ UNCHANGED <<req, block_number, filter, written>>

\* stream->close_array().
Close ==
    /\ pc = "close"
    /\ pc' = "closed"
    /\ UNCHANGED <<req, block_number, block, filter, written, reads>>

Next == Start \/ TraceStep \/ LoopEnd \/ Advance \/ Close

\* trace_filter runs on one coroutine and every await it makes returns.
Spec == Init /\ [][Next]_vars /\ WF_vars(Next)

-----------------------------------------------------------------------------
(* Properties.                                                             *)

Abstract == INSTANCE TraceWindow WITH
    request <- req,
    out <- written,
    status <- CASE pc = "start" -> "init"
                [] pc = "error" -> "error"
                [] pc = "closed" -> "closed"
                [] OTHER -> "open"

\* trace_filter implements TraceWindow: through every block walk and every
\* way after and count run out, within a block, at its reward or between
\* blocks, the result array only ever holds a prefix of the frames and
\* rewards after the first `after`, at most `count` of them, and it is
\* closed exactly when it holds all of them.
WindowSpec == Abstract!Spec

\* Of a valid request, trace_filter reads no block outside from..to.
ReadsWithinRange == pc # "error" => reads \subseteq req.from .. req.to
=============================================================================
