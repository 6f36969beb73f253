---------------------------- MODULE TraceWindow ----------------------------
(***************************************************************************)
(* What trace_filter promises (spec 4.10), with no block walk in it: the   *)
(* stream receives, in order, the frames of the blocks from..to that pass  *)
(* the address filter, each block followed by its reward trace when no     *)
(* address is filtered, with the first `after` of them skipped and at most *)
(* `count` written; then the result array is closed.  A request whose      *)
(* from block lies above its to block is answered with an error.           *)
(*                                                                         *)
(* request is the filter and the chain it is run on; an item is            *)
(* <<block, n>>: the n-th call frame of the block, or its reward for n = 0.*)
(***************************************************************************)
EXTENDS Naturals, Sequences

CONSTANT None          \* the absent `to` of a create frame

VARIABLES request, out, status

vars == <<request, out, status>>

NoAddressFilter(r) == r.from_addresses = {} /\ r.to_addresses = {}

\* A frame is wanted when no address is filtered, or its sender or its
\* recipient is one of the filtered addresses.
Wanted(r, fr) ==
    NoAddressFilter(r) \/ fr.from \in r.from_addresses \/ fr.to \in r.to_addresses

\* The items block b contributes.
BlockItems(r, b) ==
    LET idx == SelectSeq([i \in 1..Len(r.chain[b]) |-> i],
                         LAMBDA i : Wanted(r, r.chain[b][i]))
    IN  [k \in DOMAIN idx |-> <<b, idx[k]>>]
        \o (IF NoAddressFilter(r) THEN << <<b, 0>> >> ELSE << >>)

RECURSIVE ItemsFrom(_, _)
ItemsFrom(r, b) == IF b > r.to THEN << >> ELSE BlockItems(r, b) \o ItemsFrom(r, b + 1)

\* The items after the first r.after, at most r.count of them.
Window(r) ==
    LET all == ItemsFrom(r, r.from)
    IN  SubSeq(all, r.after + 1,
               IF r.after + r.count < Len(all) THEN r.after + r.count ELSE Len(all))

Init == out = << >> /\ status = "init"

Reject ==
    /\ status = "init" /\ request.from > request.to
    /\ status' = "error"
    /\ UNCHANGED <<request, out>>

Open ==
    /\ status = "init" /\ request.from <= request.to
    /\ status' = "open"
    /\ UNCHANGED <<request, out>>

\* Some more items of the window reach the stream.
Extend ==
    /\ status = "open"
    /\ \E n \in Len(out) + 1 .. Len(Window(request)) :
          out' = SubSeq(Window(request), 1, n)
    /\ UNCHANGED <<request, status>>

Close ==
    /\ status = "open" /\ out = Window(request)
    /\ status' = "closed"
    /\ UNCHANGED <<request, out>>

Next == Reject \/ Open \/ Extend \/ Close

Spec == Init /\ [][Next]_vars /\ WF_vars(Next)
=============================================================================
