--------------------------- MODULE MC_TraceFilter ---------------------------
(* Two blocks of up to two frames among three kinds: a1 to a2, a2 to a1  *)
(* and a create by a2, so every address filter below keeps some frames   *)
(* and drops others; after and count up to 2 and 3 end the window inside *)
(* a block, at its reward and past the last block.                        *)
EXTENDS TraceFilter

CONSTANTS a1, a2

MCAddrs == {a1, a2}
MCFrameKinds == {[from |-> a1, to |-> a2], [from |-> a2, to |-> a1], [from |-> a2, to |-> None]}
MCAddressFilters ==
    { [from_addresses |-> {}, to_addresses |-> {}],
      [from_addresses |-> {a1}, to_addresses |-> {}],
      [from_addresses |-> {}, to_addresses |-> {a1}],
      [from_addresses |-> {a1}, to_addresses |-> {a1}] }
=============================================================================
