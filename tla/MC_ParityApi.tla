---------------------------- MODULE MC_ParityApi ----------------------------
(* Three storage locations and two incarnations over two blocks; quantity *)
(* 0 to 3 and offsets below, at and past the stored locations, so a page  *)
(* ends inside the storage, at its last location and past it; blocks of   *)
(* up to two transactions with and without stored receipts and base fee. *)
EXTENDS ParityApi

MCLocs == {1, 2, 3}
=============================================================================
