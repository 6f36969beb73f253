---------------------------- MODULE MC_StateCache ----------------------------
(* Model-checking instances of StateCache: constants the .cfg files bind.   *)
EXTENDS StateCache

CONSTANTS r1, r2, c1, c2, c3, a1, a2, l1, x1, x2, code1, h1

\* Node state at FirstView: a1 exists, everything else is empty.
MCInitialDb ==
    [t \in Tables |-> [k \in Keys |-> IF t = "PlainState" /\ k = a1 THEN x1 ELSE Empty]]

MCKeccak == [c \in {code1} |-> h1]

\* Every request on its own thread, the subscription on a third one.
MCCtxSeparate == [r \in {r1, r2} |-> IF r = r1 THEN c1 ELSE c2]
MCCtxOne == [r \in {r1} |-> c1]
=============================================================================
