------------------------ MODULE MCInMemoryIdempotency ------------------------
(***************************************************************************)
(* InMemoryIdempotency for TLC: three tasks, one of which makes a nested   *)
(* call from the operation of its own call.                                *)
(***************************************************************************)
EXTENDS InMemoryIdempotency, TLC

CONSTANTS outer, inner, second, third, k1, k2, v

MCCalls == {outer, inner, second, third}

\* A task is named by its outermost call.
MCTaskOf == outer :> outer @@ inner :> outer @@ second :> second @@ third :> third
MCParentOf ==
  outer :> NoCall @@ inner :> outer @@ second :> NoCall @@ third :> NoCall

\* The operation of k1 uses k2, and k1 itself by mistake.
MCMayNest == {<<k1, k1>>, <<k1, k2>>}
=============================================================================
