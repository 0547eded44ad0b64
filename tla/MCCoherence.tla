----------------------------- MODULE MCCoherence -----------------------------
(***************************************************************************)
(* Small instances of the coherence protocol.                              *)
(***************************************************************************)
EXTENDS CoherenceProperties

CONSTANTS p1, p2, a1, a2

(* Both processors load, store and fetch one line. *)
OneLine == {p1, p2} \X {a1} \X Ops

(* They share one line, which the first evicts from the L1 and from the L2 *)
(* by reading another.                                                     *)
Evicting == {<<p1, a1, "ST">>, <<p1, a2, "LD">>, <<p2, a1, "LD">>, <<p2, a1, "ST">>}

(* One processor's line is evicted from the L2 by the other's. *)
Displacing == {<<p1, a1, "ST">>, <<p2, a2, "LD">>, <<p2, a2, "ST">>}

MCWorkloads == {OneLine, Evicting}

LiveWorkloads == {OneLine, Displacing}

=============================================================================
