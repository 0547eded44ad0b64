--------------------------- MODULE MCStoreHistory ---------------------------
(***************************************************************************)
(* The small instances of the coherence protocol, with the history.        *)
(***************************************************************************)
EXTENDS StoreHistory, MCCoherence

(* A line is stored to, written back, read and replaced, read again. *)
Rereading == {{<<p1, a1, "ST">>, <<p1, a2, "LD">>, <<p2, a1, "LD">>}}

=============================================================================
