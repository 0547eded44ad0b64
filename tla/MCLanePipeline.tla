--------------------------- MODULE MCLanePipeline ---------------------------
(***************************************************************************)
(* Two chains: a load, a slow and a fast instruction; and a fast one with  *)
(* a store.                                                                *)
(***************************************************************************)
EXTENDS LanePipeline

Ins(c, t, lat) == [c_id |-> c, type |-> t, latency |-> lat]

MCnode == <<Ins(0, "Load", 2), Ins(0, "Compute", 5), Ins(0, "Compute", 2),
            Ins(1, "Compute", 2), Ins(1, "Store", 2)>>

MCPrograms == {<<1, 2, 3>>, <<4, 5>>}

MCMissLatency == [mode \in 0..2 |-> <<1, 25, 100>>[mode + 1]]

=============================================================================
