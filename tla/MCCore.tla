------------------------------- MODULE MCCore -------------------------------
(***************************************************************************)
(* Programs for the core: five chains; chain 0 feeds 1, 2 and 3, of which  *)
(* 1 and 2 feed 4.                                                         *)
(*                                                                         *)
(* The slow program has loads and stores in every chain, on two lines in   *)
(* iteration 0 and all on one line in iteration 1, and instructions slower *)
(* than a fetch.                                                           *)
(*                                                                         *)
(* In the fast program the loads and stores, and the one instruction that  *)
(* is slower than a fetch, are the last of their chains.                   *)
(***************************************************************************)
EXTENDS CoreProperties

Ins(c, t, lat) == [c_id |-> c, type |-> t, latency |-> lat]

MCChains == 0..4

MCInstructions ==
    [c \in MCChains |-> <<<<1, 2>>, <<3, 4, 5>>, <<6, 7>>, <<8>>, <<9, 10>>>>[c + 1]]

MCDependencies == [c \in MCChains |-> <<{1, 2, 3}, {4}, {4}, {}, {}>>[c + 1]]

MCLevel == [c \in MCChains |-> <<0, 1, 1, 1, 2>>[c + 1]]

MCBlock == [c \in MCChains |-> <<0, 1, 2, 3, 1>>[c + 1]]

SlowNode == <<Ins(0, "Load", 2), Ins(0, "Compute", 5),
              Ins(1, "Load", 2), Ins(1, "Compute", 2), Ins(1, "Store", 2),
              Ins(2, "Load", 2), Ins(2, "Compute", 2),
              Ins(3, "Store", 2),
              Ins(4, "Compute", 5), Ins(4, "Load", 2)>>

FastNode == <<Ins(0, "Compute", 2), Ins(0, "Compute", 6),
              Ins(1, "Compute", 3), Ins(1, "Compute", 1), Ins(1, "Store", 2),
              Ins(2, "Compute", 2), Ins(2, "Load", 2),
              Ins(3, "Store", 2),
              Ins(4, "Compute", 3), Ins(4, "Load", 2)>>

MCMissLatency == [mode \in 0..2 |-> <<1, 25, 100>>[mode + 1]]

SlowNodes == {1, 3, 5, 6, 8, 10}

FastNodes == {5, 7, 8, 10}

MCIters == {0, 1}

MCAddr == <<0, 0, 8, 0, 64, 16, 0, 72, 0, 0>>

MapOf(nodes) ==
    [key \in MCIters \X nodes |->
        [isWrite |-> key[2] \in {5, 8},
         addr |-> IF key[1] = 0 THEN MCAddr[key[2]] ELSE MCAddr[key[2]] % 64]]

SlowMap == MapOf(SlowNodes)

FastMap == MapOf(FastNodes)

=============================================================================
