---------------------------- MODULE MCMemoryCycle ----------------------------
(***************************************************************************)
(* Nodes 1 to 3 access one line (1 and 2 the same word, 2 is a store),     *)
(* node 4 the next line, node 5 either of two lines depending on the       *)
(* iteration.                                                              *)
(***************************************************************************)
EXTENDS MemoryCycle

MCLines == {0, 64, 128}

MCIters == {0, 1}

MCNodes == 1..5

MCAddr == [node \in MCNodes |-> <<8, 8, 63, 64, 72>>[node]]

MCmemaddr_map ==
    [key \in MCIters \X MCNodes |->
        [isWrite |-> key[2] = 2,
         addr |-> MCAddr[key[2]] + (IF key[2] = 5 THEN 64 * key[1] ELSE 0)]]

=============================================================================
