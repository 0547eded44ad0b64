----------------------------- MODULE MCDram -----------------------------
(***************************************************************************)
(* A channel of two ranks, with timing parameters that are small and keep  *)
(* the relations of the part files: a burst is two cycles, a row takes     *)
(* longer to open than the data bus to turn around.                        *)
(***************************************************************************)
EXTENDS DramProperties

MCTiming ==
    [CL |-> 2, BL |-> 4, tRAS |-> 4, tRCD |-> 3, tRRD |-> 2, tRC |-> 6, tRP |-> 2,
     tCCD |-> 2, tRTP |-> 2, tWTR |-> 1, tWR |-> 1, tRTRS |-> 1, tRFC |-> 4,
     tFAW |-> 8, tCKE |-> 1, tXP |-> 2, tCMD |-> 1]

(***************************************************************************)
(* hit and base share a row, conflict is another row of their bank, side   *)
(* is in the other bank of the rank, other in the second rank.             *)
(***************************************************************************)
MCAddrs == {"base", "hit", "conflict", "side", "other"}
MCLocation ==
    [a \in MCAddrs |->
       [rank |-> IF a = "other" THEN 1 ELSE 0,
        bank |-> IF a = "side" THEN 1 ELSE 0,
        row |-> IF a = "conflict" THEN 1 ELSE 0]]

(***************************************************************************)
(* A row hit against a row conflict, with transactions that wait outside   *)
(* the controller; both kinds of access in two ranks and in two banks.     *)
(***************************************************************************)
Conflict == {<<"base", TRUE>>, <<"hit", FALSE>>, <<"conflict", TRUE>>}
TwoRanks == {<<"base", TRUE>>, <<"other", TRUE>>, <<"other", FALSE>>}
TwoBanks == {<<"base", FALSE>>, <<"side", TRUE>>}
MCWorkloads == {Conflict, TwoRanks, TwoBanks}
=============================================================================
