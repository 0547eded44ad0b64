------------------------------- MODULE MCHost -------------------------------
(***************************************************************************)
(* The fast program of MCCore under the main loop.  The host and the       *)
(* accelerator share two lines, and the host uses a third.                 *)
(***************************************************************************)
EXTENDS Host, MCCore

MCHostRequests == {[addr |-> 0, isWrite |-> FALSE], [addr |-> 32, isWrite |-> TRUE],
                   [addr |-> 64, isWrite |-> FALSE], [addr |-> 130, isWrite |-> FALSE]}

=============================================================================
