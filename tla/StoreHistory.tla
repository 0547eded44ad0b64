---------------------------- MODULE StoreHistory ----------------------------
(***************************************************************************)
(* The coherence protocol with a history of the lines that have been       *)
(* stored to, for what Ruby's tester says of the data.  A simulation runs  *)
(* with DATA_BLOCK off and has no data; tester.defaults turns it on.       *)
(*                                                                         *)
(* Memory starts with blocks of zeros, and a block nobody has assigned is  *)
(* of zeros too (the constructor of DataBlock): before the first store to  *)
(* a line there is nothing to lose.                                        *)
(***************************************************************************)
EXTENDS CoherenceProperties

VARIABLE stored     \* history: the lines that have been stored to

(* A store is done when writeCallback takes it out of the sequencer's      *)
(* table.                                                                  *)
StoresDone ==
    {a \in Addrs : \E p \in Procs : <<a, "ST">> \in outstanding[p] \ outstanding'[p]}

HistorySpec ==
    /\ Init /\ stored = {}
    /\ [][Next /\ stored' = stored \cup StoresDone]_<<vars, stored>>

(* "Action/check failure": Check::performCallback stops the tester if a    *)
(* load does not return what the last store to the line has written.  So   *)
(* every block an L1 lets its processor read would have to be the one of   *)
(* the last store, once there has been a store.                            *)
LoadReturnsLastStore ==
    \A p \in Procs, a \in stored :
        St(p, a) \in {"S", "E", "M"} => l1[p].entry[a].data = "fresh"

=============================================================================
