------------------------------ MODULE LaneFifo ------------------------------
(***************************************************************************)
(* What a lane promises its scheduler: it is a FIFO of instructions.  The  *)
(* instructions of the chains given to a lane complete in the order given, *)
(* each once, and each completion reports the chain of the instruction.    *)
(***************************************************************************)
EXTENDS Sequences

CONSTANTS
    Lanes,      \* lane ids
    Programs,   \* the instruction sequences that may be loaded
    ChainOf     \* instruction id -> chain id

VARIABLES
    pending,            \* lane -> instructions loaded and not completed
    finished_chains     \* completions not yet seen by the scheduler

vars == <<pending, finished_chains>>

Init ==
    /\ pending = [l \in Lanes |-> <<>>]
    /\ finished_chains = <<>>

Load(l, chain) ==
    /\ pending' = [pending EXCEPT ![l] = @ \o chain]
    /\ UNCHANGED finished_chains

Complete(l) ==
    /\ pending[l] # <<>>
    /\ pending' = [pending EXCEPT ![l] = Tail(@)]
    /\ finished_chains' = Append(finished_chains, ChainOf[Head(pending[l])])

See ==
    /\ finished_chains # <<>>
    /\ finished_chains' = Tail(finished_chains)
    /\ UNCHANGED pending

Next ==
    \/ \E l \in Lanes, chain \in Programs : Load(l, chain)
    \/ \E l \in Lanes : Complete(l)
    \/ See

Spec == Init /\ [][Next]_vars

(* A lane with work goes on completing it. *)
FairSpec == Spec /\ \A l \in Lanes : WF_vars(Complete(l))

=============================================================================
