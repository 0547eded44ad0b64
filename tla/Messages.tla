------------------------------ MODULE Messages ------------------------------
(***************************************************************************)
(* What the coherence controllers exchange (MESI_CMP_directory-msg.sm) and *)
(* the two tables every cache controller keeps: the tags of CacheMemory    *)
(* and the transaction buffer TBETable.                                    *)
(*                                                                         *)
(* A data block is known by what has become of it: it holds the last store *)
(* to its line ("fresh"), it was overtaken by a store to another copy      *)
(* ("stale"), or nobody ever assigned it ("unset").  A message with        *)
(* several destinations is delivered to each of them separately.           *)
(***************************************************************************)
EXTENDS Integers, FiniteSets, Sequences

CONSTANTS
    Procs,      \* the processors, each with its L1 and its sequencer
    Addrs,      \* line addresses, all in one set of every cache
    L1_WAYS,    \* L1_CACHE_ASSOC of the instruction and of the data cache
    L2_WAYS     \* L2_CACHE_ASSOC

L2 == "L2"
Dir == "Dir"

ASSUME CoherenceAssumption ==
    /\ IsFiniteSet(Procs) /\ IsFiniteSet(Addrs)
    /\ L1_WAYS \in Nat \ {0} /\ L2_WAYS \in Nat \ {0}
    /\ Procs \cap {L2, Dir} = {}

Blocks == {"fresh", "stale", "unset"}

(* RequestMsg: peer is the Requestor.  The fields of a message that a      *)
(* controller leaves unassigned have their declared default.               *)
RequestMsg(type, a, peer, dest) ==
    [type |-> type, addr |-> a, peer |-> peer, dest |-> dest,
     data |-> "unset", dirty |-> FALSE, acks |-> 0]

(* ResponseMsg: peer is the Sender. *)
ResponseMsg(type, a, peer, dest, acks) ==
    [type |-> type, addr |-> a, peer |-> peer, dest |-> dest,
     data |-> "unset", dirty |-> FALSE, acks |-> acks]

(* A message that carries the data and the dirty bit of a block. *)
WithData(msg, block) == [msg EXCEPT !.data = block.data, !.dirty = block.dirty]

Requests == {"GETX", "UPGRADE", "GETS", "GET_INSTR", "INV", "PUTX"}

Responses == {"MEMORY_ACK", "DATA", "DATA_EXCLUSIVE", "MEMORY_DATA", "ACK", "WB_ACK"}

Unblocks == {"UNBLOCK", "EXCLUSIVE_UNBLOCK"}

Message == [type : Requests \cup Responses \cup Unblocks, addr : Addrs,
            peer : Procs \cup {L2, Dir}, dest : Procs \cup {L2, Dir},
            data : Blocks, dirty : BOOLEAN, acks : Int]

-----------------------------------------------------------------------------
(* CacheMemory of one set: tags is the set of lines that are present.      *)
cacheAvail(tags, ways, a) == a \in tags \/ Cardinality(tags) < ways

(* The victim of the replacement policy: LRUPolicy takes the line touched  *)
(* longest ago; any line of the full set is allowed here.                  *)
cacheProbe(tags) == tags

(* A transition table answers with the next state and the actions that are *)
(* run, in order, before it is entered.                                    *)
Row(next, acts) == [next |-> next, acts |-> acts]

(* The message goes to the back of its queue and nothing else happens. *)
Recycle == Row("recycle", <<>>)

(* The table has no transition: the generated controller stops with        *)
(* "Invalid transition".                                                   *)
Invalid == Row("invalid", <<>>)

=============================================================================
