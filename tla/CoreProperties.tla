--------------------------- MODULE CoreProperties ---------------------------
(***************************************************************************)
(* What the core must keep true, and the two abstractions it implements.   *)
(***************************************************************************)
EXTENDS Core

(* When is_finish() ends a chunk, no access is in flight anywhere: the     *)
(* host can use the same sequencer and its callback queue at once.         *)
QuiescentBetweenChunks ==
    phase = "host" =>
        /\ Outstanding = {} /\ RubyQueueEmpty
        /\ ldst_addr_buffer = <<>> /\ mem_req_stack = MEM_MSHR_SIZE
        /\ mem_req_queue = <<>> /\ m_mem_resp_list = <<>>

(* Places in the lanes' buffers that hold chain c. *)
PlacesOf(c) ==
    UNION {{l} \X {i \in DOMAIN lane_pre_schedule[l] : lane_pre_schedule[l][i] = c} :
              l \in Lanes}

(* The chains in the buffer of lane l, and the instructions of a set of    *)
(* chains by chain and position.                                           *)
Buffered(l) == {lane_pre_schedule[l][i] : i \in DOMAIN lane_pre_schedule[l]}

Slots(S) == UNION {{c} \X DOMAIN instruction_list[c] : c \in S}

(* The lanes' buffers and input_chain agree through preschedule and the    *)
(* scheduler's erasures: a chain of the chunk waits in exactly one buffer  *)
(* until it is loaded and in none afterwards, and the size counter         *)
(* findMinimum relies on counts exactly the instructions that wait.        *)
AssignedOnce ==
    phase # "presched" =>
        /\ \A c \in Chains :
              Cardinality(PlacesOf(c)) = (IF c \in input_chain THEN 1 ELSE 0)
        /\ \A l \in Lanes : lane_pre_schedule_size[l] = Cardinality(Slots(Buffered(l)))

(* Every chunk comes to an end: no dependency, memory answer or lane keeps *)
(* run_a_cycle from returning true.                                        *)
ChunkTerminates == phase = "presched" ~> phase = "host"

(* The lane loads of this chunk that have happened. *)
Loaded == IF chunks = 0 \/ phase = "presched" THEN {} ELSE Chains \ input_chain

Predecessors(c) == {p \in Chains : c \in un_dependencies[p]}

IdsOf(c) == {instruction_list[c][i] : i \in DOMAIN instruction_list[c]}

(* What the table really guarantees: a chain is loaded only after every    *)
(* chain it depends on has retired an instruction in this chunk.           *)
LoadedAfterPredecessorsStart ==
    \A c \in Loaded : \A p \in Predecessors(c) :
        \E n \in IdsOf(p) : retired[n] >= chunks

(* updateChains is documented to "update dependencies base on completed    *)
(* chains": a chain would be loaded only after every instruction of the    *)
(* chains it depends on has retired.                                       *)
LoadedAfterPredecessorsComplete ==
    \A c \in Loaded : \A p \in Predecessors(c) :
        \A n \in IdsOf(p) : retired[n] >= chunks

(* Slow instructions, and those that stall on Ruby, end their chains. *)
SlowEndsChains == \A c \in Chains : SlowIsLast(instruction_list[c])

(* is_finish is documented to "Check whether the scheduler has ran all the *)
(* chains": when it ends a chunk, every instruction of every chain has     *)
(* retired, once per chunk.                                                *)
FinishMeansAllRun ==
    phase = "host" => \A n \in Ids : retired[n] = chunks

-----------------------------------------------------------------------------
(* The memory unit under the core is the memory unit of MemoryCycle: the   *)
(* lanes stall on an access until it is answered.                          *)
memPhase == IF phase \in {"ruby", "send", "access", "mshr", "wake"} THEN phase ELSE "ruby"

sentNodes ==
    {m_lanes[l].exe_stack[1] : l \in {k \in Lanes : m_lanes[k].exe_cnt = -1}}
        \ {mem_req_queue[i][2] : i \in DOMAIN mem_req_queue}

MemCycle == INSTANCE MemoryCycle WITH phase <- memPhase, waiting <- sentNodes

(* The core, with real lanes, drives the memory unit the way MemoryCycle   *)
(* assumes, at most one request of a node in flight; and update_mem_exe    *)
(* wakes the lane stalled on the answered node, although the entries of    *)
(* mem_req_map it looks the lane up in are never erased.                   *)
ImplementsMemoryCycle == MemCycle!Spec

(* The lanes under the core are the lanes of LanePipeline. *)
ranLanes == IF phase = "lanes" THEN 0..(cursor - 1) ELSE Lanes

Pipeline == INSTANCE LanePipeline WITH
    ran <- ranLanes,
    Programs <- {instruction_list[c] : c \in Chains},
    MaxBacklog <- MaxChunks * Cardinality(Ids)

(* The core runs, wakes, loads and drains the lanes only as LanePipeline   *)
(* assumes: a lane is loaded only when free and woken only when stalled.   *)
ImplementsLanePipeline == Pipeline!Spec

=============================================================================
