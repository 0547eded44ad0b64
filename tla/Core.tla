-------------------------------- MODULE Core --------------------------------
(***************************************************************************)
(* The accelerator core (Core.cpp): lanes, memory unit and Ruby driven by  *)
(* Core::run_a_cycle, chunk after chunk.  For each chunk marker of the     *)
(* trace the host builds the chains, fills the dependency table, assigns   *)
(* every chain to a lane, and runs cycles until is_finish().               *)
(*                                                                         *)
(* The simulator is one thread: phase says which function of the cycle     *)
(* runs next and cursor is the index of its loop.  The only choices left   *)
(* are when Ruby answers and which iteration a chunk belongs to.           *)
(***************************************************************************)
EXTENDS Memory, Lane

CONSTANTS
    num_lanes,
    Chains,             \* chain ids
    instruction_list,   \* chain -> its instructions
    un_dependencies,    \* chain -> the chains that depend on it
    level,              \* chain -> its level in the chain graph
    block,              \* chain -> position of its block in block_chain
    SCHEDULER,          \* 0: by level, 1: by block
    MaxChunks           \* bound: chunks of the trace

ASSUME CoreAssumption ==
    /\ num_lanes \in Nat \ {0} /\ Lanes = 0..(num_lanes - 1)
    /\ Chains # {} /\ IsFiniteSet(Chains) /\ Chains = 0..(Cardinality(Chains) - 1)
    /\ instruction_list \in [Chains -> Seq(Ids)]
    /\ un_dependencies \in [Chains -> SUBSET Chains]
    /\ level \in [Chains -> Nat] /\ block \in [Chains -> Nat]
    /\ SCHEDULER \in {0, 1}
    /\ MaxChunks \in Nat
    /\ Nodes = {n \in Ids : isMemory(n)}
    /\ \A c \in Chains : instruction_list[c] # <<>>

(* The instructions are partitioned into chains, as the decomposition does *)
(* it, and buildChains gives an instruction the chain whose list it is on. *)
ASSUME ChainAssumption ==
    /\ Ids \subseteq Nat
    /\ \A n \in Ids :
          /\ node[n].c_id \in Chains
          /\ \E i \in DOMAIN instruction_list[node[n].c_id] :
                instruction_list[node[n].c_id][i] = n
    /\ \A c \in Chains : \A i, j \in DOMAIN instruction_list[c] :
          /\ node[instruction_list[c][i]].c_id = c
          /\ instruction_list[c][i] = instruction_list[c][j] => i = j

None == -1

VARIABLES
    phase, cursor,
    num_iter,                \* iteration of the current chunk
    input_chain,             \* chains of the chunk not yet loaded
    depen_table,             \* (c, p): chain c still waits for chain p
    lane_pre_schedule,       \* lane -> chains assigned to it, in order
    lane_pre_schedule_size,  \* lane -> instructions assigned to it
    chaintoLane,             \* chain -> lane it was last loaded into
    mem_req_map,             \* lane -> node of its last memory request
    chunks,                  \* chunks begun
    retired                  \* history: instruction -> times it has retired

coreVars == <<num_iter, input_chain, depen_table, lane_pre_schedule,
              lane_pre_schedule_size, chaintoLane, mem_req_map>>

vars == <<rubyVars, memoryVars, laneVars, coreVars, phase, cursor, chunks, retired>>

Phases == {"host", "presched", "lanes", "ruby", "send", "access", "mshr",
           "wake", "chains", "sched", "finish"}

(* Types of the core's state and of its components. *)
TypeOK ==
    /\ RubyTypeOK /\ MemoryTypeOK /\ LaneTypeOK
    /\ phase \in Phases
    /\ cursor \in Nat
    /\ num_iter \in Iters \cup {0}
    /\ input_chain \in SUBSET Chains
    /\ depen_table \in SUBSET (Chains \X Chains)
    /\ lane_pre_schedule \in [Lanes -> Seq(Chains)]
    /\ lane_pre_schedule_size \in [Lanes -> Nat]
    /\ chaintoLane \in [Chains -> Lanes \cup {None}]
    /\ mem_req_map \in [Lanes -> Ids \cup {None}]
    /\ chunks \in 0..MaxChunks
    /\ retired \in [Ids -> Nat]

Init ==
    /\ RubyInit /\ MemoryInit /\ LaneInit
    /\ phase = "host" /\ cursor = 0
    /\ num_iter = 0
    /\ input_chain = {} /\ depen_table = {}
    /\ lane_pre_schedule = [l \in Lanes |-> <<>>]
    /\ lane_pre_schedule_size = [l \in Lanes |-> 0]
    /\ chaintoLane = [c \in Chains |-> None]
    /\ mem_req_map = [l \in Lanes |-> None]
    /\ chunks = 0
    /\ retired = [n \in Ids |-> 0]

(* The loop of the current phase goes on to last, then comes phase next. *)
Loop(last, next) ==
    IF cursor < last THEN cursor' = cursor + 1 /\ UNCHANGED phase
    ELSE cursor' = 0 /\ phase' = next

Return(next) == phase' = next /\ UNCHANGED cursor

-----------------------------------------------------------------------------
(* Starting a chunk.                                                       *)

(* The table of Core::initialize_depen_table. *)
initialize_depen_table ==
    UNION {un_dependencies[p] \X {p} : p \in Chains}

(* Core::buildChains, Core::coreSetIter and the first step of              *)
(* Core::initialize, as the host calls them at a chunk marker.             *)
BeginChunk ==
    /\ phase = "host"
    /\ chunks < MaxChunks
    /\ chunks' = chunks + 1
    /\ input_chain' = input_chain \cup Chains
    /\ num_iter' \in Iters
    /\ depen_table' = depen_table \cup initialize_depen_table
    /\ phase' = "presched" /\ cursor' = 1
    /\ UNCHANGED <<rubyVars, memoryVars, laneVars, lane_pre_schedule,
                   lane_pre_schedule_size, chaintoLane, mem_req_map, retired>>

(* The order in which chains are assigned: by level (stack_sche_chain), or *)
(* block by block.                                                         *)
Before(c, d) ==
    LET key == IF SCHEDULER = 1 THEN block ELSE level
    IN  key[c] < key[d] \/ (key[c] = key[d] /\ c < d)

stack_sche_chain ==
    [k \in 1..Cardinality(Chains) |->
        CHOOSE c \in Chains : Cardinality({d \in Chains : Before(d, c)}) = k - 1]

(* findMinimum: the first lane with the fewest instructions. *)
findMinimum ==
    First({l \in Lanes : \A m \in Lanes :
                lane_pre_schedule_size[l] <= lane_pre_schedule_size[m]})

(* Core::block_preschedule: the blocks go to the lanes in turn. *)
block_lane(c) == block[c] % num_lanes

(* One chain of Core::preschedule or Core::block_preschedule, as           *)
(* Core::initialize chooses.                                               *)
Preschedule ==
    /\ phase = "presched"
    /\ LET c == stack_sche_chain[cursor]
           l == IF SCHEDULER = 1 THEN block_lane(c) ELSE findMinimum
       IN  /\ lane_pre_schedule' = [lane_pre_schedule EXCEPT ![l] = Append(@, c)]
           /\ lane_pre_schedule_size' =
                 [lane_pre_schedule_size EXCEPT ![l] = @ + Len(instruction_list[c])]
    /\ Loop(Cardinality(Chains), "lanes")
    /\ UNCHANGED <<rubyVars, memoryVars, laneVars, num_iter, input_chain,
                   depen_table, chaintoLane, mem_req_map, chunks, retired>>

-----------------------------------------------------------------------------
(* Core::run_a_cycle, step by step.                                        *)

(* Core::run_one_cycle_core: every lane runs, then Ruby's clock advances.  *)
RunLane ==
    /\ phase = "lanes"
    /\ run(cursor)
    /\ retired' =
          LET lane == updateCounter(m_lanes[cursor]) IN
          IF retires(lane) THEN [retired EXCEPT ![Head(lane.exe_stack)] = @ + 1]
          ELSE retired
    /\ Loop(num_lanes - 1, "ruby")
    /\ UNCHANGED <<rubyVars, memoryVars, coreVars, chunks>>

Callback(line) ==
    /\ phase = "ruby"
    /\ hitCallback(line)
    /\ UNCHANGED <<memoryVars, laneVars, coreVars, phase, cursor, chunks, retired>>

AdvanceTimeReturns ==
    /\ phase = "ruby"
    /\ Return("send")
    /\ UNCHANGED <<rubyVars, memoryVars, laneVars, coreVars, chunks, retired>>

(* Core::send_memory_req, one request of the lanes' queue. *)
SendMemoryReq ==
    /\ phase = "send"
    /\ mem_req_queue # <<>>
    /\ LET l == Head(mem_req_queue)[1]
           n == Head(mem_req_queue)[2]
       IN  /\ mem_req_map' = [mem_req_map EXCEPT ![l] = n]
           /\ send_req(num_iter, n)
    /\ mem_req_queue' = Tail(mem_req_queue)
    /\ UNCHANGED <<rubyVars, m_lanes, finished_chains, num_iter, input_chain,
                   depen_table, lane_pre_schedule, lane_pre_schedule_size,
                   chaintoLane, phase, cursor, chunks, retired>>

SendMemoryReqReturns ==
    /\ phase = "send"
    /\ mem_req_queue = <<>>
    /\ Return("access")
    /\ UNCHANGED <<rubyVars, memoryVars, laneVars, coreVars, chunks, retired>>

(* Core::update_mem_exe: recv_resp, then wake the lane of every answer.    *)
Access ==
    /\ phase = "access"
    /\ access
    /\ Return("mshr")
    /\ UNCHANGED <<laneVars, coreVars, chunks, retired>>

ProcessMshr ==
    /\ phase = "mshr"
    /\ process_mshr
    /\ UNCHANGED <<laneVars, coreVars, phase, cursor, chunks, retired>>

RecvRespReturns ==
    /\ phase = "mshr"
    /\ RubyQueueEmpty
    /\ Return("wake")
    /\ UNCHANGED <<rubyVars, memoryVars, laneVars, coreVars, chunks, retired>>

(* The lanes that have ever sent a request. *)
LanesOf_AnySender(n) == {l \in Lanes : mem_req_map[l] # None}

(* The lanes mem_req_map maps to node n; the code takes the first. *)
LanesOf(n) == {l \in Lanes : mem_req_map[l] = n}

WakeLane ==
    /\ phase = "wake"
    /\ m_mem_resp_list # <<>>
    /\ LanesOf(Head(m_mem_resp_list)) # {}
    /\ wakeLane(First(LanesOf(Head(m_mem_resp_list))))
    /\ m_mem_resp_list' = Tail(m_mem_resp_list)
    /\ UNCHANGED <<rubyVars, ldst_addr_buffer, mem_req_stack, coreVars,
                   phase, cursor, chunks, retired>>

UpdateMemExeReturns ==
    /\ phase = "wake"
    /\ m_mem_resp_list = <<>>
    /\ Return("chains")
    /\ UNCHANGED <<rubyVars, memoryVars, laneVars, coreVars, chunks, retired>>

(* The transposed entries of the table. *)
Released_Transposed(p) == {<<p, c>> : c \in un_dependencies[p]}

(* The entries of the table that a chain in finished_chains clears. *)
Released(p) == {<<c, p>> : c \in un_dependencies[p]}

(* Core::updateChains, one entry of finished_chains. *)
UpdateChains ==
    /\ phase = "chains"
    /\ finished_chains # <<>>
    /\ depen_table' = depen_table \ Released(Head(finished_chains))
    /\ finished_chains' = Tail(finished_chains)
    /\ UNCHANGED <<rubyVars, memoryVars, m_lanes, mem_req_queue, num_iter,
                   input_chain, lane_pre_schedule, lane_pre_schedule_size,
                   chaintoLane, mem_req_map, phase, cursor, chunks, retired>>

UpdateChainsReturns ==
    /\ phase = "chains"
    /\ finished_chains = <<>>
    /\ phase' = "sched" /\ cursor' = 0
    /\ UNCHANGED <<rubyVars, memoryVars, laneVars, coreVars, chunks, retired>>

(* The chains of which one dependency has been cleared. *)
ReadyChains_AnyCleared(l) ==
    {i \in DOMAIN lane_pre_schedule[l] :
        \E p \in Chains : <<lane_pre_schedule[l][i], p>> \notin depen_table}

(* The chains assigned to lane l, by position, whose row is all zero. *)
ReadyChains(l) ==
    {i \in DOMAIN lane_pre_schedule[l] :
        \A p \in Chains : <<lane_pre_schedule[l][i], p>> \notin depen_table}

(* An erasure that leaves the lane's size counter as it is. *)
EraseFromBuffer_KeepsSize(l, i) ==
    /\ lane_pre_schedule' = [lane_pre_schedule EXCEPT ![l] = KeepAt(@, DOMAIN @ \ {i})]
    /\ UNCHANGED lane_pre_schedule_size

(* The chain at position i leaves the buffer of lane l. *)
EraseFromBuffer(l, i) ==
    /\ lane_pre_schedule' = [lane_pre_schedule EXCEPT ![l] = KeepAt(@, DOMAIN @ \ {i})]
    /\ lane_pre_schedule_size' = [lane_pre_schedule_size EXCEPT
          ![l] = @ - Len(instruction_list[lane_pre_schedule[l][i]])]

(* Core::ooo_scheduler for one lane: a free lane is given the first ready  *)
(* chain of its buffer.                                                    *)
Schedule ==
    /\ phase = "sched"
    /\ Loop(num_lanes - 1, "finish")
    /\ IF is_free(m_lanes[cursor]) /\ ReadyChains(cursor) # {}
       THEN LET i == First(ReadyChains(cursor))
                c == lane_pre_schedule[cursor][i]
            IN  /\ EraseFromBuffer(cursor, i)
                /\ LoadInstructionQueue(cursor, instruction_list[c])
                /\ chaintoLane' = [chaintoLane EXCEPT ![c] = cursor]
                /\ input_chain' = input_chain \ {c}
       ELSE UNCHANGED <<laneVars, input_chain, lane_pre_schedule,
                        lane_pre_schedule_size, chaintoLane>>
    /\ UNCHANGED <<rubyVars, memoryVars, num_iter, depen_table, mem_req_map,
                   chunks, retired>>

(* Core::is_finish *)
is_finish == input_chain = {} /\ \A l \in Lanes : is_free(m_lanes[l])

EndCycle ==
    /\ phase = "finish"
    /\ Return(IF is_finish THEN "host" ELSE "lanes")
    /\ UNCHANGED <<rubyVars, memoryVars, laneVars, coreVars, chunks, retired>>

(* The trace has no further chunk. *)
EndOfTrace ==
    /\ phase = "host"
    /\ chunks = MaxChunks
    /\ UNCHANGED vars

Step ==
    \/ BeginChunk \/ Preschedule \/ RunLane \/ AdvanceTimeReturns
    \/ SendMemoryReq \/ SendMemoryReqReturns
    \/ Access \/ ProcessMshr \/ RecvRespReturns
    \/ WakeLane \/ UpdateMemExeReturns
    \/ UpdateChains \/ UpdateChainsReturns
    \/ Schedule \/ EndCycle

Next ==
    \/ Step
    \/ \E line \in Lines : Callback(line)
    \/ EndOfTrace

Spec == Init /\ [][Next]_vars

(* The host's loop runs on, and Ruby answers every request. *)
FairSpec ==
    /\ Spec
    /\ WF_vars(Step)
    /\ \A line \in Lines : SF_vars(Callback(line))

=============================================================================
