-------------------------------- MODULE Lane --------------------------------
(***************************************************************************)
(* The execution lanes (Lane.cpp).  A lane is a three-stage pipeline of    *)
(* FIFO queues: the instructions of the chains loaded into it, those       *)
(* fetched, and the one being executed.  Each stage has a down counter;    *)
(* an execution counter of -1 stalls the lane until memory answers.        *)
(*                                                                         *)
(* An instruction is its id in the original graph (old_id); node gives its *)
(* chain, its opcode class and its latency.  The decode stage is disabled  *)
(* in Lane::run, and the stall and opcode statistics are left out.         *)
(***************************************************************************)
EXTENDS Integers, Sequences

CONSTANTS
    Lanes,          \* lane ids
    node,           \* instruction id -> [c_id, type, latency]
    MEMORY_MODE,    \* 0, 1, 2: fixed miss latency; 3: Ruby
    MISS_LATENCY    \* L1, L2 and L3_MISS_LATENCY for modes 0, 1 and 2

Ids == DOMAIN node

ASSUME LaneAssumption ==
    /\ MEMORY_MODE \in 0..3
    /\ MISS_LATENCY \in [0..2 -> Nat \ {0}]
    /\ \A n \in Ids :
          /\ node[n].type \in {"Load", "Store", "Compute"}
          /\ node[n].latency \in Nat \ {0}

VARIABLES
    m_lanes,            \* the lanes
    finished_chains,    \* chain ids pushed by retiring instructions
    mem_req_queue       \* (lane, node) of loads and stores not yet sent

laneVars == <<m_lanes, finished_chains, mem_req_queue>>

LaneState ==
    [instruction_queue : Seq(Ids),
     fetch_stack : Seq(Ids),
     exe_stack : Seq(Ids),
     fetch_cnt : Nat,
     exe_cnt : Nat \cup {-1}]

LaneTypeOK ==
    /\ m_lanes \in [Lanes -> LaneState]
    /\ finished_chains \in Seq({node[n].c_id : n \in Ids})
    /\ mem_req_queue \in Seq(Lanes \X Ids)

LaneInit ==
    /\ m_lanes = [l \in Lanes |->
                    [instruction_queue |-> <<>>, fetch_stack |-> <<>>,
                     exe_stack |-> <<>>, fetch_cnt |-> 0, exe_cnt |-> 0]]
    /\ finished_chains = <<>>
    /\ mem_req_queue = <<>>

-----------------------------------------------------------------------------
(* The delay that Lane::fetch sets; the FETCH_DELAY parameter is read only *)
(* by an assertion.                                                        *)
FetchCycles == 4

(* Counters that are decremented without a test. *)
updateCounter_Unguarded(lane) ==
    [lane EXCEPT !.fetch_cnt = @ - 1, !.exe_cnt = IF @ > 0 THEN @ - 1 ELSE @]

(* Lane::updateCounter *)
updateCounter(lane) ==
    [lane EXCEPT !.fetch_cnt = IF @ > 0 THEN @ - 1 ELSE @,
                 !.exe_cnt = IF @ > 0 THEN @ - 1 ELSE @]

isMemory(n) == node[n].type \in {"Load", "Store"}

(* The switch on the memory mode, and the latency of everything else. *)
exeDelay(n) ==
    IF ~isMemory(n) THEN node[n].latency
    ELSE IF MEMORY_MODE = 3 THEN -1 ELSE MISS_LATENCY[MEMORY_MODE]

(* An execute stage that issues on top of a stalled instruction. *)
issues_WhileStalled(lane) ==
    /\ lane.exe_cnt <= 0
    /\ lane.fetch_stack # <<>> /\ lane.fetch_cnt = 0

(* The two outcomes of Lane::execute that change something. *)
retires(lane) == lane.exe_cnt = 0 /\ lane.exe_stack # <<>>

issues(lane) ==
    /\ lane.exe_cnt = 0 /\ lane.exe_stack = <<>>
    /\ lane.fetch_stack # <<>> /\ lane.fetch_cnt = 0

(* An execute stage that takes the youngest fetched instruction (a stack   *)
(* where the code has a queue named stack).                                *)
execute_Youngest(lane) ==
    IF retires(lane) THEN [lane EXCEPT !.exe_stack = Tail(@)]
    ELSE IF issues(lane)
         THEN LET top == Len(lane.fetch_stack) IN
              [lane EXCEPT !.exe_stack = Append(@, lane.fetch_stack[top]),
                           !.exe_cnt = exeDelay(lane.fetch_stack[top]),
                           !.fetch_stack = SubSeq(@, 1, top - 1)]
         ELSE lane

(* Lane::execute *)
execute(lane) ==
    IF retires(lane) THEN [lane EXCEPT !.exe_stack = Tail(@)]
    ELSE IF issues(lane)
         THEN [lane EXCEPT !.exe_stack = Append(@, Head(lane.fetch_stack)),
                           !.exe_cnt = exeDelay(Head(lane.fetch_stack)),
                           !.fetch_stack = Tail(@)]
         ELSE lane

(* Lane::fetch *)
fetch(lane) ==
    IF lane.fetch_cnt > 0 \/ lane.instruction_queue = <<>> THEN lane
    ELSE [lane EXCEPT !.fetch_stack = Append(@, Head(lane.instruction_queue)),
                      !.instruction_queue = Tail(@),
                      !.fetch_cnt = FetchCycles]

(* Lane::run: counters, execute, fetch.  A retiring instruction reports    *)
(* its chain; a load or store that issues in Ruby mode posts its request.  *)
run(l) ==
    LET lane == updateCounter(m_lanes[l])
        top == Head(lane.fetch_stack)
    IN  /\ m_lanes' = [m_lanes EXCEPT ![l] = fetch(execute(lane))]
        /\ finished_chains' =
              IF retires(lane)
              THEN Append(finished_chains, node[Head(lane.exe_stack)].c_id)
              ELSE finished_chains
        /\ mem_req_queue' =
              IF ~retires(lane) /\ issues(lane) /\ isMemory(top) /\ MEMORY_MODE = 3
              THEN Append(mem_req_queue, <<l, top>>)
              ELSE mem_req_queue

(* Lane::LoadInstructionQueue *)
LoadInstructionQueue(l, chain) ==
    /\ m_lanes' = [m_lanes EXCEPT ![l].instruction_queue = @ \o chain]
    /\ UNCHANGED <<finished_chains, mem_req_queue>>

(* A wake-up that resets only a counter that runs. *)
wakeLane_OnlyRunning(l) ==
    /\ m_lanes' = [m_lanes EXCEPT ![l].exe_cnt = IF @ > 0 THEN 0 ELSE @]
    /\ UNCHANGED <<finished_chains, mem_req_queue>>

(* Lane::setExeCounter(0) *)
wakeLane(l) ==
    /\ m_lanes' = [m_lanes EXCEPT ![l].exe_cnt = 0]
    /\ UNCHANGED <<finished_chains, mem_req_queue>>

(* A lane that is free as soon as its queues are empty. *)
is_free_IgnoresExecution(lane) ==
    lane.fetch_cnt = 0 /\ lane.instruction_queue = <<>>

(* A lane that is free although its fetch stage still counts. *)
is_free_IgnoresFetch(lane) ==
    lane.exe_cnt = 0 /\ lane.instruction_queue = <<>> /\ lane.exe_stack = <<>>

(* Lane::is_free: the fetch stack is not looked at. *)
is_free(lane) ==
    /\ lane.fetch_cnt = 0 /\ lane.exe_cnt = 0
    /\ lane.instruction_queue = <<>> /\ lane.exe_stack = <<>>

-----------------------------------------------------------------------------
(* The instructions a lane holds, oldest first. *)
PendingOf(lane) == lane.exe_stack \o lane.fetch_stack \o lane.instruction_queue

Pending(l) == PendingOf(m_lanes[l])

(* The execution stage holds the one instruction its counter runs for, and *)
(* a stall is for a load or a store.                                       *)
ExecutesOne(lane) ==
    /\ Len(lane.exe_stack) <= 1
    /\ lane.exe_cnt # 0 => lane.exe_stack # <<>>
    /\ lane.exe_cnt = -1 => MEMORY_MODE = 3 /\ isMemory(lane.exe_stack[1])

(* Every instruction of the chain but its last executes in less time than  *)
(* a fetch takes.  A slow instruction, and a load or store that stalls on  *)
(* Ruby, ends its chain.                                                   *)
SlowIsLast(chain) == \A i \in 1..(Len(chain) - 1) : exeDelay(chain[i]) \in 1..(FetchCycles - 1)

(* A lane that is_free() reports free holds no instruction, although       *)
(* is_free() does not look at the fetch stack.  It depends on the chains:  *)
(* an instruction that is fetched while another is slow or stalls is left  *)
(* in that stack.                                                          *)
FreeMeansDrained == \A l \in Lanes : is_free(m_lanes[l]) => Pending(l) = <<>>

=============================================================================
